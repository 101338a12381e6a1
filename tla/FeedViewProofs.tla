--------------------------- MODULE FeedViewProofs ---------------------------
(***************************************************************************)
(* The safety properties of FeedView for any number of calls, polls,       *)
(* clicks, users and comments.                                             *)
(***************************************************************************)
EXTENDS FeedView, SequenceFacts, FiniteSetTheorems, TLAPS

USE DEF webVars, served, page, viewVars

-----------------------------------------------------------------------------
(* The entry on the server.                                                *)

\* a comment of the viewer with this id is from second n or before
Past(id, n) == \A m \in Nat : id = <<Viewer, m>> => m <= n

ServerInv ==
    /\ comments \in Seq(Comments) /\ IdsOnce(comments)
    /\ \A i \in 1 .. Len(comments) :
            comments[i].id \in CommentIds /\ Past(comments[i].id, last[Viewer])
    /\ likes \in Seq(Users)
    /\ last \in [Users -> Nat]
    /\ listed \in BOOLEAN /\ sameSecond \in BOOLEAN

\* What every step of the server keeps.
Keeps ==
    /\ ServerInv'
    /\ last[Viewer] <= last'[Viewer]
    /\ sameSecond => sameSecond'

LEMMA UserFacts == Viewer \in Users /\ Friend \in Users /\ Viewer # Friend
BY EntryAssumption DEF Users

LEMMA IdFacts ==
    /\ \A u \in Users, n \in Nat : <<u, n>> \in CommentIds
    /\ Placeholder \notin CommentIds
    /\ \A c \in Comments : c.id \in CommentIds \union {Placeholder} /\ c.body \in Nat
    /\ \A id \in CommentIds \union {Placeholder}, n \in Nat : [id |-> id, body |-> n] \in Comments
BY EntryAssumption DEF CommentIds, Comments

LEMMA PositionIs ==
    ASSUME NEW id, ServerInv
    PROVE  IsPosition(comments, id, Position(id))
<1> DEFINE I == {i \in 1 .. Len(comments) : comments[i].id = id}
           k == IF I # {} THEN Min(I) ELSE 0
<1>1. Position(id) = k
  BY DEF Position, SelectInSeq
<1> HIDE DEF k
<1>2. IsPosition(comments, id, k)
  <2> HIDE DEF I
  <2>1. comments \in Seq(Comments)
    BY DEF ServerInv
  <2>2. I = {i \in 1 .. Len(comments) : comments[i].id = id}
    BY DEF I
  <2>3. k = IF I # {} THEN Min(I) ELSE 0
    BY DEF k
  <2> QED BY <2>1, <2>2, <2>3, IdPositionFact
<1> QED BY <1>1, <1>2

LEMMA PastKept ==
    ASSUME NEW l \in Nat, NEW m \in Nat, l <= m
    PROVE  \A id : Past(id, l) => Past(id, m)
BY DEF Past

LEMMA LastFact ==
    ASSUME ServerInv
    PROVE  last[Viewer] \in Nat /\ last[Friend] \in Nat
BY UserFacts DEF ServerInv

\* A comment put into an entry.
LEMMA CommentKeeps ==
    ASSUME ServerInv, NEW new \in Comments, new.id \in CommentIds, Comment(new),
           last' \in [Users -> Nat], last[Viewer] <= last'[Viewer],
           Past(new.id, last'[Viewer]),
           sameSecond' \in BOOLEAN, sameSecond => sameSecond'
    PROVE  Keeps
<1> PICK l \in Nat, m \in Nat : l = last[Viewer] /\ m = last'[Viewer]
  BY LastFact, UserFacts
<1>1. \A id : Past(id, l) => Past(id, m)
  BY PastKept
<1>2. IsSetId(comments', comments, new, Comments)
  <2> DEFINE k == Position(new.id)
  <2>1. IsPosition(comments, new.id, k)
    BY PositionIs
  <2>2. comments' = IF k = 0 THEN Append(comments, new) ELSE ReplaceAt(comments, k, new)
    BY DEF Comment
  <2>3. comments \in Seq(Comments) /\ IdsOnce(comments)
    BY DEF ServerInv
  <2> HIDE DEF k
  <2> QED BY <2>1, <2>2, <2>3, SetIdFact
<1>3. /\ comments' \in Seq(Comments) /\ IdsOnce(comments')
      /\ \A i \in 1 .. Len(comments') :
            comments'[i] = new \/ \E j \in 1 .. Len(comments) : comments'[i] = comments[j]
  BY <1>2 DEF IsSetId
<1>4. ASSUME NEW i \in 1 .. Len(comments')
      PROVE  comments'[i].id \in CommentIds /\ Past(comments'[i].id, m)
  BY <1>1, <1>3 DEF ServerInv
<1>5. likes' = likes /\ listed' = TRUE
  BY DEF Comment
<1> QED BY <1>3, <1>4, <1>5 DEF Keeps, ServerInv

LEMMA DeleteCommentKeeps ==
    ASSUME ServerInv, NEW id, DeleteComment(id), UNCHANGED <<last, sameSecond>>
    PROVE  Keeps
<1>1. IsDropId(comments', comments, id, Comments)
  <2> DEFINE k == Position(id)
  <2>1. IsPosition(comments, id, k)
    BY PositionIs
  <2>2. comments' = IF k = 0 THEN comments ELSE RemoveAt(comments, k)
    BY DEF DeleteComment
  <2>3. comments \in Seq(Comments) /\ IdsOnce(comments)
    BY DEF ServerInv
  <2> HIDE DEF k
  <2> QED BY <2>1, <2>2, <2>3, DropIdFact
<1>2. /\ comments' \in Seq(Comments) /\ IdsOnce(comments')
      /\ \A i \in 1 .. Len(comments') :
            \E j \in 1 .. Len(comments) : comments'[i] = comments[j]
  BY <1>1 DEF IsDropId
<1>3. ASSUME NEW i \in 1 .. Len(comments')
      PROVE  comments'[i].id \in CommentIds /\ Past(comments'[i].id, last[Viewer])
  BY <1>2 DEF ServerInv
<1>4. likes' = likes /\ listed' = listed
  BY DEF DeleteComment
<1> QED BY <1>2, <1>3, <1>4, LastFact DEF Keeps, ServerInv

LEMMA LikesKeep ==
    ASSUME ServerInv, likes' \in Seq(Users), listed' \in BOOLEAN,
           UNCHANGED <<comments, last, sameSecond>>
    PROVE  Keeps
BY LastFact DEF Keeps, ServerInv

LEMMA LikeKeeps ==
    ASSUME ServerInv, NEW user \in Users, Like(user) \/ DeleteLike(user),
           UNCHANGED <<last, sameSecond>>
    PROVE  Keeps
<1>1. likes \in Seq(Users) /\ listed \in BOOLEAN
  BY DEF ServerInv
<1>2. CASE Like(user)
  <2>1. /\ comments' = comments
        /\ likes' = likes \/ likes' = Append(likes, user)
        /\ listed' = listed \/ listed' = TRUE
    BY <1>2 DEF Like
  <2>2. Append(likes, user) \in Seq(Users)
    BY <1>1
  <2>3. likes' \in Seq(Users)
    BY <1>1, <2>1, <2>2
  <2>4. listed' \in BOOLEAN
    BY <1>1, <2>1
  <2> QED BY <2>1, <2>3, <2>4, LikesKeep
<1>3. CASE DeleteLike(user)
  <2>1. comments' = comments /\ listed' = listed
    BY <1>3 DEF DeleteLike
  <2>2. CASE ~Contains(likes, user)
    BY <1>1, <1>3, <2>1, <2>2, LikesKeep DEF DeleteLike
  <2>3. CASE Contains(likes, user)
    <3> DEFINE I == {i \in 1 .. Len(likes) : likes[i] = user}
               k == IF I # {} THEN Min(I) ELSE 0
    <3>1. likes' = RemoveAt(likes, k)
      BY <1>3, <2>3 DEF DeleteLike, SelectInSeq
    <3>2. I \in SUBSET (1 .. Len(likes)) /\ Len(likes) \in Nat /\ I # {}
      BY <1>1, <2>3 DEF Contains
    <3> HIDE DEF I
    <3>3. k \in 1 .. Len(likes)
      BY <3>2, PositionFact
    <3> HIDE DEF k
    <3>4. RemoveAt(likes, k) \in Seq(Users)
      BY <1>1, <3>3, RemoveAtFact
    <3> QED BY <1>1, <2>1, <3>1, <3>4, LikesKeep
  <2> QED BY <2>2, <2>3
<1> QED BY <1>2, <1>3

LEMMA ElsewhereKeeps ==
    ASSUME ServerInv, events \in Nat, Elsewhere
    PROVE  Keeps /\ calls' = calls /\ failed' = failed /\ events' \in Nat
<1>1. calls' = calls /\ failed' = failed /\ events' \in Nat
  BY DEF Elsewhere, Event
<1>2. CASE FriendComments
  <2>1. PICK n \in Nat : n = last[Friend] + 1 /\ last[Friend] \in Nat
    BY LastFact
  <2>2. /\ last' = [last EXCEPT ![Friend] = n] /\ sameSecond' = sameSecond
        /\ Comment([id |-> <<Friend, n>>, body |-> 0])
    BY <1>2, <2>1 DEF FriendComments
  <2>3. /\ last' \in [Users -> Nat] /\ last[Viewer] <= last'[Viewer]
        /\ Past(<<Friend, n>>, last'[Viewer])
    BY <2>1, <2>2, UserFacts, LastFact DEF ServerInv, Past
  <2> DEFINE new == [id |-> <<Friend, n>>, body |-> 0]
  <2>4. new \in Comments /\ new.id = <<Friend, n>> /\ new.id \in CommentIds /\ Comment(new)
    BY <2>2, UserFacts, IdFacts
  <2> HIDE DEF new
  <2>5. Past(new.id, last'[Viewer])
    BY <2>3, <2>4
  <2> QED BY <1>1, <2>2, <2>3, <2>4, <2>5, CommentKeeps DEF ServerInv
<1>3. CASE FriendUncomments
  BY <1>1, <1>3, DeleteCommentKeeps DEF FriendUncomments
<1>4. CASE FriendLikes \/ FriendUnlikes
  BY <1>1, <1>4, UserFacts, LikeKeeps DEF FriendLikes, FriendUnlikes
<1>5. CASE Displaced
  BY <1>1, <1>5, LikesKeep DEF Displaced, ServerInv
<1> QED BY <1>2, <1>3, <1>4, <1>5 DEF Elsewhere

-----------------------------------------------------------------------------
(* The invariant.  An array holds a comment once; one that a post will be  *)
(* pushed to does not have it yet; what answers bring has nothing twice.   *)

Mine(id) == \E n \in Nat : id = <<Viewer, n>>

Has(array, id) == \E i \in 1 .. Len(array) : array[i].id = id

\* comments a poll or an answer brings
Brought(cs, l) ==
    /\ cs \in Seq(Comments) /\ IdsOnce(cs)
    /\ \A i \in 1 .. Len(cs) : Past(cs[i].id, l)

ArrayOK(array, l, twice) ==
    /\ array \in Seq(Objects)
    /\ ~twice => IdsOnce(array)
    /\ \A i \in 1 .. Len(array) :
            /\ Past(array[i].id, l)
            /\ array[i].is_editing => array[i].id # Placeholder

ArraysOK(h, l, twice) ==
    /\ IsFiniteSet(DOMAIN h) /\ DOMAIN h \subseteq Nat
    /\ \A r \in DOMAIN h : ArrayOK(h[r], l, twice)

CallRecords ==
    [kind : Kinds, id : CommentIds \union {None}, body : Nat, array : Nat \union {None},
     entry : BOOLEAN, self : BOOLEAN, served : BOOLEAN, lost : BOOLEAN,
     answer : Seq(Comments) \union Seq(Likers)]

CallOK(call, l) ==
    /\ call.lost => ~call.served
    /\ call.self /\ call.kind \in {"post", "edit"} => call.array # None
    /\ call.kind \in CommentKinds => call.answer \in Seq(Comments)
    /\ call.kind \in LikeKinds => call.answer \in Seq(Likers)
    /\ call.kind \in {"edit", "delete"} => call.id \in CommentIds /\ Past(call.id, l)
    /\ call.kind = "delete" => ~call.served
    /\ call.served =>
        /\ call.kind = "post" => \E new \in Comments :
                call.answer = <<new>> /\ Mine(new.id) /\ Past(new.id, l)
        /\ call.kind = "edit" => \E new \in Comments :
                call.answer = <<new>> /\ new.id = call.id
        /\ call.kind = "expandComments" =>
                Brought(call.answer, l) /\ ~Has(call.answer, Placeholder)

CallsOK(cs, l) ==
    /\ cs \in [Slots -> CallRecords \union {None}]
    /\ \A s \in Slots : cs[s] # None => CallOK(cs[s], l)

\* what a call refers to is there
Refers(h, cs) ==
    \A s \in Slots : cs[s] # None /\ ~cs[s].lost => cs[s].array \in DOMAIN h \union {None}

Pushes(call)   == call # None /\ call.kind = "post" /\ call.served
AnswerId(call) == call.answer[1].id

\* no array has a comment of this id, and no post brings one
Unseen(h, cs, id) ==
    /\ \A r \in DOMAIN h : ~Has(h[r], id)
    /\ \A s \in Slots : Pushes(cs[s]) => AnswerId(cs[s]) # id

PostsOK(h, cs) ==
    /\ \A s \in Slots :
        Pushes(cs[s]) /\ cs[s].self => ~Has(h[cs[s].array], AnswerId(cs[s]))
    /\ \A s, t \in Slots :
        Pushes(cs[s]) /\ Pushes(cs[t]) /\ AnswerId(cs[s]) = AnswerId(cs[t]) => s = t

HeapOK(h, cs, l, twice) ==
    ArraysOK(h, l, twice) /\ Refers(h, cs) /\ (~twice => PostsOK(h, cs))

PollRecords == [served : BOOLEAN, here : BOOLEAN, page : Pages]

PollsOK(ps, l) ==
    /\ ps \in [Polls -> PollRecords \union {None}]
    /\ \A p \in Polls : ps[p] # None => Brought(ps[p].page.comments, l)

States ==
    [comments : Nat \union {None}, likes : Seq(Likers), command : {"like", "unlike"},
     new_comment_form : BOOLEAN, expanded_likes : BOOLEAN, expanded_comments : BOOLEAN]

PageOK ==
    /\ mounted \in BOOLEAN /\ clicked \in BOOLEAN /\ stale \in BOOLEAN
    /\ state \in States /\ state.comments \in DOMAIN heap \union {None}
    /\ deleted \subseteq DOMAIN Shown
    /\ state.expanded_comments /\ ~stale => ~Has(Shown, Placeholder)

ViewInv ==
    /\ ServerInv
    /\ events \in Nat /\ failed \in BOOLEAN
    /\ CallsOK(calls, last[Viewer])
    /\ HeapOK(heap, calls, last[Viewer], sameSecond)
    /\ PollsOK(polls, last[Viewer])
    /\ PageOK

-----------------------------------------------------------------------------
(* References.                                                             *)

\* There is always another number.
LEMMA FreshFact ==
    ASSUME NEW used, IsFiniteSet(used)
    PROVE  Fresh(used) \in Nat /\ Fresh(used) \notin used
<1>1. PICK c \in Nat : c = Cardinality(used)
  BY FS_CardinalityType
<1> DEFINE T == {n \in 1 .. c + 1 : n \notin used}
<1>2. T # {}
  <2> SUFFICES ASSUME T = {} PROVE FALSE
    OBVIOUS
  <2>1. PICK S : S = 1 .. c + 1
    OBVIOUS
  <2>2. S \in SUBSET used
    BY <2>1
  <2>3. Cardinality(S) <= c
    BY <1>1, <2>2, FS_Subset
  <2>4. 1 \in Int /\ c + 1 \in Int
    OBVIOUS
  <2>5. Cardinality(1 .. c + 1) = IF 1 > c + 1 THEN 0 ELSE c + 1 - 1 + 1
    BY <2>4, FS_Interval
  <2> QED BY <2>1, <2>3, <2>5
<1>3. T \in SUBSET Nat
  OBVIOUS
<1>4. Min(T) \in T /\ \A n \in T : Min(T) <= n
  BY <1>2, <1>3, MinFact
<1>5. \E n \in 1 .. c + 1 : n \notin used /\ \A m \in 1 .. n - 1 : m \in used
  <2>1. PICK n \in T : \A m \in T : n <= m
    BY <1>4
  <2>2. n \in 1 .. c + 1 /\ n \notin used
    BY <2>1
  <2>3. ASSUME NEW m \in 1 .. n - 1
        PROVE  m \in used
    <3>1. m \in 1 .. c + 1 /\ ~(n <= m)
      BY <2>2
    <3> QED BY <2>1, <3>1
  <2> QED BY <2>2, <2>3
<1>6. Fresh(used) = CHOOSE n \in 1 .. c + 1 : n \notin used /\ \A m \in 1 .. n - 1 : m \in used
  BY <1>1 DEF Fresh
<1>7. Fresh(used) \in 1 .. c + 1 /\ Fresh(used) \notin used
  BY <1>5, <1>6
<1> QED BY <1>7

LEMMA NewRefFact ==
    ASSUME NEW l, NEW twice, ArraysOK(heap, l, twice)
    PROVE  NewRef \in Nat /\ NewRef \notin DOMAIN heap /\ NewRef # None
BY FreshFact, EntryAssumption DEF NewRef, ArraysOK

LEMMA ImageFinite ==
    ASSUME NEW S, IsFiniteSet(S), NEW f, DOMAIN f = S
    PROVE  IsFiniteSet({f[x] : x \in S})
<1> DEFINE T == {f[x] : x \in S}
           g == [x \in S |-> f[x]]
<1>1. g \in Surjection(S, T)
  BY DEF Surjection
<1> HIDE DEF T, g
<1> QED BY <1>1, FS_Surjection DEF T

LEMMA NewBornFact ==
    ASSUME NEW l, NEW twice, ArraysOK(heap, l, twice)
    PROVE  NewBorn \in Nat
<1> DEFINE born(r) == {heap[r][i].born : i \in DOMAIN heap[r]}
           all == {born(r) : r \in DOMAIN heap}
<1>1. ASSUME NEW r \in DOMAIN heap
      PROVE  IsFiniteSet(born(r))
  <2> DEFINE f == [i \in DOMAIN heap[r] |-> heap[r][i].born]
  <2>1. DOMAIN heap[r] = 1 .. Len(heap[r]) /\ Len(heap[r]) \in Nat
    BY DEF ArraysOK, ArrayOK
  <2>2. IsFiniteSet(DOMAIN heap[r])
    BY <2>1, FS_Interval
  <2>3. DOMAIN f = DOMAIN heap[r]
    OBVIOUS
  <2>4. born(r) = {f[i] : i \in DOMAIN heap[r]}
    OBVIOUS
  <2> HIDE DEF f
  <2> QED BY <2>2, <2>3, <2>4, ImageFinite
<1>2. IsFiniteSet(all)
  <2> DEFINE f == [r \in DOMAIN heap |-> born(r)]
  <2>1. IsFiniteSet(DOMAIN heap) /\ DOMAIN f = DOMAIN heap
    BY DEF ArraysOK
  <2>2. all = {f[r] : r \in DOMAIN heap}
    OBVIOUS
  <2> HIDE DEF f, all
  <2> QED BY <2>1, <2>2, ImageFinite
<1>3. \A T \in all : IsFiniteSet(T)
  BY <1>1
<1>4. IsFiniteSet(UNION all)
  <2> HIDE DEF all
  <2> QED BY <1>2, <1>3, FS_UNION
<1> QED BY <1>4, FreshFact DEF NewBorn

LEMMA FunctionIsSeq ==
    ASSUME NEW n \in Nat, NEW T, NEW f \in [1 .. n -> T]
    PROVE  f \in Seq(T) /\ Len(f) = n
OBVIOUS

LEMMA ObjectFact ==
    ASSUME NEW l, NEW twice, ArraysOK(heap, l, twice), NEW c \in Comments
    PROVE  /\ ObjectOf(c) \in Objects
           /\ ObjectOf(c).id = c.id /\ ObjectOf(c).is_editing = FALSE
BY NewBornFact, IdFacts DEF ObjectOf, Objects

\* The array of an answer is as good as the answer.
LEMMA ObjectsFact ==
    ASSUME NEW l, NEW twice, ArraysOK(heap, l, twice), NEW cs, Brought(cs, l)
    PROVE  /\ ArrayOK(ObjectsOf(cs), l, twice)
           /\ \A id : Has(ObjectsOf(cs), id) => Has(cs, id)
<1> PICK array : array = ObjectsOf(cs)
  OBVIOUS
<1>1. cs \in Seq(Comments) /\ DOMAIN cs = 1 .. Len(cs) /\ Len(cs) \in Nat
  BY DEF Brought
<1>2. ASSUME NEW i \in 1 .. Len(cs)
      PROVE  array[i] \in Objects /\ array[i].id = cs[i].id /\ array[i].is_editing = FALSE
  <2>1. array[i] = ObjectOf(cs[i]) /\ cs[i] \in Comments
    BY <1>1 DEF ObjectsOf
  <2> QED BY <2>1, ObjectFact
<1>3. array = [i \in 1 .. Len(cs) |-> array[i]]
  BY <1>1 DEF ObjectsOf
<1>4. array \in Seq(Objects) /\ Len(array) = Len(cs)
  <2>1. PICK n \in Nat : n = Len(cs)
    BY <1>1
  <2>2. array \in [1 .. n -> Objects]
    BY <1>2, <1>3, <2>1, Zenon
  <2> QED BY <2>1, <2>2, FunctionIsSeq
<1>5. ArrayOK(array, l, twice)
  BY <1>2, <1>4 DEF ArrayOK, Brought, IdsOnce
<1> QED BY <1>2, <1>4, <1>5 DEF Has

-----------------------------------------------------------------------------
(* Calls, arrays and what they have to do with each other.                 *)

\* Time does no harm.
LEMMA LaterCalls ==
    ASSUME NEW l \in Nat, NEW m \in Nat, l <= m, NEW cs, CallsOK(cs, l)
    PROVE  CallsOK(cs, m)
<1>1. \A id : Past(id, l) => Past(id, m)
  BY PastKept
<1>2. ASSUME NEW s \in Slots, cs[s] # None
      PROVE  CallOK(cs[s], m)
  <2> PICK call : call = cs[s]
    OBVIOUS
  <2>1. CallOK(call, l)
    BY <1>2 DEF CallsOK
  <2>2. Brought(call.answer, l) => Brought(call.answer, m)
    BY <1>1 DEF Brought
  <2> QED BY <1>1, <2>1, <2>2 DEF CallOK
<1> QED BY <1>2 DEF CallsOK

LEMMA LaterHeap ==
    ASSUME NEW l \in Nat, NEW m \in Nat, l <= m, NEW t \in BOOLEAN, NEW u \in BOOLEAN, t => u,
           NEW h, NEW cs, HeapOK(h, cs, l, t)
    PROVE  HeapOK(h, cs, m, u)
<1>1. \A id : Past(id, l) => Past(id, m)
  BY PastKept
<1>2. ASSUME NEW r \in DOMAIN h
      PROVE  ArrayOK(h[r], m, u)
  <2> PICK array : array = h[r]
    OBVIOUS
  <2>1. ArrayOK(array, l, t)
    BY DEF HeapOK, ArraysOK
  <2> QED BY <1>1, <2>1 DEF ArrayOK
<1> QED BY <1>2 DEF HeapOK, ArraysOK

LEMMA LaterPolls ==
    ASSUME NEW l \in Nat, NEW m \in Nat, l <= m, NEW ps, PollsOK(ps, l)
    PROVE  PollsOK(ps, m)
<1>1. \A id : Past(id, l) => Past(id, m)
  BY PastKept
<1> QED BY <1>1 DEF PollsOK, Brought

\* A call that ends, one that is sent and one that is lost.
LEMMA Ended ==
    ASSUME NEW cs, NEW l, CallsOK(cs, l), NEW s \in Slots,
           NEW ds, ds = [cs EXCEPT ![s] = None]
    PROVE  CallsOK(ds, l)
BY DEF CallsOK

LEMMA EndedHeap ==
    ASSUME NEW cs, NEW l, CallsOK(cs, l), NEW s \in Slots,
           NEW ds, ds = [cs EXCEPT ![s] = None], NEW h, NEW twice, HeapOK(h, cs, l, twice)
    PROVE  HeapOK(h, ds, l, twice)
<1>1. \A t \in Slots : ds[t] # None => ds[t] = cs[t]
  BY DEF CallsOK
<1> QED BY <1>1 DEF HeapOK, Refers, PostsOK, Pushes

Puts(ds, cs, s, call) == ds = [cs EXCEPT ![s] = call]

LEMMA SentHeap ==
    ASSUME NEW cs, NEW l, CallsOK(cs, l), NEW h, NEW twice, HeapOK(h, cs, l, twice),
           NEW s \in Slots, NEW call \in CallRecords, CallOK(call, l), ~call.served,
           call.array \in DOMAIN h \union {None},
           NEW ds, Puts(ds, cs, s, call)
    PROVE  CallsOK(ds, l) /\ HeapOK(h, ds, l, twice)
<1>1. \A t \in Slots : ds[t] = IF t = s THEN call ELSE cs[t]
  BY DEF CallsOK, Puts
<1>2. CallsOK(ds, l)
  BY <1>1 DEF CallsOK, Puts
<1>3. Refers(h, ds)
  BY <1>1 DEF HeapOK, Refers
<1>4. \A t \in Slots : Pushes(ds[t]) => t # s /\ ds[t] = cs[t]
  BY <1>1 DEF Pushes
<1>5. PostsOK(h, cs) => PostsOK(h, ds)
  BY <1>4 DEF PostsOK
<1> QED BY <1>2, <1>3, <1>5 DEF HeapOK

\* Arrays may be added, and those there are may change if they get no new ids.
LEMMA Grown ==
    ASSUME NEW cs, NEW l, CallsOK(cs, l), NEW h, NEW twice, HeapOK(h, cs, l, twice),
           NEW g, ArraysOK(g, l, twice), DOMAIN h \subseteq DOMAIN g,
           \A r \in DOMAIN h : \A id : Has(g[r], id) => Has(h[r], id)
    PROVE  HeapOK(g, cs, l, twice)
<1>1. Refers(g, cs)
  BY DEF HeapOK, Refers
<1>2. ASSUME NEW s \in Slots, Pushes(cs[s]), cs[s].self
      PROVE  cs[s].array \in DOMAIN h
  <2>1. CallOK(cs[s], l) /\ ~cs[s].lost /\ cs[s].array # None
    BY <1>2 DEF CallsOK, CallOK, Pushes
  <2> QED BY <1>2, <2>1 DEF HeapOK, Refers, Pushes
<1>3. PostsOK(h, cs) => PostsOK(g, cs)
  BY <1>2 DEF PostsOK
<1> QED BY <1>1, <1>3 DEF HeapOK

LEMMA WithArrayFact ==
    ASSUME NEW l, NEW twice, ArraysOK(heap, l, twice),
           NEW r \in Nat, NEW objects, ArrayOK(objects, l, twice),
           NEW h, h = WithArray(r, objects)
    PROVE  /\ ArraysOK(h, l, twice)
           /\ DOMAIN h = DOMAIN heap \union {r} /\ h[r] = objects
           /\ \A s \in DOMAIN heap \ {r} : h[s] = heap[s]
<1>1. /\ DOMAIN h = DOMAIN heap \union {r} /\ h[r] = objects
      /\ \A s \in DOMAIN heap \ {r} : h[s] = heap[s]
  BY DEF WithArray
<1>2. IsFiniteSet(DOMAIN h)
  BY <1>1, FS_AddElement DEF ArraysOK
<1>3. ASSUME NEW s \in DOMAIN h
      PROVE  ArrayOK(h[s], l, twice)
  BY <1>1 DEF ArraysOK
<1> QED BY <1>1, <1>2, <1>3 DEF ArraysOK

\* A new array.
LEMMA NewArray ==
    ASSUME NEW cs, NEW l, CallsOK(cs, l), NEW twice, HeapOK(heap, cs, l, twice),
           NEW objects, ArrayOK(objects, l, twice), NEW h, h = WithArray(NewRef, objects)
    PROVE  /\ HeapOK(h, cs, l, twice)
           /\ NewRef \in Nat /\ NewRef # None
           /\ DOMAIN h = DOMAIN heap \union {NewRef} /\ h[NewRef] = objects
           /\ \A s \in DOMAIN heap : h[s] = heap[s]
<1>1. PICK r : r = NewRef
  OBVIOUS
<1>2. r \in Nat /\ r \notin DOMAIN heap /\ r # None
  BY <1>1, NewRefFact DEF HeapOK
<1>3. /\ ArraysOK(h, l, twice)
      /\ DOMAIN h = DOMAIN heap \union {r} /\ h[r] = objects
      /\ \A s \in DOMAIN heap \ {r} : h[s] = heap[s]
  BY <1>1, <1>2, WithArrayFact DEF HeapOK
<1>4. HeapOK(h, cs, l, twice)
  BY <1>2, <1>3, Grown
<1> QED BY <1>1, <1>2, <1>3, <1>4

\* What nobody refers to goes.
LEMMA Collected ==
    ASSUME NEW l, NEW twice, NEW h, CallsOK(calls', l), HeapOK(h, calls', l, twice),
           state'.comments \in DOMAIN h \union {None}, Collect(h)
    PROVE  /\ HeapOK(heap', calls', l, twice)
           /\ state'.comments \in DOMAIN heap' \union {None}
           /\ state'.comments # None => heap'[state'.comments] = h[state'.comments]
<1> PICK cs, g, c : cs = calls' /\ g = heap' /\ c = state'.comments
  OBVIOUS
<1>1. DOMAIN g = ({c} \union {cs[s].array : s \in {t \in {u \in Slots : cs[u] # None} : ~cs[t].lost}})
                    \ {None}
  BY DEF Collect, Live, UnderWay
<1>2. DOMAIN g \subseteq DOMAIN h
  BY <1>1 DEF HeapOK, Refers
<1>3. \A r \in DOMAIN g : g[r] = h[r]
  BY DEF Collect
<1>4. ArraysOK(g, l, twice)
  <2>1. IsFiniteSet(DOMAIN g)
    BY <1>2, FS_Subset DEF HeapOK, ArraysOK
  <2> QED BY <1>2, <1>3, <2>1 DEF HeapOK, ArraysOK
<1>5. Refers(g, cs)
  BY <1>1 DEF Refers
<1>6. PostsOK(h, cs) => PostsOK(g, cs)
  <2>1. ASSUME NEW s \in Slots, Pushes(cs[s]), cs[s].self
        PROVE  cs[s].array \in DOMAIN g
    <3>1. CallOK(cs[s], l) /\ ~cs[s].lost /\ cs[s].array # None
      BY <2>1 DEF CallsOK, CallOK, Pushes
    <3> QED BY <2>1, <3>1, <1>5 DEF Refers, Pushes
  <2> QED BY <1>3, <2>1 DEF PostsOK
<1>7. HeapOK(g, cs, l, twice)
  BY <1>4, <1>5, <1>6 DEF HeapOK
<1>8. c \in DOMAIN g \union {None} /\ (c # None => g[c] = h[c])
  BY <1>1, <1>3
<1> QED BY <1>7, <1>8

-----------------------------------------------------------------------------
(* What is shown of an entry.                                              *)

LEMMA FormatLikesType ==
    ASSUME NEW ls \in Seq(Users)
    PROVE  FormatLikes(ls) \in Seq(Likers) /\ ls \in Seq(Likers)
<1>1. ls \in Seq(Likers)
  BY DEF Likers
<1>2. CASE Len(ls) > Limit
  <2>1. SubSeq(ls, 1, Limit - 1) \in Seq(Likers)
    <3>1. Limit - 1 \in Nat /\ Limit - 1 <= Len(ls) /\ Len(ls) \in Nat
      BY <1>1, <1>2, EntryAssumption
    <3>2. \A i \in 1 .. Limit - 1 : i \in 1 .. Len(ls)
      BY <3>1
    <3> QED BY <1>1, <3>1, <3>2
  <2>2. Placeholder \in Likers
    BY DEF Likers
  <2> QED BY <1>1, <1>2, <2>1, <2>2 DEF FormatLikes
<1> QED BY <1>1, <1>2 DEF FormatLikes

\* The server sends no comment twice.
LEMMA CommentsBrought ==
    ASSUME ServerInv
    PROVE  /\ Brought(comments, last[Viewer]) /\ ~Has(comments, Placeholder)
           /\ Brought(FormatComments(comments), last[Viewer])
<1>1. Brought(comments, last[Viewer]) /\ ~Has(comments, Placeholder)
  BY IdFacts DEF Brought, Has, ServerInv
<1>2. CASE Len(comments) > Limit
  <2> DEFINE more == [id |-> Placeholder, body |-> 0]
  <2>1. more \in Comments /\ more.id = Placeholder
    BY IdFacts
  <2>2. FormatComments(comments) = <<comments[1], more, comments[Len(comments)]>>
    BY <1>2 DEF FormatComments
  <2> HIDE DEF more
  <2>3. 1 \in 1 .. Len(comments) /\ Len(comments) \in 1 .. Len(comments) /\ Len(comments) # 1
    BY <1>2, EntryAssumption DEF ServerInv
  <2>4. PICK a, b : a = comments[1] /\ b = comments[Len(comments)]
    OBVIOUS
  <2>5. /\ a \in Comments /\ b \in Comments
        /\ a.id # b.id /\ a.id # Placeholder /\ b.id # Placeholder
        /\ Past(a.id, last[Viewer]) /\ Past(b.id, last[Viewer])
    <3>1. PICK k \in 1 .. Len(comments) : k = Len(comments) /\ k # 1 /\ 1 \in 1 .. Len(comments)
      BY <2>3
    <3>2. a = comments[1] /\ b = comments[k]
      BY <2>4, <3>1
    <3>3. a \in Comments /\ b \in Comments
      BY <3>1, <3>2 DEF ServerInv
    <3>4. a.id # b.id
      BY <3>1, <3>2 DEF ServerInv, IdsOnce
    <3>5. /\ a.id \in CommentIds /\ Past(a.id, last[Viewer])
          /\ b.id \in CommentIds /\ Past(b.id, last[Viewer])
      BY <3>1, <3>2 DEF ServerInv
    <3> QED BY <3>3, <3>4, <3>5, IdFacts
  <2>6. Past(Placeholder, last[Viewer])
    BY IdFacts, UserFacts DEF Past
  <2>7. PICK cs : cs = <<a, more, b>>
    OBVIOUS
  <2>8. cs \in Seq(Comments) /\ Len(cs) = 3 /\ cs[1] = a /\ cs[2] = more /\ cs[3] = b
    BY <2>1, <2>5, <2>7
  <2>9. Brought(cs, last[Viewer])
    <3>1. \A i \in 1 .. Len(cs) : i = 1 \/ i = 2 \/ i = 3
      BY <2>8
    <3>2. cs[1].id = a.id /\ cs[2].id = Placeholder /\ cs[3].id = b.id
      BY <2>1, <2>8
    <3> QED BY <2>5, <2>6, <2>8, <3>1, <3>2 DEF Brought, IdsOnce
  <2> QED BY <1>1, <2>2, <2>4, <2>7, <2>9
<1>3. CASE ~(Len(comments) > Limit)
  BY <1>1, <1>3 DEF FormatComments
<1> QED BY <1>1, <1>2, <1>3

LEMMA PageOfFact ==
    ASSUME ServerInv
    PROVE  PageOf \in Pages /\ Brought(PageOf.comments, last[Viewer])
<1>1. LikeCommand(likes) \in {"like", "unlike"}
  BY DEF LikeCommand
<1>2. FormatLikes(likes) \in Seq(Likers)
  BY FormatLikesType DEF ServerInv
<1>3. Brought(FormatComments(comments), last[Viewer])
  BY CommentsBrought
<1> QED BY <1>1, <1>2, <1>3 DEF PageOf, Pages, Brought

-----------------------------------------------------------------------------
(* Steps of the server.                                                    *)

LEMMA StillServer ==
    ASSUME ViewInv, UNCHANGED served
    PROVE  /\ ServerInv' /\ last'[Viewer] = last[Viewer] /\ sameSecond' = sameSecond
           /\ Keeps
<1>1. ServerInv /\ last[Viewer] \in Nat
  BY LastFact DEF ViewInv
<1>2. ServerInv'
  BY <1>1 DEF ServerInv
<1> QED BY <1>1, <1>2 DEF Keeps

\* The page sees nothing of a step of the server.
LEMMA ServerStep ==
    ASSUME ViewInv, Keeps, UNCHANGED <<page, heap, stale>>
    PROVE  /\ CallsOK(calls, last'[Viewer])
           /\ HeapOK(heap, calls, last'[Viewer], sameSecond')
           /\ PollsOK(polls, last'[Viewer])
           /\ PageOK' /\ ServerInv'
<1> PICK l, m, t, u : l = last[Viewer] /\ m = last'[Viewer] /\ t = sameSecond /\ u = sameSecond'
  OBVIOUS
<1>1. l \in Nat /\ m \in Nat /\ l <= m /\ t \in BOOLEAN /\ u \in BOOLEAN /\ (t => u)
  BY UserFacts DEF Keeps, ServerInv, ViewInv
<1>2. CallsOK(calls, l) /\ HeapOK(heap, calls, l, t) /\ PollsOK(polls, l)
  BY DEF ViewInv
<1>3. CallsOK(calls, m)
  BY <1>1, <1>2, LaterCalls
<1>4. HeapOK(heap, calls, m, u)
  BY <1>1, <1>2, LaterHeap
<1>5. PollsOK(polls, m)
  BY <1>1, <1>2, LaterPolls
<1>6. PageOK'
  BY DEF ViewInv, PageOK, Shown
<1> QED BY <1>3, <1>4, <1>5, <1>6 DEF Keeps

LEMMA ElsewhereView ==
    ASSUME ViewInv, Elsewhere, UNCHANGED <<page, heap, polls, stale>>
    PROVE  ViewInv'
<1>1. Keeps /\ calls' = calls /\ failed' = failed /\ events' \in Nat
  BY ElsewhereKeeps DEF ViewInv
<1> QED BY <1>1, ServerStep DEF ViewInv

\* The fields of a call that is answered.
IsAnswered(call, old, answer) ==
    /\ call.kind = old.kind /\ call.id = old.id /\ call.lost = old.lost
    /\ call.self = old.self /\ call.array = old.array
    /\ call.served = TRUE /\ call.answer = answer

LEMMA AnsweredCall ==
    ASSUME NEW old \in CallRecords, NEW answer \in Seq(Comments) \union Seq(Likers),
           NEW call, call = [old EXCEPT !.served = TRUE, !.answer = answer]
    PROVE  call \in CallRecords /\ IsAnswered(call, old, answer)
BY DEF IsAnswered, CallRecords

\* An answer is on its way, unless the call was lost.
LEMMA AnsweredHeap ==
    ASSUME NEW cs, NEW l, CallsOK(cs, l), NEW h, NEW twice, HeapOK(h, cs, l, twice),
           NEW s \in Slots, cs[s] # None, ~cs[s].lost,
           NEW answer, NEW call \in CallRecords, IsAnswered(call, cs[s], answer),
           CallOK(call, l),
           ~twice /\ call.kind = "post" => Unseen(h, cs, AnswerId(call)),
           NEW ds, Puts(ds, cs, s, call)
    PROVE  CallsOK(ds, l) /\ HeapOK(h, ds, l, twice)
<1>2. /\ call \in CallRecords /\ call.served /\ call.array = cs[s].array
      /\ call.kind = cs[s].kind /\ call.self = cs[s].self /\ call.lost = cs[s].lost
  BY DEF IsAnswered
<1>3. \A t \in Slots : ds[t] = IF t = s THEN call ELSE cs[t]
  BY DEF CallsOK, Puts
<1>4. CallsOK(ds, l)
  BY <1>2, <1>3 DEF CallsOK, Puts
<1>5. Refers(h, ds)
  BY <1>2, <1>3 DEF HeapOK, Refers
<1>6. ASSUME ~twice PROVE PostsOK(h, ds)
  <2>1. PostsOK(h, cs)
    BY <1>6 DEF HeapOK
  <2>2. ASSUME call.kind = "post", call.self
        PROVE  call.array \in DOMAIN h
    BY <1>2, <2>2 DEF CallOK, HeapOK, Refers
  <2>3. ASSUME NEW t \in Slots, Pushes(ds[t]), ds[t].self
        PROVE  ~Has(h[ds[t].array], AnswerId(ds[t]))
    BY <1>3, <1>6, <2>1, <2>2, <2>3 DEF PostsOK, Pushes, Unseen
  <2>4. ASSUME NEW t \in Slots, NEW u \in Slots, Pushes(ds[t]), Pushes(ds[u]),
               AnswerId(ds[t]) = AnswerId(ds[u])
        PROVE  t = u
    BY <1>3, <1>6, <2>1, <2>4 DEF PostsOK, Pushes, Unseen
  <2> QED BY <2>3, <2>4 DEF PostsOK
<1> QED BY <1>4, <1>5, <1>6 DEF HeapOK

\* The step of one slot when a call is served.
LEMMA AnsweredView ==
    ASSUME CallsOK(calls, last'[Viewer]), HeapOK(heap, calls, last'[Viewer], sameSecond'),
           NEW s \in Slots, calls[s] # None,
           NEW answer \in Seq(Comments) \union Seq(Likers), Answered(s, answer),
           NEW call, call = [calls[s] EXCEPT !.served = TRUE, !.answer = answer],
           ~calls[s].lost => CallOK(call, last'[Viewer]),
           ~sameSecond' /\ calls[s].kind = "post" => Unseen(heap, calls, answer[1].id)
    PROVE  CallsOK(calls', last'[Viewer]) /\ HeapOK(heap, calls', last'[Viewer], sameSecond')
<1> PICK l, twice, cs, h : l = last'[Viewer] /\ twice = sameSecond' /\ cs = calls /\ h = heap
  OBVIOUS
<1>1. CallsOK(cs, l) /\ HeapOK(h, cs, l, twice)
  OBVIOUS
<1>2. CASE cs[s].lost
  <2> PICK ds : ds = calls'
    OBVIOUS
  <2>1. ds = [cs EXCEPT ![s] = None]
    BY <1>2 DEF Answered, End
  <2>2. CallsOK(ds, l)
    BY <1>1, <2>1, Ended
  <2>3. HeapOK(h, ds, l, twice)
    BY <1>1, <2>1, EndedHeap
  <2> QED BY <2>2, <2>3
<1>3. CASE ~cs[s].lost
  <2> PICK ds : ds = calls'
    OBVIOUS
  <2>1. cs[s] \in CallRecords /\ cs = [t \in Slots |-> cs[t]]
    BY <1>1 DEF CallsOK
  <2>2. call.kind = cs[s].kind /\ AnswerId(call) = answer[1].id
    BY <2>1 DEF CallRecords, AnswerId
  <2>3. Puts(ds, cs, s, call)
    <3>1. ds = [cs EXCEPT ![s].served = TRUE, ![s].answer = answer]
      BY <1>3 DEF Answered
    <3> QED BY <2>1, <3>1 DEF CallRecords, Puts
  <2>4. CallOK(call, l)
    BY <1>3
  <2>5. ~twice /\ call.kind = "post" => Unseen(h, cs, AnswerId(call))
    BY <2>2
  <2>6. cs[s] # None /\ ~cs[s].lost /\ call \in CallRecords /\ IsAnswered(call, cs[s], answer)
    BY <1>3, <2>1, AnsweredCall
  <2>7. CallsOK(ds, l) /\ HeapOK(h, ds, l, twice)
    BY <1>1, <2>3, <2>4, <2>5, <2>6, AnsweredHeap
  <2> QED BY <2>7
<1> QED BY <1>2, <1>3

LEMMA ServePostView ==
    ASSUME ViewInv, NEW s \in Slots, calls[s] # None, ~calls[s].served,
           calls[s].kind = "post", ServePost(s),
           UNCHANGED <<page, heap, polls, failed, events, stale>>
    PROVE  ViewInv'
<1>1. ServerInv /\ last[Viewer] \in Nat /\ CallsOK(calls, last[Viewer]) /\ calls[s] \in CallRecords
  BY LastFact DEF ViewInv, CallsOK
<1>2. PICK second \in {last[Viewer], last[Viewer] + 1} :
        /\ NewComment(second, calls[s].body)
        /\ Answered(s, <<[id |-> <<Viewer, second>>, body |-> calls[s].body]>>)
  BY DEF ServePost
<1>3. PICK id, n : id = <<Viewer, second>> /\ n = calls[s].body
  OBVIOUS
<1>4. PICK new : new = [id |-> id, body |-> n]
  OBVIOUS
<1>5. PICK answer : answer = <<new>>
  OBVIOUS
<1>6. /\ second \in Nat /\ last[Viewer] <= second
      /\ last' = [last EXCEPT ![Viewer] = second]
      /\ sameSecond' = (sameSecond \/ second = last[Viewer])
      /\ Comment(new)
  BY <1>1, <1>2, <1>3, <1>4 DEF NewComment
<1>7. /\ id \in CommentIds /\ new \in Comments /\ new.id = id
      /\ answer \in Seq(Comments) /\ answer[1] = new
  <2>1. id \in CommentIds /\ n \in Nat
    BY <1>1, <1>3, <1>6, UserFacts, IdFacts DEF CallRecords
  <2>2. new \in Comments /\ new.id = id
    BY <1>4, <2>1, IdFacts
  <2> QED BY <1>5, <2>1, <2>2
<1>8. /\ last' \in [Users -> Nat] /\ last'[Viewer] = second
      /\ sameSecond' \in BOOLEAN /\ (sameSecond => sameSecond')
  BY <1>1, <1>6, UserFacts DEF ServerInv
<1>9. Past(id, second)
  BY <1>3, <1>6 DEF Past
<1>10. Keeps
  BY <1>1, <1>6, <1>7, <1>8, <1>9, CommentKeeps
<1>11. /\ CallsOK(calls, last'[Viewer]) /\ HeapOK(heap, calls, last'[Viewer], sameSecond')
       /\ PollsOK(polls, last'[Viewer]) /\ PageOK' /\ ServerInv'
  BY <1>10, ServerStep
<1>12. Answered(s, answer)
  BY <1>2, <1>3, <1>4, <1>5
<1>13. PICK call : call = [calls[s] EXCEPT !.served = TRUE, !.answer = answer]
  OBVIOUS
<1>14. ~calls[s].lost => CallOK(call, second)
  <2>1. CallOK(calls[s], second)
    BY <1>8, <1>11 DEF CallsOK
  <2>3. IsAnswered(call, calls[s], answer)
    BY <1>1, <1>7, <1>13, AnsweredCall
  <2>2. Mine(new.id) /\ Past(new.id, second)
    BY <1>3, <1>6, <1>7, <1>9 DEF Mine
  <2> QED BY <1>5, <1>7, <2>1, <2>2, <2>3 DEF CallOK, LikeKinds, CommentKinds, IsAnswered
<1>15. ASSUME ~sameSecond'
       PROVE  Unseen(heap, calls, id)
  <2>1. second = last[Viewer] + 1
    BY <1>6, <1>15
  <2>2. ~Past(id, last[Viewer])
    BY <1>1, <1>3, <2>1 DEF Past
  <2>3. \A r \in DOMAIN heap : \A i \in 1 .. Len(heap[r]) : Past(heap[r][i].id, last[Viewer])
    BY DEF ViewInv, HeapOK, ArraysOK, ArrayOK
  <2>4. ASSUME NEW t \in Slots, Pushes(calls[t])
        PROVE  Past(AnswerId(calls[t]), last[Viewer])
    <3>1. CallOK(calls[t], last[Viewer]) /\ calls[t].kind = "post" /\ calls[t].served
      BY <1>1, <2>4 DEF CallsOK, Pushes
    <3>2. PICK w : calls[t].answer = <<w>> /\ Past(w.id, last[Viewer])
      BY <3>1 DEF CallOK
    <3>3. <<w>>[1] = w
      OBVIOUS
    <3> QED BY <3>2, <3>3 DEF AnswerId
  <2> QED BY <2>2, <2>3, <2>4 DEF Has, Unseen
<1>16. CallsOK(calls', last'[Viewer]) /\ HeapOK(heap, calls', last'[Viewer], sameSecond')
  BY <1>7, <1>8, <1>11, <1>12, <1>13, <1>14, <1>15, AnsweredView
<1> QED BY <1>11, <1>16 DEF ViewInv

\* The answers that have no new comment.
LEMMA ServeOtherView ==
    ASSUME ViewInv, Keeps, NEW s \in Slots, calls[s] # None, calls[s].kind # "post",
           NEW answer \in Seq(Comments) \union Seq(Likers), Answered(s, answer),
           calls[s].kind \in CommentKinds => answer \in Seq(Comments),
           calls[s].kind \in LikeKinds => answer \in Seq(Likers),
           calls[s].kind # "delete",
           calls[s].kind = "edit" => \E new \in Comments : answer = <<new>> /\ new.id = calls[s].id,
           calls[s].kind = "expandComments" =>
                Brought(answer, last'[Viewer]) /\ ~Has(answer, Placeholder),
           UNCHANGED <<page, heap, polls, failed, events, stale>>
    PROVE  ViewInv'
<1>1. /\ CallsOK(calls, last'[Viewer]) /\ HeapOK(heap, calls, last'[Viewer], sameSecond')
      /\ PollsOK(polls, last'[Viewer]) /\ PageOK' /\ ServerInv'
  BY ServerStep
<1>2. PICK call : call = [calls[s] EXCEPT !.served = TRUE, !.answer = answer]
  OBVIOUS
<1>3. PICK l : l = last'[Viewer]
  OBVIOUS
<1>4. calls[s] \in CallRecords /\ CallOK(calls[s], l)
  BY <1>1, <1>3 DEF CallsOK
<1>5. ~calls[s].lost => CallOK(call, l)
  <2>1. IsAnswered(call, calls[s], answer)
    BY <1>2, <1>4, AnsweredCall
  <2> QED BY <1>3, <1>4, <2>1 DEF CallOK, IsAnswered
<1>6. CallsOK(calls', last'[Viewer]) /\ HeapOK(heap, calls', last'[Viewer], sameSecond')
  BY <1>1, <1>2, <1>3, <1>5, AnsweredView
<1> QED BY <1>1, <1>6 DEF ViewInv

LEMMA ServeLikeView ==
    ASSUME ViewInv, NEW s \in Slots, calls[s] # None,
           calls[s].kind \in {"like", "unlike"}, ServeLike(s),
           UNCHANGED <<page, heap, polls, failed, events, stale>>
    PROVE  ViewInv'
<1>1. ServerInv /\ (Like(Viewer) \/ DeleteLike(Viewer))
  BY DEF ServeLike, ViewInv
<1>2. Keeps
  BY <1>1, LikeKeeps, UserFacts DEF ServeLike, ViewInv
<1>3. PICK answer : answer = FormatLikes(likes')
  OBVIOUS
<1>4. answer \in Seq(Likers)
  <2>1. PICK ls : ls = likes'
    OBVIOUS
  <2>2. ls \in Seq(Users)
    BY <1>2, <2>1 DEF Keeps, ServerInv
  <2> QED BY <1>3, <2>1, <2>2, FormatLikesType
<1>5. Answered(s, answer)
  BY <1>3 DEF ServeLike
<1> QED BY <1>2, <1>4, <1>5, ServeOtherView DEF CommentKinds

LEMMA ServeReadView ==
    ASSUME ViewInv, NEW s \in Slots, calls[s] # None,
           \/ calls[s].kind = "expandComments" /\ ServeComments(s)
           \/ calls[s].kind = "expandLikes" /\ ServeLikes(s),
           UNCHANGED <<page, heap, polls, failed, events, stale>>
    PROVE  ViewInv'
<1>1. ServerInv
  BY DEF ViewInv
<1>2. CASE calls[s].kind = "expandComments" /\ ServeComments(s)
  <2>1. UNCHANGED served /\ Answered(s, comments)
    BY <1>2 DEF ServeComments
  <2>2. Keeps /\ last'[Viewer] = last[Viewer]
    BY <2>1, StillServer
  <2>3. Brought(comments, last'[Viewer]) /\ ~Has(comments, Placeholder)
    BY <1>1, <2>2, CommentsBrought
  <2>4. comments \in Seq(Comments)
    BY <1>1 DEF ServerInv
  <2>5. PICK answer : answer = comments
    OBVIOUS
  <2> QED BY <1>2, <2>1, <2>2, <2>3, <2>4, <2>5, ServeOtherView DEF LikeKinds
<1>3. CASE calls[s].kind = "expandLikes" /\ ServeLikes(s)
  <2>1. UNCHANGED served /\ Answered(s, likes)
    BY <1>3 DEF ServeLikes
  <2>2. Keeps
    BY <2>1, StillServer
  <2>3. likes \in Seq(Likers)
    BY <1>1, FormatLikesType DEF ServerInv
  <2>4. PICK answer : answer = likes
    OBVIOUS
  <2> QED BY <1>3, <2>1, <2>2, <2>3, <2>4, ServeOtherView DEF CommentKinds
<1> QED BY <1>2, <1>3

LEMMA ServeEditView ==
    ASSUME ViewInv, NEW s \in Slots, calls[s] # None, calls[s].kind = "edit",
           Comment([id |-> calls[s].id, body |-> calls[s].body]),
           Answered(s, <<[id |-> calls[s].id, body |-> calls[s].body]>>),
           UNCHANGED <<last, sameSecond>>,
           UNCHANGED <<page, heap, polls, failed, events, stale>>
    PROVE  ViewInv'
<1>1. ServerInv /\ last[Viewer] \in Nat /\ calls[s] \in CallRecords /\ CallOK(calls[s], last[Viewer])
  BY LastFact DEF ViewInv, CallsOK
<1>2. PICK new : new = [id |-> calls[s].id, body |-> calls[s].body]
  OBVIOUS
<1>3. /\ calls[s].id \in CommentIds /\ Past(calls[s].id, last[Viewer])
      /\ calls[s].body \in Nat
  BY <1>1 DEF CallOK, CallRecords
<1>4. new \in Comments /\ new.id = calls[s].id
  BY <1>2, <1>3, IdFacts
<1>5. Comment(new) /\ new.id \in CommentIds /\ Past(new.id, last'[Viewer])
  BY <1>2, <1>3, <1>4
<1>6. last' \in [Users -> Nat] /\ last[Viewer] <= last'[Viewer] /\ sameSecond' \in BOOLEAN
  BY <1>1 DEF ServerInv
<1>7. Keeps
  BY <1>1, <1>4, <1>5, <1>6, CommentKeeps
<1>8. PICK answer : answer = <<new>>
  OBVIOUS
<1>9. answer \in Seq(Comments) /\ Answered(s, answer)
  BY <1>2, <1>4, <1>8
<1> QED BY <1>4, <1>7, <1>8, <1>9, ServeOtherView DEF LikeKinds

LEMMA ServeDeleteView ==
    ASSUME ViewInv, NEW s \in Slots, calls[s] # None,
           DeleteComment(calls[s].id), End(s), UNCHANGED <<last, sameSecond>>,
           UNCHANGED <<page, heap, polls, failed, events, stale>>
    PROVE  ViewInv'
<1>1. Keeps
  BY DeleteCommentKeeps DEF ViewInv
<1>2. /\ CallsOK(calls, last'[Viewer]) /\ HeapOK(heap, calls, last'[Viewer], sameSecond')
      /\ PollsOK(polls, last'[Viewer]) /\ PageOK' /\ ServerInv'
  BY <1>1, ServerStep
<1>3. PICK ds, l, twice : ds = calls' /\ l = last'[Viewer] /\ twice = sameSecond'
  OBVIOUS
<1>4. ds = [calls EXCEPT ![s] = None]
  BY <1>3 DEF End
<1>5. CallsOK(calls, l) /\ HeapOK(heap, calls, l, twice)
  BY <1>2, <1>3
<1>6. CallsOK(ds, l)
  BY <1>4, <1>5, Ended
<1>7. HeapOK(heap, ds, l, twice)
  BY <1>4, <1>5, EndedHeap
<1> QED BY <1>2, <1>3, <1>6, <1>7 DEF ViewInv

LEMMA ServeView ==
    ASSUME ViewInv, NEW s \in Slots, Serve(s)
    PROVE  ViewInv'
<1>1. /\ calls[s] # None /\ ~calls[s].served /\ Handle(calls[s], s)
      /\ UNCHANGED <<page, heap, polls, failed, events, stale>>
  BY DEF Serve
<1>2. \/ calls[s].kind = "post" /\ ServePost(s)
      \/ calls[s].kind \in {"like", "unlike"} /\ ServeLike(s)
      \/ calls[s].kind = "expandComments" /\ ServeComments(s)
      \/ calls[s].kind = "expandLikes" /\ ServeLikes(s)
      \/ /\ calls[s].kind = "edit"
         /\ Comment([id |-> calls[s].id, body |-> calls[s].body])
         /\ Answered(s, <<[id |-> calls[s].id, body |-> calls[s].body]>>)
         /\ UNCHANGED <<last, sameSecond>>
      \/ DeleteComment(calls[s].id) /\ End(s) /\ UNCHANGED <<last, sameSecond>>
  BY <1>1 DEF Handle
<1> QED BY <1>1, <1>2, ServePostView, ServeLikeView, ServeReadView, ServeEditView,
           ServeDeleteView

-----------------------------------------------------------------------------
(* Calls are sent.                                                         *)

IsNewCall(call, array, l) ==
    call \in CallRecords /\ CallOK(call, l) /\ call.served = FALSE /\ call.array = array

LEMMA NewCallFact ==
    ASSUME events \in Nat, NEW l, NEW kind \in Kinds,
           NEW id \in CommentIds \union {None}, NEW array \in Nat \union {None},
           kind \in {"post", "edit"} => array # None,
           kind \in {"edit", "delete"} => id \in CommentIds /\ Past(id, l)
    PROVE  IsNewCall(NewCall(kind, id, array), array, l)
<1> PICK call : call = NewCall(kind, id, array)
  OBVIOUS
<1>1. <<>> \in Seq(Comments) /\ <<>> \in Seq(Likers)
  OBVIOUS
<1>2. /\ call.kind = kind /\ call.id = id /\ call.array = array /\ call.served = FALSE
      /\ call.lost = FALSE /\ call.answer = <<>>
  BY DEF NewCall
<1>3. call \in CallRecords
  BY <1>1 DEF NewCall, CallRecords
<1>4. CallOK(call, l)
  BY <1>1, <1>2 DEF CallOK
<1> QED BY <1>2, <1>3, <1>4 DEF IsNewCall

LEMMA SendView ==
    ASSUME ViewInv, NEW call \in CallRecords, CallOK(call, last[Viewer]), call.served = FALSE,
           call.array \in DOMAIN heap' \union {None}, Send(call),
           HeapOK(heap', calls, last[Viewer], sameSecond),
           state.comments \in DOMAIN heap' \union {None}, Shown' = Shown,
           clicked' \in BOOLEAN, deleted' \subseteq DOMAIN Shown,
           UNCHANGED <<mounted, state, polls, stale>>
    PROVE  ViewInv'
<1>1. /\ UNCHANGED served /\ failed' = failed /\ events' \in Nat
      /\ ServerInv' /\ last'[Viewer] = last[Viewer] /\ sameSecond' = sameSecond
  BY StillServer DEF Send, Event, ViewInv
<1>2. PICK s \in Slots : Puts(calls', calls, s, call)
  BY DEF Send, Puts
<1>3. PICK h, l, t, ds : h = heap' /\ l = last[Viewer] /\ t = sameSecond /\ ds = calls'
  OBVIOUS
<1>4. CallsOK(ds, l) /\ HeapOK(h, ds, l, t)
  <2>1. CallsOK(calls, l) /\ HeapOK(h, calls, l, t) /\ Puts(ds, calls, s, call)
    BY <1>2, <1>3 DEF ViewInv
  <2>2. CallOK(call, l) /\ ~call.served /\ call.array \in DOMAIN h \union {None}
    BY <1>3
  <2> QED BY <2>1, <2>2, SentHeap
<1>5. PageOK'
  BY DEF ViewInv, PageOK
<1> QED BY <1>1, <1>3, <1>4, <1>5 DEF ViewInv

\* A call that leaves the arrays alone.
LEMMA SendOnly ==
    ASSUME ViewInv, NEW kind \in Kinds, NEW id \in CommentIds \union {None},
           NEW array \in DOMAIN heap \union {None},
           kind \in {"post", "edit"} => array # None,
           kind \in {"edit", "delete"} => id \in CommentIds /\ Past(id, last[Viewer]),
           Send(NewCall(kind, id, array)),
           clicked' \in BOOLEAN, deleted' \subseteq DOMAIN Shown,
           UNCHANGED <<mounted, state, heap, polls, stale>>
    PROVE  ViewInv'
<1>1. PICK call : call = NewCall(kind, id, array)
  OBVIOUS
<1>2. Send(call)
  BY <1>1 DEF Send
<1>3. array \in Nat \union {None} /\ events \in Nat
  BY DEF ViewInv, HeapOK, ArraysOK
<1>4. PICK l : l = last[Viewer]
  OBVIOUS
<1>5. kind \in {"edit", "delete"} => id \in CommentIds /\ Past(id, l)
  BY <1>4
<1>6. call \in CallRecords /\ CallOK(call, l) /\ call.served = FALSE /\ call.array = array
  <2>1. IsNewCall(NewCall(kind, id, array), array, l)
    BY <1>3, <1>5, NewCallFact
  <2> QED BY <1>1, <2>1 DEF IsNewCall
<1>7. HeapOK(heap', calls, last[Viewer], sameSecond) /\ Shown' = Shown
      /\ state.comments \in DOMAIN heap' \union {None}
  BY DEF ViewInv, Shown, PageOK
<1> QED BY <1>2, <1>4, <1>6, <1>7, SendView

\* What the viewer can point at.
LEMMA ShownFact ==
    ASSUME ViewInv
    PROVE  /\ ArrayOK(Shown, last[Viewer], sameSecond)
           /\ DOMAIN Shown = 1 .. Len(Shown)
           /\ \A i \in DOMAIN Shown :
                /\ Shown[i].id \in CommentIds \union {Placeholder}
                /\ Past(Shown[i].id, last[Viewer])
<1>1. CASE state.comments = None
  <2>1. Shown = <<>>
    BY <1>1 DEF Shown
  <2>2. <<>> \in Seq(Objects) /\ Len(<<>>) = 0 /\ DOMAIN <<>> = {}
    OBVIOUS
  <2> QED BY <2>1, <2>2 DEF ArrayOK, IdsOnce
<1>2. CASE state.comments # None
  <2>1. Shown = heap[state.comments] /\ state.comments \in DOMAIN heap
    BY <1>2 DEF Shown, ViewInv, PageOK
  <2>2. PICK array : array = Shown
    OBVIOUS
  <2>3. ArrayOK(array, last[Viewer], sameSecond)
    BY <2>1, <2>2 DEF ViewInv, HeapOK, ArraysOK
  <2>4. array \in Seq(Objects) /\ DOMAIN array = 1 .. Len(array)
    BY <2>3 DEF ArrayOK
  <2>5. \A i \in 1 .. Len(array) : array[i] \in Objects
    BY <2>4
  <2> QED BY <2>2, <2>3, <2>4, <2>5 DEF ArrayOK, Objects
<1> QED BY <1>1, <1>2

LEMMA SubmitNewView ==
    ASSUME ViewInv, SubmitNew
    PROVE  ViewInv'
<1>1. PICK array : array = IF state.comments = None THEN NewRef ELSE state.comments
  OBVIOUS
<1>2. /\ Send(NewCall("post", None, array)) /\ heap' = WithArray(array, Shown)
      /\ UNCHANGED <<page, polls, stale>>
  BY <1>1 DEF SubmitNew
<1>3. PICK l, t, h, objects : l = last[Viewer] /\ t = sameSecond /\ h = heap' /\ objects = Shown
  OBVIOUS
<1>4. /\ CallsOK(calls, l) /\ HeapOK(heap, calls, l, t) /\ ArraysOK(heap, l, t)
      /\ events \in Nat /\ PageOK
  BY <1>3 DEF ViewInv, HeapOK
<1>5. NewRef \in Nat /\ NewRef \notin DOMAIN heap /\ NewRef # None
  BY <1>4, NewRefFact
<1>6. /\ array \in Nat /\ array # None
      /\ array \in DOMAIN heap => array = state.comments /\ heap[array] = objects
  BY <1>1, <1>3, <1>4, <1>5, EntryAssumption DEF PageOK, ArraysOK, Shown
<1>7. ArrayOK(objects, l, t)
  BY <1>3, ShownFact
<1>8. h = WithArray(array, objects)
  BY <1>2, <1>3
<1>9. /\ ArraysOK(h, l, t)
      /\ DOMAIN h = DOMAIN heap \union {array} /\ h[array] = objects
      /\ \A s \in DOMAIN heap \ {array} : h[s] = heap[s]
  BY <1>4, <1>6, <1>7, <1>8, WithArrayFact
<1>10. \A r \in DOMAIN heap : h[r] = heap[r]
  BY <1>6, <1>9
<1>11. HeapOK(h, calls, l, t)
  BY <1>4, <1>9, <1>10, Grown
<1>12. PICK call : call = NewCall("post", None, array)
  OBVIOUS
<1>13. call \in CallRecords /\ CallOK(call, l) /\ call.served = FALSE /\ call.array = array
  <2>1. "post" \in Kinds
    BY DEF Kinds, CommentKinds
  <2>2. IsNewCall(NewCall("post", None, array), array, l)
    BY <1>4, <1>6, <2>1, NewCallFact
  <2> QED BY <1>12, <2>2 DEF IsNewCall
<1>14. Send(call)
  BY <1>2, <1>12 DEF Send
<1>15. /\ state.comments \in DOMAIN h \union {None} /\ Shown' = Shown
       /\ deleted' \subseteq DOMAIN Shown /\ clicked' \in BOOLEAN
  BY <1>2, <1>3, <1>4, <1>9, <1>10 DEF PageOK, Shown
<1> QED BY <1>2, <1>3, <1>9, <1>11, <1>13, <1>14, <1>15, SendView

LEMMA SubmitEditView ==
    ASSUME ViewInv, NEW i \in DOMAIN Shown, SubmitEdit(Shown[i].id)
    PROVE  ViewInv'
<1>1. PICK id : id = Shown[i].id
  OBVIOUS
<1>2. /\ Send(NewCall("edit", id, state.comments)) /\ IsEditing(id)
      /\ UNCHANGED <<page, heap, polls, stale>>
  BY <1>1 DEF SubmitEdit
<1>3. PICK j \in DOMAIN Shown : Shown[j].id = id /\ Shown[j].is_editing
  BY <1>2 DEF IsEditing
<1>4. /\ id \in CommentIds /\ Past(id, last[Viewer])
  BY <1>1, <1>3, ShownFact DEF ArrayOK
<1>5. state.comments # None /\ state.comments \in DOMAIN heap /\ PageOK
  <2>1. Shown # <<>>
    BY <1>3
  <2> QED BY <2>1 DEF ViewInv, PageOK, Shown
<1>6. "edit" \in Kinds
  BY DEF Kinds, CommentKinds
<1>7. PICK array : array = state.comments
  OBVIOUS
<1>8. Send(NewCall("edit", id, array))
  BY <1>2, <1>7
<1> QED BY <1>2, <1>4, <1>5, <1>6, <1>7, <1>8, SendOnly DEF PageOK

LEMMA OtherSends ==
    ASSUME ViewInv,
           \/ HandleLike \/ ExpandLikes
           \/ \E i \in DOMAIN Shown : ExpandComments(i) \/ ClickDelete(i)
    PROVE  ViewInv'
<1>1. PageOK /\ state.command \in Kinds
  BY DEF ViewInv, PageOK, States, Kinds, LikeKinds
<1>2. CASE HandleLike
  <2>1. PICK kind : kind = state.command
    OBVIOUS
  <2>2. Send(NewCall(kind, None, None)) /\ UNCHANGED <<page, heap, polls, stale>>
    BY <1>2, <2>1 DEF HandleLike
  <2>3. kind \in {"like", "unlike"} /\ kind \in Kinds
    BY <1>1, <2>1 DEF PageOK, States
  <2> QED BY <1>1, <2>2, <2>3, SendOnly DEF PageOK
<1>3. CASE ExpandLikes
  <2>1. /\ Send(NewCall("expandLikes", None, None)) /\ clicked' = TRUE
        /\ UNCHANGED <<mounted, state, deleted, heap, polls, stale>>
    BY <1>3 DEF ExpandLikes
  <2>2. "expandLikes" \in Kinds
    BY DEF Kinds, LikeKinds
  <2> QED BY <1>1, <2>1, <2>2, SendOnly DEF PageOK
<1>4. ASSUME NEW i \in DOMAIN Shown, ExpandComments(i)
      PROVE  ViewInv'
  <2>1. /\ Send(NewCall("expandComments", None, None))
        /\ UNCHANGED <<page, heap, polls, stale>>
    BY <1>4 DEF ExpandComments
  <2>2. "expandComments" \in Kinds
    BY DEF Kinds, CommentKinds
  <2> QED BY <1>1, <2>1, <2>2, SendOnly DEF PageOK
<1>5. ASSUME NEW i \in DOMAIN Shown, ClickDelete(i)
      PROVE  ViewInv'
  <2>1. PICK id : id = Shown[i].id
    OBVIOUS
  <2>2. /\ Send(NewCall("delete", id, None)) /\ deleted' = deleted \union {i}
        /\ UNCHANGED <<mounted, state, clicked, heap, polls, stale>> /\ id # Placeholder
    BY <1>5, <2>1 DEF ClickDelete, OwnComment
  <2>3. id \in CommentIds /\ Past(id, last[Viewer])
    BY <2>1, <2>2, ShownFact
  <2>4. "delete" \in Kinds
    BY DEF Kinds
  <2>5. deleted' \subseteq DOMAIN Shown /\ clicked' \in BOOLEAN
    BY <1>1, <2>2 DEF PageOK
  <2> QED BY <2>2, <2>3, <2>4, <2>5, SendOnly
<1> QED BY <1>2, <1>3, <1>4, <1>5

-----------------------------------------------------------------------------
(* Steps of the page.                                                      *)

LEMMA FormView ==
    ASSUME ViewInv, HandleNewComment \/ CancelNew
    PROVE  ViewInv'
<1>1. /\ UNCHANGED <<webVars, mounted, heap, polls, stale>> /\ deleted' = {}
      /\ clicked' \in BOOLEAN
      /\ \E b \in BOOLEAN : state' = [state EXCEPT !.new_comment_form = b]
  BY DEF HandleNewComment, CancelNew, SetState
<1>2. PICK b \in BOOLEAN : state' = [state EXCEPT !.new_comment_form = b]
  BY <1>1
<1>3. PageOK /\ state \in States
  BY DEF ViewInv, PageOK
<1>4. /\ state' \in States /\ state'.comments = state.comments
      /\ state'.expanded_comments = state.expanded_comments
  BY <1>2, <1>3 DEF States
<1>5. Shown' = Shown
  BY <1>1, <1>4 DEF Shown
<1>6. PageOK'
  BY <1>1, <1>3, <1>4, <1>5 DEF PageOK
<1> QED BY <1>1, <1>6, StillServer DEF ViewInv

LEMMA LoadView ==
    ASSUME ViewInv, LoadFeeds
    PROVE  ViewInv'
<1>1. PICK p \in Polls :
        polls' = [polls EXCEPT ![p] = [served |-> FALSE, here |-> FALSE, page |-> NoPage]]
  BY DEF LoadFeeds
<1>2. UNCHANGED <<webVars, page, heap, stale>>
  BY DEF LoadFeeds
<1>3. NoPage \in Pages /\ NoPage.comments = <<>>
  <2>1. <<>> \in Seq(Comments) /\ <<>> \in Seq(Likers)
    OBVIOUS
  <2> QED BY <2>1 DEF NoPage, Pages
<1>4. Brought(<<>>, last[Viewer])
  BY DEF Brought, IdsOnce
<1>5. PollsOK(polls', last[Viewer])
  BY <1>1, <1>3, <1>4 DEF PollsOK, PollRecords, ViewInv
<1>6. PageOK'
  BY <1>2 DEF ViewInv, PageOK, Shown
<1> QED BY <1>2, <1>5, <1>6, StillServer DEF ViewInv

LEMMA ServePollView ==
    ASSUME ViewInv, NEW p \in Polls, ServePoll(p)
    PROVE  ViewInv'
<1>1. PICK new : new = IF listed THEN PageOf ELSE NoPage
  OBVIOUS
<1>2. /\ polls' = [polls EXCEPT ![p] = [served |-> TRUE, here |-> listed, page |-> new]]
      /\ UNCHANGED <<webVars, page, heap, stale>>
  BY <1>1 DEF ServePoll
<1>3. NoPage \in Pages /\ NoPage.comments = <<>>
  <2>1. <<>> \in Seq(Comments) /\ <<>> \in Seq(Likers)
    OBVIOUS
  <2> QED BY <2>1 DEF NoPage, Pages
<1>4. Brought(<<>>, last[Viewer])
  BY DEF Brought, IdsOnce
<1>5. new \in Pages /\ Brought(new.comments, last[Viewer]) /\ listed \in BOOLEAN
  BY <1>1, <1>3, <1>4, PageOfFact DEF ViewInv, ServerInv
<1>6. PollsOK(polls', last[Viewer])
  BY <1>2, <1>5 DEF PollsOK, PollRecords, ViewInv
<1>7. PageOK'
  BY <1>2 DEF ViewInv, PageOK, Shown
<1> QED BY <1>2, <1>6, <1>7, StillServer DEF ViewInv

-----------------------------------------------------------------------------
(* Steps that change the page and the arrays.                              *)

LEMMA ServerStays ==
    ASSUME ViewInv, UNCHANGED served
    PROVE  ServerInv' /\ last'[Viewer] = last[Viewer] /\ sameSecond' = sameSecond
BY StillServer

\* What is shown after a step that made the arrays of h.
LEMMA Landed ==
    ASSUME ViewInv, UNCHANGED served, NEW h, Collect(h) \/ heap' = h,
           CallsOK(calls', last[Viewer]), HeapOK(h, calls', last[Viewer], sameSecond),
           PollsOK(polls', last[Viewer]), events' \in Nat, failed' \in BOOLEAN,
           mounted' \in BOOLEAN, clicked' \in BOOLEAN, stale' \in BOOLEAN,
           state' \in States, state'.comments \in DOMAIN h \union {None},
           NEW shown, shown = IF state'.comments = None THEN <<>> ELSE h[state'.comments],
           deleted' \subseteq DOMAIN shown,
           state'.expanded_comments /\ ~stale' => ~Has(shown, Placeholder)
    PROVE  ViewInv'
<1>1. ServerInv' /\ last'[Viewer] = last[Viewer] /\ sameSecond' = sameSecond
  BY ServerStays
<1>2. PICK l, t : l = last[Viewer] /\ t = sameSecond
  OBVIOUS
<1>3. /\ HeapOK(heap', calls', l, t) /\ state'.comments \in DOMAIN heap' \union {None}
      /\ state'.comments # None => heap'[state'.comments] = h[state'.comments]
  <2>1. CallsOK(calls', l) /\ HeapOK(h, calls', l, t)
    BY <1>2
  <2>2. CASE heap' = h
    BY <2>1, <2>2
  <2>3. CASE Collect(h)
    <3>1. HeapOK(heap', calls', l, t)
      BY <2>1, <2>3, Collected
    <3>2. state'.comments \in DOMAIN heap' \union {None}
      BY <2>1, <2>3, Collected
    <3>3. state'.comments # None => heap'[state'.comments] = h[state'.comments]
      BY <2>1, <2>3, Collected
    <3> QED BY <3>1, <3>2, <3>3
  <2> QED BY <2>2, <2>3
<1>4. Shown' = shown
  BY <1>3 DEF Shown
<1>5. PageOK'
  BY <1>3, <1>4 DEF PageOK
<1> QED BY <1>1, <1>2, <1>3, <1>5 DEF ViewInv

\* Marking the objects of a comment changes no id.
LEMMA MarkedFact ==
    ASSUME NEW l, NEW twice, NEW array, ArrayOK(array, l, twice), NEW objects,
           NEW flag \in BOOLEAN, flag => \A o \in objects : o[1] # Placeholder,
           NEW marked,
           marked = [i \in DOMAIN array |->
                       IF <<array[i].id, array[i].born>> \in objects
                       THEN [array[i] EXCEPT !.is_editing = flag] ELSE array[i]]
    PROVE  ArrayOK(marked, l, twice) /\ \A id : Has(marked, id) => Has(array, id)
<1>1. PICK n \in Nat : n = Len(array) /\ DOMAIN array = 1 .. n
  BY DEF ArrayOK
<1>2. ASSUME NEW i \in 1 .. n
      PROVE  /\ marked[i] \in Objects /\ marked[i].id = array[i].id
             /\ marked[i].is_editing => marked[i].id # Placeholder
  <2>1. array[i] \in Objects /\ (array[i].is_editing => array[i].id # Placeholder)
    BY <1>1 DEF ArrayOK
  <2>2. CASE <<array[i].id, array[i].born>> \in objects
    <3>1. marked[i] = [array[i] EXCEPT !.is_editing = flag]
      BY <1>1, <2>2
    <3>2. marked[i] \in Objects /\ marked[i].id = array[i].id /\ marked[i].is_editing = flag
      BY <2>1, <3>1 DEF Objects
    <3>3. flag => array[i].id # Placeholder
      <4>1. <<array[i].id, array[i].born>>[1] = array[i].id
        OBVIOUS
      <4> QED BY <2>2, <4>1
    <3> QED BY <3>2, <3>3
  <2>3. CASE <<array[i].id, array[i].born>> \notin objects
    BY <1>1, <2>1, <2>3
  <2> QED BY <2>2, <2>3
<1>3. marked \in [1 .. n -> Objects]
  <2>1. marked = [i \in 1 .. n |-> marked[i]]
    BY <1>1
  <2> QED BY <1>2, <2>1, Zenon
<1>4. marked \in Seq(Objects) /\ Len(marked) = n
  BY <1>3, FunctionIsSeq
<1>5. ArrayOK(marked, l, twice)
  BY <1>1, <1>2, <1>4 DEF ArrayOK, IdsOnce
<1> QED BY <1>1, <1>2, <1>4, <1>5 DEF Has

LEMMA SetEditingView ==
    ASSUME ViewInv, NEW id, NEW flag \in BOOLEAN, flag => id # Placeholder,
           SetEditing(id, flag)
    PROVE  ViewInv'
<1> DEFINE objects == {<<Shown[i].id, Shown[i].born>> : i \in {j \in DOMAIN Shown : Shown[j].id = id}}
           marked(o) == IF <<o.id, o.born>> \in objects
                        THEN [o EXCEPT !.is_editing = flag] ELSE o
           before(r) == IF r = NewRef THEN Shown ELSE heap[r]
           h == [r \in DOMAIN heap \union {NewRef} |->
                    [i \in DOMAIN before(r) |-> marked(before(r)[i])]]
<1>1. PICK l, t : l = last[Viewer] /\ t = sameSecond
  OBVIOUS
<1>2. /\ CallsOK(calls, l) /\ HeapOK(heap, calls, l, t) /\ ArraysOK(heap, l, t)
      /\ ArrayOK(Shown, l, t) /\ PageOK
  BY <1>1, ShownFact DEF ViewInv, HeapOK
<1>3. NewRef \in Nat /\ NewRef \notin DOMAIN heap /\ NewRef # None
  BY <1>2, NewRefFact
<1>4. /\ state' = [state EXCEPT !.comments = NewRef] /\ deleted' = {} /\ clicked' \in BOOLEAN
      /\ UNCHANGED <<webVars, mounted, polls, stale>>
      /\ Collect(h)
  BY DEF SetEditing, SetState
<1>5. flag => \A o \in objects : o[1] # Placeholder
  <2>1. ASSUME NEW o \in objects PROVE o[1] = id
    <3>1. PICK i \in DOMAIN Shown : Shown[i].id = id /\ o = <<Shown[i].id, Shown[i].born>>
      OBVIOUS
    <3> QED BY <3>1
  <2> QED BY <2>1
<1>6. ASSUME NEW r \in DOMAIN heap \union {NewRef}
      PROVE  ArrayOK(h[r], l, t) /\ \A i : Has(h[r], i) => Has(before(r), i)
  <2> PICK array, res : array = before(r) /\ res = h[r]
    OBVIOUS
  <2>1. ArrayOK(array, l, t)
    BY <1>2, <1>3 DEF ArraysOK
  <2>2. res = [i \in DOMAIN array |->
                       IF <<array[i].id, array[i].born>> \in objects
                       THEN [array[i] EXCEPT !.is_editing = flag] ELSE array[i]]
    OBVIOUS
  <2> HIDE DEF objects, h, before
  <2>3. ArrayOK(res, l, t) /\ \A i : Has(res, i) => Has(array, i)
    BY <1>5, <2>1, <2>2, MarkedFact
  <2> QED BY <2>3
<1>7. DOMAIN h = DOMAIN heap \union {NewRef}
  OBVIOUS
<1>8. before(NewRef) = Shown /\ \A r \in DOMAIN heap : before(r) = heap[r]
  BY <1>3
<1> HIDE DEF objects, h, before
<1>9. ArraysOK(h, l, t)
  BY <1>2, <1>3, <1>6, <1>7, FS_AddElement DEF ArraysOK
<1>10. \A r \in DOMAIN heap : \A i : Has(h[r], i) => Has(heap[r], i)
  BY <1>6, <1>8
<1>11. HeapOK(h, calls, l, t)
  BY <1>2, <1>7, <1>9, <1>10, Grown
<1>12. state' \in States /\ state'.comments = NewRef
       /\ state'.expanded_comments = state.expanded_comments
  BY <1>2, <1>3, <1>4 DEF PageOK, States
<1>13. PICK shown : shown = h[NewRef]
  OBVIOUS
<1>14. shown = IF state'.comments = None THEN <<>> ELSE h[state'.comments]
  BY <1>3, <1>12, <1>13
<1>15. Has(shown, Placeholder) => Has(Shown, Placeholder)
  BY <1>6, <1>8, <1>13
<1>16. state'.expanded_comments /\ ~stale' => ~Has(shown, Placeholder)
  BY <1>2, <1>4, <1>12, <1>15 DEF PageOK
<1>17. /\ CallsOK(calls', last[Viewer]) /\ HeapOK(h, calls', last[Viewer], sameSecond)
       /\ PollsOK(polls', last[Viewer]) /\ events' \in Nat /\ failed' \in BOOLEAN
       /\ mounted' \in BOOLEAN /\ stale' \in BOOLEAN /\ UNCHANGED served
  BY <1>1, <1>2, <1>4, <1>11 DEF ViewInv, PageOK
<1>18. state'.comments \in DOMAIN h \union {None} /\ deleted' \subseteq DOMAIN shown
  BY <1>4, <1>7, <1>12
<1> QED BY <1>4, <1>12, <1>14, <1>16, <1>17, <1>18, Landed

LEMMA EditingView ==
    ASSUME ViewInv, NEW i \in DOMAIN Shown, EditComment(i) \/ CancelEdit(Shown[i].id)
    PROVE  ViewInv'
<1> PICK id : id = Shown[i].id
  OBVIOUS
<1>1. CASE EditComment(i)
  <2>1. id # Placeholder /\ SetEditing(id, TRUE)
    BY <1>1 DEF EditComment, OwnComment
  <2> QED BY <2>1, SetEditingView
<1>2. CASE CancelEdit(Shown[i].id)
  <2>1. SetEditing(id, FALSE)
    BY <1>2 DEF CancelEdit
  <2> QED BY <2>1, SetEditingView
<1> QED BY <1>1, <1>2

LEMMA ViewerView ==
    ASSUME ViewInv, ViewerActs
    PROVE  ViewInv'
BY FormView, SubmitNewView, SubmitEditView, OtherSends, EditingView DEF ViewerActs

-----------------------------------------------------------------------------
(* Calls and polls are lost.                                               *)

\* The calls still under way may be forgotten, or what they hold.
Weaker(new, old) ==
    /\ new.kind = old.kind /\ new.id = old.id /\ new.answer = old.answer
    /\ new.served = old.served
    /\ new.lost => ~new.served
    /\ old.lost => new.lost
    /\ new.self => old.self
    /\ new.array = old.array \/ (new.array = None /\ ~new.self)

LEMMA Weakened ==
    ASSUME NEW cs, NEW l, CallsOK(cs, l), NEW h, NEW twice, HeapOK(h, cs, l, twice),
           NEW ds \in [Slots -> CallRecords \union {None}],
           \A s \in Slots : ds[s] # None => cs[s] # None /\ Weaker(ds[s], cs[s])
    PROVE  CallsOK(ds, l) /\ HeapOK(h, ds, l, twice)
<1>1. ASSUME NEW s \in Slots, ds[s] # None
      PROVE  CallOK(ds[s], l)
  <2> PICK new, old : new = ds[s] /\ old = cs[s]
    OBVIOUS
  <2>1. CallOK(old, l) /\ Weaker(new, old)
    BY <1>1 DEF CallsOK
  <2> QED BY <2>1 DEF CallOK, Weaker
<1>2. CallsOK(ds, l)
  BY <1>1 DEF CallsOK
<1>3. Refers(h, ds)
  <2>1. ASSUME NEW s \in Slots, ds[s] # None, ~ds[s].lost
        PROVE  ds[s].array \in DOMAIN h \union {None}
    BY <2>1 DEF HeapOK, Refers, Weaker
  <2> QED BY <2>1 DEF Refers
<1>4. \A s \in Slots : Pushes(ds[s]) =>
            /\ Pushes(cs[s]) /\ AnswerId(ds[s]) = AnswerId(cs[s])
            /\ ds[s].self => cs[s].self /\ ds[s].array = cs[s].array
  BY DEF Pushes, Weaker, AnswerId
<1>5. PostsOK(h, cs) => PostsOK(h, ds)
  BY <1>4 DEF PostsOK
<1> QED BY <1>2, <1>3, <1>5 DEF HeapOK

LEMMA FailFact ==
    ASSUME NEW l, CallsOK(calls, l), NEW twice, HeapOK(heap, calls, l, twice),
           NEW s \in UnderWay, Fail(s)
    PROVE  CallsOK(calls', l) /\ HeapOK(heap, calls', l, twice)
<1> PICK ds : ds = calls'
  OBVIOUS
<1>1. s \in Slots /\ calls[s] # None /\ calls[s] \in CallRecords
  BY DEF UnderWay, CallsOK
<1>2. CASE End(s)
  <2>1. ds = [calls EXCEPT ![s] = None]
    BY <1>2 DEF End
  <2>2. CallsOK(ds, l)
    BY <1>1, <2>1, Ended
  <2>3. HeapOK(heap, ds, l, twice)
    BY <1>1, <2>1, EndedHeap
  <2> QED BY <2>2, <2>3
<1>3. CASE ~calls[s].served /\ ds = [calls EXCEPT ![s].lost = TRUE]
  <2>1. /\ ds[s] = [calls[s] EXCEPT !.lost = TRUE]
        /\ \A t \in Slots : t # s => ds[t] = calls[t]
        /\ DOMAIN ds = Slots
    BY <1>1, <1>3 DEF CallsOK
  <2>2. ds[s] \in CallRecords /\ Weaker(ds[s], calls[s])
    <3> PICK old, new : old = calls[s] /\ new = ds[s]
      OBVIOUS
    <3>1. old \in CallRecords /\ new = [old EXCEPT !.lost = TRUE] /\ ~old.served
      BY <1>1, <1>3, <2>1
    <3>2. /\ new \in CallRecords /\ new.lost = TRUE
          /\ new.kind = old.kind /\ new.id = old.id /\ new.answer = old.answer
          /\ new.served = old.served /\ new.self = old.self /\ new.array = old.array
      BY <3>1 DEF CallRecords
    <3>3. Weaker(new, old)
      BY <3>1, <3>2 DEF Weaker
    <3> QED BY <3>2, <3>3
  <2>3. ds \in [Slots -> CallRecords \union {None}]
    BY <1>1, <1>3, <2>2 DEF CallsOK
  <2>4. \A t \in Slots : ds[t] # None => calls[t] # None /\ Weaker(ds[t], calls[t])
    <3>1. ASSUME NEW t \in Slots, ds[t] # None
          PROVE  calls[t] # None /\ Weaker(ds[t], calls[t])
      <4>1. CASE t = s
        BY <1>1, <2>2, <4>1
      <4>2. CASE t # s
        <5>1. calls[t] # None /\ ds[t] = calls[t] /\ CallOK(calls[t], l)
          BY <2>1, <3>1, <4>2 DEF CallsOK
        <5> PICK call : call = calls[t]
          OBVIOUS
        <5>2. Weaker(call, call)
          BY <5>1 DEF CallOK, Weaker
        <5> QED BY <5>1, <5>2
      <4> QED BY <4>1, <4>2
    <3> QED BY <3>1
  <2> QED BY <2>3, <2>4, Weakened
<1> QED BY <1>2, <1>3 DEF Fail

LEMMA LoseView ==
    ASSUME ViewInv, Lose
    PROVE  ViewInv'
<1>1. UNCHANGED <<served, page, stale>> /\ Collect(heap)
  BY DEF Lose
<1>2. PICK l, t : l = last[Viewer] /\ t = sameSecond
  OBVIOUS
<1>3. CallsOK(calls, l) /\ HeapOK(heap, calls, l, t) /\ PollsOK(polls, l) /\ PageOK
  BY <1>2 DEF ViewInv
<1>4. /\ CallsOK(calls', l) /\ HeapOK(heap, calls', l, t) /\ PollsOK(polls', l)
      /\ failed' = TRUE /\ events' \in Nat
  <2>1. ASSUME NEW s \in UnderWay, Fail(s), UNCHANGED polls
        PROVE  /\ CallsOK(calls', l) /\ HeapOK(heap, calls', l, t) /\ PollsOK(polls', l)
               /\ failed' = TRUE /\ events' \in Nat
    <3>1. CallsOK(calls', l) /\ HeapOK(heap, calls', l, t)
      BY <1>3, <2>1, FailFact
    <3> QED BY <1>3, <2>1, <3>1 DEF Fail, Event, ViewInv
  <2>2. ASSUME NEW p \in Polls, polls' = [polls EXCEPT ![p] = None], Event, failed' = TRUE,
               UNCHANGED calls
        PROVE  /\ CallsOK(calls', l) /\ HeapOK(heap, calls', l, t) /\ PollsOK(polls', l)
               /\ failed' = TRUE /\ events' \in Nat
    <3>1. PollsOK(polls', l)
      BY <1>3, <2>2 DEF PollsOK
    <3> QED BY <1>3, <2>2, <3>1 DEF Event, ViewInv
  <2> QED BY <2>1, <2>2 DEF Lose
<1>5. PICK shown : shown = Shown
  OBVIOUS
<1>6. shown = IF state'.comments = None THEN <<>> ELSE heap[state'.comments]
  BY <1>1, <1>5 DEF Shown
<1>7. /\ mounted' \in BOOLEAN /\ clicked' \in BOOLEAN /\ stale' \in BOOLEAN
      /\ state' \in States /\ state'.comments \in DOMAIN heap \union {None}
      /\ deleted' \subseteq DOMAIN shown
      /\ state'.expanded_comments /\ ~stale' => ~Has(shown, Placeholder)
  BY <1>1, <1>3, <1>5 DEF PageOK
<1> QED BY <1>1, <1>2, <1>4, <1>6, <1>7, Landed

-----------------------------------------------------------------------------
(* Answers arrive.                                                         *)

\* What an answer has to bring about.
LEMMA AnswerLanded ==
    ASSUME ViewInv, NEW s \in Slots, End(s), NEW h, Collect(h) \/ heap' = h,
           HeapOK(h, calls', last[Viewer], sameSecond),
           UNCHANGED <<served, failed, events, mounted, polls>>,
           NEW new \in States, SetState(new), stale' \in BOOLEAN,
           new.comments \in DOMAIN h \union {None},
           new.expanded_comments /\ ~stale' =>
               new.comments = None \/ ~Has(h[new.comments], Placeholder)
    PROVE  ViewInv'
<1>1. state' = new /\ deleted' = {} /\ clicked' \in BOOLEAN
  BY DEF SetState
<1>2. PICK l, ds : l = last[Viewer] /\ ds = calls'
  OBVIOUS
<1>3. CallsOK(calls, l) /\ ds = [calls EXCEPT ![s] = None]
  BY <1>2 DEF ViewInv, End
<1>4. CallsOK(ds, l)
  BY <1>3, Ended
<1>5. PICK shown : shown = IF new.comments = None THEN <<>> ELSE h[new.comments]
  OBVIOUS
<1>6. ~Has(<<>>, Placeholder)
  BY DEF Has
<1>7. state'.expanded_comments /\ ~stale' => ~Has(shown, Placeholder)
  BY <1>1, <1>5, <1>6
<1>8. /\ PollsOK(polls', last[Viewer]) /\ events' \in Nat /\ failed' \in BOOLEAN
      /\ mounted' \in BOOLEAN
  BY DEF ViewInv, PageOK
<1>9. CallsOK(calls', last[Viewer])
  BY <1>2, <1>4
<1>10. /\ shown = IF state'.comments = None THEN <<>> ELSE h[state'.comments]
       /\ deleted' \subseteq DOMAIN shown
       /\ state' \in States /\ state'.comments \in DOMAIN h \union {None}
  BY <1>1, <1>5
<1> QED BY <1>1, <1>7, <1>8, <1>9, <1>10, Landed

\* What the page has when an answer comes.
LEMMA AnswerFact ==
    ASSUME ViewInv, NEW s \in Slots, calls[s] # None, End(s), NEW l, NEW t,
           l = last[Viewer], t = sameSecond
    PROVE  /\ CallsOK(calls, l) /\ HeapOK(heap, calls, l, t) /\ ArraysOK(heap, l, t)
           /\ CallsOK(calls', l) /\ HeapOK(heap, calls', l, t)
           /\ calls[s] \in CallRecords /\ CallOK(calls[s], l)
           /\ PageOK /\ state \in States
<1>1. CallsOK(calls, l) /\ HeapOK(heap, calls, l, t) /\ PageOK
  BY DEF ViewInv
<1>2. PICK ds : ds = calls'
  OBVIOUS
<1>3. ds = [calls EXCEPT ![s] = None]
  BY <1>2 DEF End
<1>4. CallsOK(ds, l)
  BY <1>1, <1>3, Ended
<1>5. HeapOK(heap, ds, l, t)
  BY <1>1, <1>3, EndedHeap
<1> QED BY <1>1, <1>2, <1>4, <1>5 DEF HeapOK, CallsOK, PageOK

LEMMA AnswerPostView ==
    ASSUME ViewInv, NEW s \in Slots, calls[s] # None, calls[s].served, calls[s].self,
           AnswerPost(calls[s], s), UNCHANGED <<served, failed, events, mounted, polls>>
    PROVE  ViewInv'
<1>1. PICK l, t, call : l = last[Viewer] /\ t = sameSecond /\ call = calls[s]
  OBVIOUS
<1>2. PICK a, o : a = call.array /\ o = ObjectOf(call.answer[1])
  OBVIOUS
<1>3. PICK array, h : array = Append(heap[a], o) /\ h = WithArray(a, array)
  OBVIOUS
<1>4. PICK new : new = [state EXCEPT !.comments = a, !.new_comment_form = FALSE]
  OBVIOUS
<1>5. /\ call.kind = "post" /\ End(s) /\ SetState(new) /\ Collect(h)
      /\ stale' = (stale \/ a # state.comments)
  BY <1>1, <1>2, <1>3, <1>4 DEF AnswerPost
<1>6. /\ CallsOK(calls, l) /\ HeapOK(heap, calls, l, t) /\ ArraysOK(heap, l, t)
      /\ CallsOK(calls', l) /\ HeapOK(heap, calls', l, t)
      /\ call \in CallRecords /\ CallOK(call, l) /\ PageOK /\ state \in States
  BY <1>1, <1>5, AnswerFact
<1>7. call # None /\ call.served /\ call.self /\ ~call.lost /\ a # None /\ Pushes(call)
  BY <1>1, <1>2, <1>5, <1>6 DEF CallOK, Pushes
<1>8. a \in DOMAIN heap /\ a \in Nat
  BY <1>1, <1>2, <1>6, <1>7 DEF HeapOK, Refers, ArraysOK
<1>9. PICK w \in Comments : call.answer = <<w>> /\ Mine(w.id) /\ Past(w.id, l)
  BY <1>5, <1>6, <1>7 DEF CallOK
<1>10. call.answer[1] = w /\ AnswerId(call) = w.id
  <2>1. <<w>>[1] = w
    OBVIOUS
  <2> QED BY <1>9, <2>1 DEF AnswerId
<1>11. o \in Objects /\ o.id = w.id /\ o.is_editing = FALSE
  BY <1>2, <1>6, <1>9, <1>10, ObjectFact
<1>12. o.id # Placeholder
  BY <1>9, <1>11, IdFacts, UserFacts DEF Mine
<1>13. PICK old : old = heap[a]
  OBVIOUS
<1>14. ArrayOK(old, l, t) /\ (~t => ~Has(old, o.id))
  BY <1>1, <1>2, <1>6, <1>7, <1>8, <1>10, <1>11, <1>13 DEF HeapOK, ArraysOK, PostsOK
<1>15. /\ array \in Seq(Objects) /\ Len(array) = Len(old) + 1 /\ Len(old) \in Nat
       /\ \A i \in 1 .. Len(old) : array[i] = old[i]
       /\ array[Len(old) + 1] = o
  BY <1>3, <1>11, <1>13, <1>14 DEF ArrayOK
<1>16. \A i \in 1 .. Len(array) : i \in 1 .. Len(old) \/ i = Len(old) + 1
  BY <1>15
<1>17. ArrayOK(array, l, t)
  <2>1. ~t => IdsOnce(array)
    BY <1>14, <1>15, <1>16 DEF ArrayOK, IdsOnce, Has
  <2>2. ASSUME NEW i \in 1 .. Len(array)
        PROVE  Past(array[i].id, l) /\ (array[i].is_editing => array[i].id # Placeholder)
    BY <1>9, <1>11, <1>12, <1>14, <1>15, <1>16 DEF ArrayOK
  <2> QED BY <1>15, <2>1, <2>2 DEF ArrayOK
<1>18. \A id : Has(array, id) => Has(old, id) \/ id = o.id
  BY <1>15, <1>16 DEF Has
<1>19. /\ ArraysOK(h, l, t)
       /\ DOMAIN h = DOMAIN heap \union {a} /\ h[a] = array
       /\ \A r \in DOMAIN heap \ {a} : h[r] = heap[r]
  <2>1. h = WithArray(a, array) /\ ArraysOK(heap, l, t) /\ a \in Nat
    BY <1>3, <1>6, <1>8
  <2>2. ArraysOK(h, l, t)
    BY <1>17, <2>1, WithArrayFact
  <2>3. /\ DOMAIN h = DOMAIN heap \union {a} /\ h[a] = array
        /\ \A r \in DOMAIN heap \ {a} : h[r] = heap[r]
    BY <2>1 DEF WithArray
  <2> QED BY <2>2, <2>3
<1>20. HeapOK(h, calls', l, t)
  <2>1. Refers(h, calls')
    BY <1>6, <1>19 DEF HeapOK, Refers
  <2>2. \A u \in Slots : Pushes(calls'[u]) => u # s /\ calls'[u] = calls[u]
    BY <1>5, <1>6 DEF End, CallsOK, Pushes
  <2>3. ASSUME ~t
        PROVE  PostsOK(h, calls')
    <3>1. PostsOK(heap, calls) /\ PostsOK(heap, calls')
      BY <1>6, <2>3 DEF HeapOK
    <3>2. ASSUME NEW u \in Slots, Pushes(calls'[u]), calls'[u].self
          PROVE  ~Has(h[calls'[u].array], AnswerId(calls'[u]))
      <4>1. u # s /\ calls'[u] = calls[u] /\ Pushes(calls[u])
        BY <2>2, <3>2
      <4>2. AnswerId(calls[u]) # o.id
        BY <1>1, <1>7, <1>10, <1>11, <3>1, <4>1 DEF PostsOK
      <4>3. ~Has(heap[calls[u].array], AnswerId(calls[u]))
        BY <3>1, <3>2, <4>1 DEF PostsOK
      <4>4. CallOK(calls[u], l) /\ calls[u].array \in DOMAIN heap
        <5>1. CallOK(calls[u], l) /\ calls[u] # None /\ ~calls[u].lost /\ calls[u].array # None
          BY <1>6, <3>2, <4>1 DEF CallsOK, CallOK, Pushes
        <5> QED BY <1>6, <5>1 DEF HeapOK, Refers
      <4>5. CASE calls[u].array = a
        BY <1>13, <1>18, <1>19, <4>1, <4>2, <4>3, <4>5
      <4>6. CASE calls[u].array # a
        BY <1>19, <4>1, <4>3, <4>4, <4>6
      <4> QED BY <4>5, <4>6
    <3> QED BY <3>1, <3>2 DEF PostsOK
  <2> QED BY <1>19, <2>1, <2>3 DEF HeapOK
<1>21. /\ new \in States /\ new.comments = a /\ new.expanded_comments = state.expanded_comments
  BY <1>4, <1>6, <1>8 DEF States
<1>22. new.expanded_comments /\ ~stale' => ~Has(h[a], Placeholder)
  <2>1. SUFFICES ASSUME state.expanded_comments, ~stale, a = state.comments
                 PROVE  ~Has(array, Placeholder)
    BY <1>5, <1>19, <1>21
  <2>2. Shown = old /\ ~Has(Shown, Placeholder)
    BY <1>6, <1>7, <1>13, <2>1 DEF PageOK, Shown
  <2> QED BY <1>12, <1>18, <2>2
<1>23. HeapOK(h, calls', last[Viewer], sameSecond) /\ stale' \in BOOLEAN
  BY <1>1, <1>5, <1>6, <1>20 DEF PageOK
<1>24. new.comments \in DOMAIN h \union {None}
  BY <1>8, <1>19, <1>21
<1> QED BY <1>5, <1>21, <1>22, <1>23, <1>24, AnswerLanded

LEMMA AnswerEditView ==
    ASSUME ViewInv, NEW s \in Slots, calls[s] # None, calls[s].served, calls[s].self,
           AnswerEdit(calls[s], s), UNCHANGED <<served, failed, events, mounted, polls>>
    PROVE  ViewInv'
<1>1. PICK l, t, call, cs : l = last[Viewer] /\ t = sameSecond /\ call = calls[s] /\ cs = calls'
  OBVIOUS
<1>2. PICK old, o : old = heap[call.array] /\ o = ObjectOf(call.answer[1])
  OBVIOUS
<1>3. PICK array : array = [i \in DOMAIN old |-> IF old[i].id = call.id THEN o ELSE old[i]]
  OBVIOUS
<1>4. PICK h, new : h = WithArray(NewRef, array) /\ new = [state EXCEPT !.comments = NewRef]
  OBVIOUS
<1>5. /\ call.kind = "edit" /\ End(s) /\ SetState(new) /\ Collect(h)
      /\ stale' = (stale \/ call.array # state.comments)
  BY <1>1, <1>2, <1>3, <1>4 DEF AnswerEdit
<1>6. /\ HeapOK(heap, calls, l, t) /\ ArraysOK(heap, l, t)
      /\ CallsOK(cs, l) /\ HeapOK(heap, cs, l, t)
      /\ call \in CallRecords /\ CallOK(call, l) /\ PageOK /\ state \in States
  BY <1>1, <1>5, AnswerFact
<1>7. call # None /\ call.served /\ call.self /\ ~call.lost /\ call.array # None
  BY <1>1, <1>5, <1>6 DEF CallOK
<1>8. call.array \in DOMAIN heap
  BY <1>1, <1>6, <1>7 DEF HeapOK, Refers
<1>9. PICK w \in Comments : call.answer = <<w>> /\ w.id = call.id
  BY <1>5, <1>6, <1>7 DEF CallOK
<1>10. call.answer[1] = w
  <2>1. <<w>>[1] = w
    OBVIOUS
  <2> QED BY <1>9, <2>1
<1>11. o \in Objects /\ o.id = call.id /\ o.is_editing = FALSE
  BY <1>2, <1>6, <1>9, <1>10, ObjectFact
<1>12. ArrayOK(old, l, t)
  BY <1>2, <1>6, <1>8 DEF ArraysOK
<1>13. PICK n \in Nat : n = Len(old) /\ DOMAIN old = 1 .. n
  BY <1>12 DEF ArrayOK
<1>14. ASSUME NEW i \in 1 .. n
       PROVE  /\ array[i] \in Objects /\ array[i].id = old[i].id
              /\ array[i].is_editing => array[i].id # Placeholder
  <2>1. array[i] = IF old[i].id = call.id THEN o ELSE old[i]
    BY <1>3, <1>13
  <2>2. old[i] \in Objects /\ (old[i].is_editing => old[i].id # Placeholder)
    BY <1>12, <1>13 DEF ArrayOK
  <2> QED BY <1>11, <2>1, <2>2
<1>15. array \in Seq(Objects) /\ Len(array) = n
  <2>1. array = [i \in 1 .. n |-> array[i]]
    BY <1>3, <1>13
  <2>2. array \in [1 .. n -> Objects]
    BY <1>14, <2>1
  <2> QED BY <2>2, FunctionIsSeq
<1>16. ArrayOK(array, l, t)
  BY <1>12, <1>13, <1>14, <1>15 DEF ArrayOK, IdsOnce
<1>17. \A id : Has(array, id) => Has(old, id)
  BY <1>13, <1>14, <1>15 DEF Has
<1>18. /\ HeapOK(h, cs, l, t) /\ NewRef \in Nat
       /\ NewRef \in DOMAIN h /\ h[NewRef] = array
  BY <1>4, <1>6, <1>16, NewArray
<1>19. new \in States /\ new.comments = NewRef /\ new.expanded_comments = state.expanded_comments
  BY <1>4, <1>6, <1>18 DEF States
<1>20. new.expanded_comments /\ ~stale' => ~Has(h[NewRef], Placeholder)
  <2>1. SUFFICES ASSUME state.expanded_comments, ~stale, call.array = state.comments
                 PROVE  ~Has(array, Placeholder)
    BY <1>5, <1>18, <1>19
  <2>2. Shown = old /\ ~Has(Shown, Placeholder)
    BY <1>2, <1>6, <1>7, <2>1 DEF PageOK, Shown
  <2> QED BY <1>17, <2>2
<1>21. HeapOK(h, calls', last[Viewer], sameSecond) /\ stale' \in BOOLEAN
  BY <1>1, <1>5, <1>6, <1>18 DEF PageOK
<1> QED BY <1>5, <1>18, <1>19, <1>20, <1>21, AnswerLanded

LEMMA AnswerCommentsView ==
    ASSUME ViewInv, NEW s \in Slots, calls[s] # None, calls[s].served, calls[s].self,
           AnswerComments(calls[s], s), UNCHANGED <<served, failed, events, mounted, polls>>
    PROVE  ViewInv'
<1>1. PICK l, t, call, cs : l = last[Viewer] /\ t = sameSecond /\ call = calls[s] /\ cs = calls'
  OBVIOUS
<1>2. PICK array, r : array = ObjectsOf(call.answer) /\ r = IF call.answer = <<>> THEN None ELSE NewRef
  OBVIOUS
<1>3. PICK h, new : h = WithArray(NewRef, array)
                    /\ new = [state EXCEPT !.expanded_comments = TRUE, !.comments = r]
  OBVIOUS
<1>4. /\ call.kind = "expandComments" /\ End(s) /\ SetState(new) /\ Collect(h)
      /\ stale' = FALSE
  BY <1>1, <1>2, <1>3 DEF AnswerComments
<1>5. /\ ArraysOK(heap, l, t)
      /\ CallsOK(cs, l) /\ HeapOK(heap, cs, l, t)
      /\ call \in CallRecords /\ CallOK(call, l) /\ state \in States
  BY <1>1, <1>4, AnswerFact
<1>6. Brought(call.answer, l) /\ ~Has(call.answer, Placeholder)
  BY <1>1, <1>4, <1>5 DEF CallOK
<1>7. ArrayOK(array, l, t) /\ ~Has(array, Placeholder)
  BY <1>2, <1>5, <1>6, ObjectsFact
<1>8. /\ HeapOK(h, cs, l, t) /\ NewRef \in Nat
      /\ NewRef \in DOMAIN h /\ h[NewRef] = array
  BY <1>3, <1>5, <1>7, NewArray
<1>9. r \in Nat \union {None}
  BY <1>2, <1>8
<1>10. new \in States /\ new.comments = r
  BY <1>3, <1>5, <1>9 DEF States
<1>11. new.comments \in DOMAIN h \union {None}
  BY <1>2, <1>8, <1>10
<1>12. new.comments = None \/ ~Has(h[new.comments], Placeholder)
  BY <1>2, <1>7, <1>8, <1>10
<1>13. HeapOK(h, calls', last[Viewer], sameSecond) /\ stale' \in BOOLEAN
  BY <1>1, <1>4, <1>8
<1> QED BY <1>4, <1>10, <1>11, <1>12, <1>13, AnswerLanded

\* The likes are no references.
LEMMA AnswerLikesView ==
    ASSUME ViewInv, NEW s \in Slots, calls[s] # None, calls[s].served, calls[s].self,
           AnswerLikes(calls[s], s) \/ AnswerLike(calls[s], s),
           UNCHANGED <<served, failed, events, mounted, polls>>
    PROVE  ViewInv'
<1>1. PICK l, t, call : l = last[Viewer] /\ t = sameSecond /\ call = calls[s]
  OBVIOUS
<1>2. End(s) /\ UNCHANGED <<heap, stale>> /\ call.kind \in LikeKinds
  BY <1>1 DEF AnswerLikes, AnswerLike, LikeKinds
<1>3. /\ HeapOK(heap, calls', l, t) /\ CallOK(call, l) /\ PageOK /\ state \in States
  BY <1>1, <1>2, AnswerFact
<1>4. call.answer \in Seq(Likers)
  BY <1>2, <1>3 DEF CallOK
<1>5. \E new \in States :
        /\ SetState(new) /\ new.comments = state.comments
        /\ new.expanded_comments = state.expanded_comments
  <2>1. CASE AnswerLikes(calls[s], s)
    <3>1. PICK new : new = [state EXCEPT !.expanded_likes = TRUE, !.likes = call.answer]
      OBVIOUS
    <3>2. SetState(new)
      BY <1>1, <2>1, <3>1 DEF AnswerLikes
    <3>3. /\ new \in States /\ new.comments = state.comments
          /\ new.expanded_comments = state.expanded_comments
      BY <1>3, <1>4, <3>1 DEF States
    <3> QED BY <3>2, <3>3
  <2>2. CASE AnswerLike(calls[s], s)
    <3>1. PICK command : command = IF ~call.entry THEN state.command
                                   ELSE IF call.kind = "like" THEN "unlike" ELSE "like"
      OBVIOUS
    <3>2. PICK new : new = [state EXCEPT !.likes = call.answer, !.command = command]
      OBVIOUS
    <3>3. SetState(new)
      BY <1>1, <2>2, <3>1, <3>2 DEF AnswerLike
    <3>4. command \in {"like", "unlike"}
      BY <1>3, <3>1 DEF States
    <3>5. /\ new \in States /\ new.comments = state.comments
          /\ new.expanded_comments = state.expanded_comments
      BY <1>3, <1>4, <3>2, <3>4 DEF States
    <3> QED BY <3>3, <3>5
  <2> QED BY <2>1, <2>2
<1>6. PICK new \in States :
        /\ SetState(new) /\ new.comments = state.comments
        /\ new.expanded_comments = state.expanded_comments
  BY <1>5
<1>7. new.comments \in DOMAIN heap \union {None}
  BY <1>3, <1>6 DEF PageOK
<1>8. new.expanded_comments /\ ~stale' =>
            new.comments = None \/ ~Has(heap[new.comments], Placeholder)
  BY <1>2, <1>3, <1>6 DEF PageOK, Shown
<1>9. HeapOK(heap, calls', last[Viewer], sameSecond) /\ stale' \in BOOLEAN /\ heap' = heap
  BY <1>1, <1>2, <1>3 DEF PageOK
<1> QED BY <1>2, <1>6, <1>7, <1>8, <1>9, AnswerLanded

\* Nobody listens.
LEMMA AnswerGoneView ==
    ASSUME ViewInv, NEW s \in Slots, calls[s] # None, End(s),
           UNCHANGED <<state, deleted, clicked, heap, stale>>,
           UNCHANGED <<served, failed, events, mounted, polls>>
    PROVE  ViewInv'
<1>1. CallsOK(calls', last[Viewer]) /\ HeapOK(heap, calls', last[Viewer], sameSecond) /\ PageOK
  BY AnswerFact
<1>2. Shown = IF state'.comments = None THEN <<>> ELSE heap[state'.comments]
  BY DEF Shown
<1>3. PICK shown : shown = Shown
  OBVIOUS
<1>4. /\ mounted' \in BOOLEAN /\ clicked' \in BOOLEAN /\ stale' \in BOOLEAN
      /\ state' \in States /\ state'.comments \in DOMAIN heap \union {None}
      /\ deleted' \subseteq DOMAIN shown
      /\ state'.expanded_comments /\ ~stale' => ~Has(shown, Placeholder)
  BY <1>1, <1>3 DEF PageOK
<1>5. /\ PollsOK(polls', last[Viewer]) /\ events' \in Nat /\ failed' \in BOOLEAN
      /\ UNCHANGED served /\ heap' = heap
  BY DEF ViewInv
<1> QED BY <1>1, <1>2, <1>3, <1>4, <1>5, Landed

LEMMA AnswerView ==
    ASSUME ViewInv, NEW s \in Slots, Answer(s)
    PROVE  ViewInv'
<1>1. /\ calls[s] # None /\ calls[s].served
      /\ UNCHANGED <<served, failed, events, mounted, polls>>
  BY DEF Answer
<1>2. CASE calls[s].self /\ AnswerPost(calls[s], s)
  BY <1>1, <1>2, AnswerPostView
<1>3. CASE calls[s].self /\ AnswerEdit(calls[s], s)
  BY <1>1, <1>3, AnswerEditView
<1>4. CASE calls[s].self /\ AnswerComments(calls[s], s)
  BY <1>1, <1>4, AnswerCommentsView
<1>5. CASE calls[s].self /\ (AnswerLikes(calls[s], s) \/ AnswerLike(calls[s], s))
  BY <1>1, <1>5, AnswerLikesView
<1>6. CASE End(s) /\ UNCHANGED <<state, deleted, clicked, heap, stale>>
  BY <1>1, <1>6, AnswerGoneView
<1> QED BY <1>2, <1>3, <1>4, <1>5, <1>6 DEF Answer

-----------------------------------------------------------------------------
(* Polls are answered.                                                     *)

LEMMA ForgottenCall ==
    ASSUME NEW l, NEW old \in CallRecords, CallOK(old, l), NEW new,
           \/ new = [old EXCEPT !.entry = FALSE]
           \/ new = [old EXCEPT !.entry = FALSE, !.self = FALSE, !.array = None]
    PROVE  new \in CallRecords /\ Weaker(new, old)
<1>1. /\ new \in CallRecords
      /\ new.kind = old.kind /\ new.id = old.id /\ new.answer = old.answer
      /\ new.served = old.served /\ new.lost = old.lost
      /\ \/ new.array = old.array /\ new.self = old.self
         \/ new.array = None /\ new.self = FALSE
  <2>1. CASE new = [old EXCEPT !.entry = FALSE]
    BY <2>1 DEF CallRecords
  <2>2. CASE new = [old EXCEPT !.entry = FALSE, !.self = FALSE, !.array = None]
    BY <2>2 DEF CallRecords
  <2> QED BY <2>1, <2>2
<1> QED BY <1>1 DEF Weaker, CallOK

LEMMA ForgetFact ==
    ASSUME NEW l, CallsOK(calls, l), NEW twice, NEW h, HeapOK(h, calls, l, twice),
           OldEntries \/ Orphans
    PROVE  CallsOK(calls', l) /\ HeapOK(h, calls', l, twice)
<1> PICK ds : ds = calls'
  OBVIOUS
<1>1. ASSUME NEW s \in Slots, calls[s] # None
      PROVE  ds[s] \in CallRecords /\ Weaker(ds[s], calls[s])
  <2> PICK old, new : old = calls[s] /\ new = ds[s]
    OBVIOUS
  <2>1. old \in CallRecords /\ CallOK(old, l)
    BY <1>1 DEF CallsOK
  <2>2. \/ new = [old EXCEPT !.entry = FALSE]
        \/ new = [old EXCEPT !.entry = FALSE, !.self = FALSE, !.array = None]
    BY <1>1 DEF OldEntries, Orphans
  <2> QED BY <2>1, <2>2, ForgottenCall
<1>2. /\ DOMAIN ds = Slots /\ ds = [s \in Slots |-> ds[s]]
      /\ \A s \in Slots : calls[s] = None => ds[s] = None
  BY DEF OldEntries, Orphans
<1>3. ds \in [Slots -> CallRecords \union {None}]
  BY <1>1, <1>2
<1>4. \A s \in Slots : ds[s] # None => calls[s] # None /\ Weaker(ds[s], calls[s])
  BY <1>1, <1>2
<1> QED BY <1>3, <1>4, Weakened

\* What a poll that answers leaves of the others.
LEMMA PolledFact ==
    ASSUME ViewInv, NEW p \in Polls, polls[p] # None, polls' = [polls EXCEPT ![p] = None]
    PROVE  /\ PollsOK(polls', last[Viewer])
           /\ polls[p].page \in Pages /\ Brought(polls[p].page.comments, last[Viewer])
<1>1. PollsOK(polls, last[Viewer])
  BY DEF ViewInv
<1>2. polls[p] \in PollRecords
  BY <1>1 DEF PollsOK
<1> QED BY <1>1, <1>2 DEF PollsOK, PollRecords

LEMMA PropsView ==
    ASSUME ViewInv, NEW props \in Pages, Brought(props.comments, last[Viewer]),
           ComponentWillReceiveProps(props),
           UNCHANGED <<served, failed, events>>, PollsOK(polls', last[Viewer])
    PROVE  ViewInv'
<1>1. PICK l, t, cs : l = last[Viewer] /\ t = sameSecond /\ cs = calls'
  OBVIOUS
<1>2. PICK array, h : array = ObjectsOf(props.comments) /\ h = WithArray(NewRef, array)
  OBVIOUS
<1>3. PICK r, ls :
        /\ r = IF TakesComments(props) THEN NewRef ELSE state.comments
        /\ ls = IF state.expanded_likes THEN state.likes ELSE props.likes
  OBVIOUS
<1>4. PICK new : new = [state EXCEPT !.command = props.command, !.comments = r, !.likes = ls]
  OBVIOUS
<1>5. /\ SetState(new) /\ OldEntries /\ Collect(h) /\ mounted' = mounted
      /\ stale' = (stale /\ ~TakesComments(props))
  BY <1>2, <1>3, <1>4 DEF ComponentWillReceiveProps
<1>6. CallsOK(calls, l) /\ HeapOK(heap, calls, l, t) /\ ArraysOK(heap, l, t) /\ PageOK
  BY <1>1 DEF ViewInv, HeapOK
<1>7. CallsOK(cs, l) /\ HeapOK(heap, cs, l, t)
  BY <1>1, <1>5, <1>6, ForgetFact
<1>8. ArrayOK(array, l, t)
  BY <1>1, <1>2, <1>6, ObjectsFact
<1>9. /\ HeapOK(h, cs, l, t) /\ NewRef \in Nat
      /\ NewRef \in DOMAIN h /\ \A s \in DOMAIN heap : s \in DOMAIN h /\ h[s] = heap[s]
  BY <1>2, <1>7, <1>8, NewArray
<1>10. /\ r \in Nat \union {None} /\ r \in DOMAIN h \union {None} /\ ls \in Seq(Likers)
       /\ props.command \in {"like", "unlike"}
  BY <1>3, <1>6, <1>9 DEF PageOK, States, Pages
<1>11. new \in States /\ new.comments = r /\ new.expanded_comments = state.expanded_comments
  BY <1>4, <1>6, <1>10 DEF PageOK, States
<1>12. PICK shown : shown = IF r = None THEN <<>> ELSE h[r]
  OBVIOUS
<1>13. new.expanded_comments /\ ~stale' => ~Has(shown, Placeholder)
  <2>1. SUFFICES ASSUME state.expanded_comments, ~stale'
                 PROVE  ~Has(shown, Placeholder)
    BY <1>11
  <2>2. ~TakesComments(props) /\ r = state.comments /\ ~stale
    BY <1>3, <1>5, <2>1 DEF TakesComments
  <2>3. shown = Shown
    BY <1>6, <1>9, <1>12, <2>2 DEF PageOK, Shown
  <2> QED BY <1>6, <2>1, <2>2, <2>3 DEF PageOK
<1>14. /\ state' = new /\ deleted' = {} /\ clicked' \in BOOLEAN
  BY <1>5 DEF SetState
<1>15. /\ mounted' \in BOOLEAN /\ stale' \in BOOLEAN /\ events' \in Nat /\ failed' \in BOOLEAN
  BY <1>5, <1>6 DEF ViewInv, PageOK
<1>16. CallsOK(calls', last[Viewer]) /\ HeapOK(h, calls', last[Viewer], sameSecond)
  BY <1>1, <1>7, <1>9
<1>17. /\ shown = IF state'.comments = None THEN <<>> ELSE h[state'.comments]
       /\ deleted' \subseteq DOMAIN shown
       /\ state' \in States /\ state'.comments \in DOMAIN h \union {None}
       /\ state'.expanded_comments /\ ~stale' => ~Has(shown, Placeholder)
  BY <1>10, <1>11, <1>12, <1>13, <1>14
<1> QED BY <1>5, <1>14, <1>15, <1>16, <1>17, Landed

LEMMA InitialView ==
    ASSUME ViewInv, NEW props \in Pages, Brought(props.comments, last[Viewer]),
           GetInitialState(props),
           UNCHANGED <<served, failed, events>>, PollsOK(polls', last[Viewer])
    PROVE  ViewInv'
<1>1. PICK l, t : l = last[Viewer] /\ t = sameSecond
  OBVIOUS
<1>2. PICK array, h : array = ObjectsOf(props.comments) /\ h = WithArray(NewRef, array)
  OBVIOUS
<1>3. PICK r : r = IF props.comments = <<>> THEN None ELSE NewRef
  OBVIOUS
<1>4. PICK new : new = StateOf(r, props)
  OBVIOUS
<1>5. /\ SetState(new) /\ calls' = calls /\ Collect(h) /\ mounted' = TRUE /\ stale' = FALSE
  BY <1>2, <1>3, <1>4 DEF GetInitialState
<1>6. CallsOK(calls, l) /\ HeapOK(heap, calls, l, t) /\ ArraysOK(heap, l, t)
  BY <1>1 DEF ViewInv, HeapOK
<1>7. ArrayOK(array, l, t)
  BY <1>1, <1>2, <1>6, ObjectsFact
<1>8. HeapOK(h, calls, l, t) /\ NewRef \in Nat /\ NewRef \in DOMAIN h
  BY <1>2, <1>6, <1>7, NewArray
<1>9. /\ r \in Nat \union {None} /\ r \in DOMAIN h \union {None} /\ props.likes \in Seq(Likers)
      /\ props.command \in {"like", "unlike"}
  BY <1>3, <1>8 DEF Pages
<1>10. new \in States /\ new.comments = r /\ new.expanded_comments = FALSE
  BY <1>4, <1>9 DEF States, StateOf
<1>11. PICK shown : shown = IF r = None THEN <<>> ELSE h[r]
  OBVIOUS
<1>12. /\ state' = new /\ deleted' = {} /\ clicked' \in BOOLEAN
  BY <1>5 DEF SetState
<1>13. /\ mounted' \in BOOLEAN /\ stale' \in BOOLEAN /\ events' \in Nat /\ failed' \in BOOLEAN
  BY <1>5 DEF ViewInv
<1>14. CallsOK(calls', last[Viewer]) /\ HeapOK(h, calls', last[Viewer], sameSecond)
  BY <1>1, <1>5, <1>6, <1>8
<1>15. /\ shown = IF state'.comments = None THEN <<>> ELSE h[state'.comments]
       /\ deleted' \subseteq DOMAIN shown
       /\ state' \in States /\ state'.comments \in DOMAIN h \union {None}
       /\ state'.expanded_comments /\ ~stale' => ~Has(shown, Placeholder)
  BY <1>9, <1>10, <1>11, <1>12
<1> QED BY <1>5, <1>12, <1>13, <1>14, <1>15, Landed

LEMMA UnmountView ==
    ASSUME ViewInv, Unmount,
           UNCHANGED <<served, failed, events>>, PollsOK(polls', last[Viewer])
    PROVE  ViewInv'
<1>1. PICK l, t, h : l = last[Viewer] /\ t = sameSecond /\ h = heap
  OBVIOUS
<1>2. SetState(NoState) /\ Orphans /\ Collect(h) /\ mounted' = FALSE /\ stale' = FALSE
  BY <1>1 DEF Unmount
<1>3. CallsOK(calls, l) /\ HeapOK(h, calls, l, t)
  BY <1>1 DEF ViewInv
<1>4. CallsOK(calls', l) /\ HeapOK(h, calls', l, t)
  BY <1>2, <1>3, ForgetFact
<1>5. NoState \in States /\ NoState.comments = None /\ NoState.expanded_comments = FALSE
  <2>1. <<>> \in Seq(Likers)
    OBVIOUS
  <2> QED BY <2>1 DEF NoState, StateOf, NoPage, States
<1>6. PICK shown : shown = <<>>
  OBVIOUS
<1>7. /\ state' = NoState /\ deleted' = {} /\ clicked' \in BOOLEAN
  BY <1>2 DEF SetState
<1>8. /\ mounted' \in BOOLEAN /\ stale' \in BOOLEAN /\ events' \in Nat /\ failed' \in BOOLEAN
  BY <1>2 DEF ViewInv
<1>9. CallsOK(calls', last[Viewer]) /\ HeapOK(h, calls', last[Viewer], sameSecond)
  BY <1>1, <1>4
<1>10. /\ shown = IF state'.comments = None THEN <<>> ELSE h[state'.comments]
       /\ deleted' \subseteq DOMAIN shown
       /\ state' \in States /\ state'.comments \in DOMAIN h \union {None}
       /\ state'.expanded_comments /\ ~stale' => ~Has(shown, Placeholder)
  BY <1>5, <1>6, <1>7
<1> QED BY <1>2, <1>7, <1>8, <1>9, <1>10, Landed

LEMMA AnswerPollView ==
    ASSUME ViewInv, NEW p \in Polls, AnswerPoll(p)
    PROVE  ViewInv'
<1>1. /\ polls[p] # None /\ polls' = [polls EXCEPT ![p] = None]
      /\ UNCHANGED <<served, failed, events>>
  BY DEF AnswerPoll
<1>2. PICK props : props = polls[p].page
  OBVIOUS
<1>3. /\ PollsOK(polls', last[Viewer])
      /\ props \in Pages /\ Brought(props.comments, last[Viewer])
  BY <1>1, <1>2, PolledFact
<1>4. CASE ComponentWillReceiveProps(props)
  BY <1>1, <1>3, <1>4, PropsView
<1>5. CASE GetInitialState(props)
  BY <1>1, <1>3, <1>5, InitialView
<1>6. CASE Unmount
  BY <1>1, <1>3, <1>6, UnmountView
<1> QED BY <1>2, <1>4, <1>5, <1>6 DEF AnswerPoll

-----------------------------------------------------------------------------
(* The theorems.                                                           *)

LEMMA ServerInit ==
    ASSUME WebInit
    PROVE  /\ ServerInv /\ events \in Nat /\ failed = FALSE
           /\ calls = [s \in Slots |-> None]
<1>1. PICK n \in Earlier :
        /\ comments = [i \in 1 .. n |-> [id |-> <<Friend, i>>, body |-> 0]]
        /\ last = [u \in Users |-> IF u = Friend THEN n ELSE 0]
  BY DEF WebInit
<1>2. n \in Nat
  BY <1>1, EntryAssumption
<1>3. \A i \in 1 .. n : [id |-> <<Friend, i>>, body |-> 0] \in Comments
  BY <1>2, UserFacts, IdFacts
<1>4. /\ comments \in Seq(Comments) /\ Len(comments) = n
      /\ \A i \in 1 .. n : comments[i].id = <<Friend, i>>
  BY <1>1, <1>2, <1>3
<1>5. IdsOnce(comments) /\ \A i \in 1 .. Len(comments), m \in Nat : comments[i].id # <<Viewer, m>>
  BY <1>4, UserFacts DEF IdsOnce
<1>6. ASSUME NEW i \in 1 .. Len(comments)
      PROVE  comments[i].id \in CommentIds
  <2>1. comments[i].id = <<Friend, i>> /\ i \in Nat
    BY <1>2, <1>4
  <2> QED BY <2>1, UserFacts, IdFacts
<1>7. last \in [Users -> Nat]
  BY <1>1, <1>2
<1>8. likes \in Seq(Users)
  <2>1. likes = Fans /\ Fans \in Seq(Range(Fans) \ {Viewer, Friend})
    BY EntryAssumption DEF WebInit
  <2> DEFINE R == Range(Fans) \ {Viewer, Friend}
  <2>2. R \subseteq Users
    BY DEF Users
  <2> HIDE DEF R
  <2>3. Fans \in Seq(R)
    BY <2>1 DEF R
  <2> QED BY <2>1, <2>2, <2>3
<1>9. \A i \in 1 .. Len(comments) : Past(comments[i].id, last[Viewer])
  BY <1>5 DEF Past
<1> QED BY <1>4, <1>5, <1>6, <1>7, <1>8, <1>9 DEF ServerInv, WebInit

LEMMA FirstArray ==
    ASSUME NEW cs, NEW l, Brought(cs, l), NEW twice, NEW array,
           array = [i \in DOMAIN cs |->
                        [id |-> cs[i].id, body |-> 0, is_editing |-> FALSE, born |-> 1]]
    PROVE  ArrayOK(array, l, twice)
<1>1. PICK n \in Nat : n = Len(cs) /\ DOMAIN cs = 1 .. n /\ cs \in Seq(Comments)
  BY DEF Brought
<1>2. ASSUME NEW i \in 1 .. n
      PROVE  array[i] \in Objects /\ array[i].id = cs[i].id /\ array[i].is_editing = FALSE
  <2>1. array[i] = [id |-> cs[i].id, body |-> 0, is_editing |-> FALSE, born |-> 1]
    BY <1>1
  <2>2. cs[i].id \in CommentIds \union {Placeholder}
    BY <1>1, IdFacts
  <2> PICK id \in CommentIds \union {Placeholder} : id = cs[i].id
    BY <2>2
  <2> PICK o : o = [id |-> id, body |-> 0, is_editing |-> FALSE, born |-> 1]
    OBVIOUS
  <2>3. o \in Objects /\ o.id = id /\ o.is_editing = FALSE
    BY DEF Objects
  <2>4. array[i] = o
    BY <2>1
  <2> QED BY <2>3, <2>4
<1>3. array \in Seq(Objects) /\ Len(array) = n
  <2>1. array = [i \in 1 .. n |-> array[i]]
    BY <1>1
  <2>2. array \in [1 .. n -> Objects]
    BY <1>2, <2>1
  <2> QED BY <2>2, FunctionIsSeq
<1> QED BY <1>1, <1>2, <1>3 DEF ArrayOK, Brought, IdsOnce

LEMMA InitInv == ViewInit => ViewInv
<1> SUFFICES ASSUME ViewInit PROVE ViewInv
  OBVIOUS
<1>1. ServerInv /\ events \in Nat /\ failed = FALSE /\ calls = [s \in Slots |-> None]
  BY ServerInit DEF ViewInit
<1>2. PICK l, t : l = last[Viewer] /\ t = sameSecond
  OBVIOUS
<1>3. PICK cs : cs = PageOf.comments /\ Brought(cs, l)
  BY <1>1, <1>2, PageOfFact
<1>4. PICK array : array = [i \in DOMAIN cs |->
                        [id |-> cs[i].id, body |-> 0, is_editing |-> FALSE, born |-> 1]]
  OBVIOUS
<1>5. ArrayOK(array, l, t)
  BY <1>3, <1>4, FirstArray
<1>6. /\ DOMAIN heap \subseteq {1}
      /\ comments # <<>> => 1 \in DOMAIN heap
      /\ \A r \in DOMAIN heap : heap[r] = array
  <2>1. heap = [r \in {state.comments} \ {None} |-> array]
    BY <1>3, <1>4 DEF ViewInit
  <2>2. state.comments = IF comments = <<>> THEN None ELSE 1
    BY DEF ViewInit, StateOf
  <2> QED BY <2>1, <2>2, EntryAssumption
<1>7. ArraysOK(heap, l, t)
  <2>1. IsFiniteSet(DOMAIN heap)
    BY <1>6, FS_Singleton, FS_Subset
  <2> QED BY <1>5, <1>6, <2>1 DEF ArraysOK
<1>8. CallsOK(calls, l) /\ HeapOK(heap, calls, l, t)
  BY <1>1, <1>7 DEF CallsOK, HeapOK, Refers, PostsOK, Pushes
<1>9. PollsOK(polls, l)
  BY DEF ViewInit, PollsOK
<1>10. PICK r : r = IF comments = <<>> THEN None ELSE 1
  OBVIOUS
<1>11. state = StateOf(r, PageOf) /\ r \in Nat \union {None} /\ r \in DOMAIN heap \union {None}
  BY <1>6, <1>10 DEF ViewInit
<1>12. PageOf.likes \in Seq(Likers) /\ PageOf.command \in {"like", "unlike"}
  BY <1>1, PageOfFact DEF Pages
<1>13. state \in States /\ state.comments = r /\ state.expanded_comments = FALSE
  BY <1>11, <1>12 DEF StateOf, States
<1>14. PageOK
  BY <1>11, <1>13 DEF ViewInit, PageOK
<1> QED BY <1>1, <1>2, <1>8, <1>9, <1>14 DEF ViewInv

LEMMA StutterView ==
    ASSUME ViewInv, UNCHANGED viewVars
    PROVE  ViewInv'
<1>1. PageOK' /\ ServerInv'
  BY DEF ViewInv, PageOK, Shown, ServerInv
<1> QED BY <1>1 DEF ViewInv

LEMMA StepInv == ViewInv /\ [ViewNext]_viewVars => ViewInv'
<1> SUFFICES ASSUME ViewInv, [ViewNext]_viewVars PROVE ViewInv'
  OBVIOUS
<1>1. CASE ViewerActs
  BY <1>1, ViewerView
<1>2. CASE LoadFeeds
  BY <1>2, LoadView
<1>3. ASSUME NEW s \in Slots, Serve(s) \/ Answer(s)
      PROVE  ViewInv'
  BY <1>3, ServeView, AnswerView
<1>4. ASSUME NEW p \in Polls, ServePoll(p) \/ AnswerPoll(p)
      PROVE  ViewInv'
  BY <1>4, ServePollView, AnswerPollView
<1>5. CASE Lose
  BY <1>5, LoseView
<1>6. CASE Elsewhere /\ UNCHANGED <<page, heap, polls, stale>>
  BY <1>6, ElsewhereView
<1>7. CASE UNCHANGED viewVars
  BY <1>7, StutterView
<1> QED BY <1>1, <1>2, <1>3, <1>4, <1>5, <1>6, <1>7 DEF ViewNext

\* What the variables of the page may hold: every array a call or the page
\* refers to is there, and every answer is of the kind its callback expects.
THEOREM ViewTypes == ViewSpec => []ViewTypeOK
<1>1. ViewInv => ViewTypeOK
  <2> SUFFICES ASSUME ViewInv PROVE ViewTypeOK
    OBVIOUS
  <2>1. ServerInv /\ PageOK /\ CallsOK(calls, last[Viewer]) /\ PollsOK(polls, last[Viewer])
    BY DEF ViewInv
  <2>2. ArraysOK(heap, last[Viewer], sameSecond) /\ Refers(heap, calls)
    BY DEF ViewInv, HeapOK
  <2>3. /\ comments \in Seq(Comments) /\ likes \in Seq(Users)
        /\ listed \in BOOLEAN /\ last \in [Users -> Nat]
        /\ sameSecond \in BOOLEAN /\ failed \in BOOLEAN /\ events \in Nat
    BY <2>1 DEF ServerInv, ViewInv
  <2>4. /\ mounted \in BOOLEAN /\ stale \in BOOLEAN /\ clicked \in BOOLEAN
        /\ state.comments \in DOMAIN heap \union {None}
        /\ state.likes \in Seq(Likers)
        /\ state.command \in {"like", "unlike"}
        /\ {state.new_comment_form, state.expanded_likes, state.expanded_comments} \subseteq BOOLEAN
        /\ deleted \subseteq DOMAIN Shown
    BY <2>1 DEF PageOK, States
  <2>5. \A r \in DOMAIN heap : r \in Nat /\ heap[r] \in Seq(Objects)
    BY <2>2 DEF ArraysOK, ArrayOK
  <2>6. ASSUME NEW s \in Slots, calls[s] # None
        PROVE  /\ calls[s].kind \in Kinds
               /\ ~calls[s].lost => calls[s].array \in DOMAIN heap \union {None}
               /\ calls[s].self /\ calls[s].kind \in {"post", "edit"} => calls[s].array # None
               /\ calls[s].kind \in CommentKinds => calls[s].answer \in Seq(Comments)
               /\ calls[s].kind \in LikeKinds => calls[s].answer \in Seq(Likers)
    <3>1. calls[s] \in CallRecords /\ CallOK(calls[s], last[Viewer])
      BY <2>1, <2>6 DEF CallsOK
    <3>2. ~calls[s].lost => calls[s].array \in DOMAIN heap \union {None}
      BY <2>2, <2>6 DEF Refers
    <3>3. calls[s].kind \in Kinds
      BY <3>1 DEF CallRecords
    <3> QED BY <3>1, <3>2, <3>3 DEF CallOK
  <2>7. \A p \in Polls : polls[p] # None => polls[p].page \in Pages
    BY <2>1 DEF PollsOK, PollRecords
  <2> QED BY <2>3, <2>4, <2>5, <2>6, <2>7 DEF ViewTypeOK
<1> QED BY <1>1, InitInv, StepInv, PTL DEF ViewSpec

\* The page shows a comment once, whatever polls and answers overtake each
\* other, unless two posts fell in one second.
THEOREM ShownTheorem == ViewSpec => []ShownOnce
<1>1. ViewInv => ShownOnce
  BY ShownFact DEF ShownOnce, ArrayOK, IdsOnce
<1> QED BY <1>1, InitInv, StepInv, PTL DEF ViewSpec

\* Comments that were expanded are collapsed again only where an answer brings
\* back an array no longer shown.
THEOREM ExpandedTheorem == ViewSpec => []ExpandedStays
<1>1. ViewInv => ExpandedStays
  <2> SUFFICES ASSUME ViewInv, state.expanded_comments, NEW i \in DOMAIN Shown,
                      Shown[i].id = Placeholder, ~stale
               PROVE  FALSE
    BY DEF ExpandedStays, ViewInv, PageOK
  <2>1. DOMAIN Shown = 1 .. Len(Shown)
    BY ShownFact
  <2> QED BY <2>1 DEF ViewInv, PageOK, Has
<1> QED BY <1>1, InitInv, StepInv, PTL DEF ViewSpec

-----------------------------------------------------------------------------
(* Forms.  A step that shows another array keeps the forms of the one it   *)
(* replaces, unless it is one of those EditFormKept names.                 *)

\* what EditFormKept says of a step
FormsKept ==
    \A id \in {Shown[i].id : i \in DOMAIN Shown} :
        IsEditing(id) /\ mounted' /\ ~IsEditing(id)' =>
            \/ UNCHANGED <<calls, polls>>
            \/ \E s \in Slots :
                /\ calls[s] # None /\ calls'[s] = None /\ calls[s].served
                /\ \/ calls[s].kind = "expandComments"
                   \/ calls[s].kind = "edit" /\ calls[s].id = id
                   \/ calls[s].array # state.comments

\* An entry that is not on the page shows no comments and awaits no answer.
GoneOK ==
    ~mounted => /\ state.comments = None
                /\ \A s \in Slots : calls[s] # None => ~calls[s].self

LEMMA SameShown ==
    ASSUME Shown' = Shown
    PROVE  FormsKept
BY DEF FormsKept, IsEditing

LEMMA SamePage ==
    ASSUME state'.comments = state.comments, heap' = heap
    PROVE  FormsKept
<1>1. Shown' = Shown
  BY DEF Shown
<1> QED BY <1>1, SameShown

\* The array shown is among those that are collected.
LEMMA CollectShows ==
    ASSUME NEW h, Collect(h)
    PROVE  Shown' = IF state'.comments = None THEN <<>> ELSE h[state'.comments]
BY DEF Collect, Live, Shown

LEMMA WithArrayIs ==
    ASSUME NEW r, NEW objects, NEW h, h = WithArray(r, objects)
    PROVE  /\ h[r] = objects
           /\ \A s \in DOMAIN heap \ {r} : h[s] = heap[s]
BY DEF WithArray

LEMMA ViewerForms ==
    ASSUME ViewInv, ViewerActs
    PROVE  FormsKept
<1>1. CASE \/ HandleNewComment \/ CancelNew
           \/ \E i \in DOMAIN Shown : EditComment(i) \/ CancelEdit(Shown[i].id)
  <2>1. UNCHANGED <<calls, polls>>
    BY <1>1 DEF HandleNewComment, CancelNew, EditComment, CancelEdit, SetEditing
  <2> QED BY <2>1 DEF FormsKept
<1>2. CASE SubmitNew
  <2>1. PICK r : r = IF state.comments = None THEN NewRef ELSE state.comments
    OBVIOUS
  <2>2. heap' = WithArray(r, Shown) /\ state' = state
    BY <1>2, <2>1 DEF SubmitNew
  <2>3. heap'[r] = Shown
    BY <2>2, WithArrayIs
  <2>4. Shown' = Shown
    BY <2>1, <2>2, <2>3 DEF Shown
  <2> QED BY <2>4, SameShown
<1>3. CASE \/ HandleLike \/ ExpandLikes
           \/ \E i \in DOMAIN Shown : ExpandComments(i) \/ ClickDelete(i) \/ SubmitEdit(Shown[i].id)
  <2>1. state' = state /\ heap' = heap
    BY <1>3 DEF HandleLike, ExpandLikes, ExpandComments, ClickDelete, SubmitEdit
  <2> QED BY <2>1, SamePage
<1> QED BY <1>1, <1>2, <1>3 DEF ViewerActs

\* The answer of a post to the array that is shown adds a comment at its end.
LEMMA PostForms ==
    ASSUME ViewInv, NEW s \in Slots, calls[s] # None, calls[s].served, calls[s].self,
           AnswerPost(calls[s], s)
    PROVE  FormsKept
<1>1. PICK call : call = calls[s]
  OBVIOUS
<1>2. PICK array, o : array = heap[call.array] /\ o = ObjectOf(call.answer[1])
  OBVIOUS
<1>3. PICK longer : longer = Append(array, o)
  OBVIOUS
<1>4. PICK h : h = WithArray(call.array, longer)
  OBVIOUS
<1>5. /\ call.kind = "post" /\ End(s) /\ state'.comments = call.array
      /\ Collect(h)
  <2>1. state \in States
    BY DEF ViewInv, PageOK
  <2> QED BY <1>1, <1>2, <1>3, <1>4, <2>1 DEF AnswerPost, SetState, States
<1>6. calls'[s] = None /\ call.array # None
  BY <1>1, <1>5 DEF ViewInv, CallsOK, CallOK, End
<1>7. CASE call.array # state.comments
  BY <1>1, <1>6, <1>7 DEF FormsKept
<1>8. CASE call.array = state.comments
  <2>1. Shown = array
    BY <1>6, <1>8, <1>2 DEF Shown
  <2>2. h[call.array] = longer
    BY <1>4, WithArrayIs
  <2>3. Shown' = longer
    BY <1>5, <1>6, <2>2, CollectShows
  <2>4. array \in Seq(Objects)
    BY <2>1, ShownFact DEF ArrayOK
  <2>5. \A i \in DOMAIN array : i \in DOMAIN longer /\ longer[i] = array[i]
    BY <1>3, <2>4
  <2> QED BY <2>1, <2>3, <2>5 DEF FormsKept, IsEditing
<1> QED BY <1>7, <1>8

\* The answer of an edit to the array that is shown replaces only its own
\* comment.
LEMMA EditForms ==
    ASSUME ViewInv, NEW s \in Slots, calls[s] # None, calls[s].served, calls[s].self,
           AnswerEdit(calls[s], s)
    PROVE  FormsKept
<1>1. PICK call : call = calls[s]
  OBVIOUS
<1>2. PICK o, array : o = ObjectOf(call.answer[1]) /\ array = heap[call.array]
  OBVIOUS
<1>3. PICK objects :
        objects = [i \in DOMAIN array |-> IF array[i].id = call.id THEN o ELSE array[i]]
  OBVIOUS
<1>4. /\ call.kind = "edit" /\ End(s) /\ state'.comments = NewRef
      /\ Collect(WithArray(NewRef, objects))
  <2>1. state \in States
    BY DEF ViewInv, PageOK
  <2> QED BY <1>1, <1>2, <1>3, <2>1 DEF AnswerEdit, SetState, States
<1>5. calls'[s] = None /\ call.array # None
  BY <1>1, <1>4 DEF ViewInv, CallsOK, CallOK, End
<1>6. CASE call.array # state.comments
  BY <1>1, <1>5, <1>6 DEF FormsKept
<1>7. CASE call.array = state.comments
  <2>1. Shown = array
    BY <1>2, <1>5, <1>7 DEF Shown
  <2>2. NewRef # None
    BY NewRefFact DEF ViewInv, HeapOK
  <2>3. Shown' = objects
    BY <1>4, <2>2, CollectShows, WithArrayIs
  <2>4. ASSUME NEW id, IsEditing(id), id # call.id
        PROVE  IsEditing(id)'
    BY <1>3, <2>1, <2>3, <2>4 DEF IsEditing
  <2> QED BY <1>1, <1>4, <1>5, <2>4 DEF FormsKept
<1> QED BY <1>6, <1>7

LEMMA AnswerForms ==
    ASSUME ViewInv, NEW s \in Slots, Answer(s)
    PROVE  FormsKept
<1>1. calls[s] # None /\ calls[s].served
  BY DEF Answer
<1>2. CASE calls[s].self /\ AnswerPost(calls[s], s)
  BY <1>1, <1>2, PostForms
<1>3. CASE calls[s].self /\ AnswerEdit(calls[s], s)
  BY <1>1, <1>3, EditForms
<1>4. CASE calls[s].self /\ AnswerComments(calls[s], s)
  <2>1. calls[s].kind = "expandComments" /\ calls'[s] = None
    BY <1>4 DEF AnswerComments, End, ViewInv, CallsOK
  <2> QED BY <1>1, <2>1 DEF FormsKept
<1>5. CASE calls[s].self /\ (AnswerLikes(calls[s], s) \/ AnswerLike(calls[s], s))
  <2>1. state \in States
    BY DEF ViewInv, PageOK
  <2>2. state'.comments = state.comments /\ heap' = heap
    BY <1>5, <2>1 DEF AnswerLikes, AnswerLike, SetState, States
  <2> QED BY <2>2, SamePage
<1>6. CASE UNCHANGED <<state, deleted, clicked, heap, stale>>
  BY <1>6, SamePage
<1> QED BY <1>2, <1>3, <1>4, <1>5, <1>6 DEF Answer

\* A poll takes the comments only of a page without forms, and an entry that
\* comes back to the page had none.
LEMMA PollForms ==
    ASSUME ViewInv, GoneOK, NEW p \in Polls, AnswerPoll(p)
    PROVE  FormsKept
<1>1. PICK props : props = polls[p].page
  OBVIOUS
<1>2. CASE ComponentWillReceiveProps(props)
  <2>1. PICK h : h = WithArray(NewRef, ObjectsOf(props.comments))
    OBVIOUS
  <2>2. /\ state'.comments = IF TakesComments(props) THEN NewRef ELSE state.comments
        /\ Collect(h)
    <3>1. state \in States
      BY DEF ViewInv, PageOK
    <3> QED BY <1>2, <2>1, <3>1 DEF ComponentWillReceiveProps, SetState, States
  <2>3. CASE TakesComments(props)
    BY <2>3 DEF TakesComments, FormsKept, IsEditing
  <2>4. CASE ~TakesComments(props)
    <3>1. state.comments # None => state.comments \in DOMAIN heap \ {NewRef}
      BY NewRefFact DEF ViewInv, HeapOK, PageOK
    <3>2. state.comments # None => h[state.comments] = heap[state.comments]
      BY <2>1, <3>1, WithArrayIs
    <3>3. Shown' = IF state'.comments = None THEN <<>> ELSE h[state'.comments]
      BY <2>2, CollectShows
    <3>4. Shown' = Shown
      BY <2>2, <2>4, <3>2, <3>3 DEF Shown
    <3> QED BY <3>4, SameShown
  <2> QED BY <2>3, <2>4
<1>3. CASE GetInitialState(props)
  <2>1. Shown = <<>>
    BY <1>3 DEF GetInitialState, GoneOK, Shown
  <2> QED BY <2>1 DEF FormsKept
<1>4. CASE Unmount
  BY <1>4 DEF Unmount, FormsKept
<1> QED BY <1>1, <1>2, <1>3, <1>4 DEF AnswerPoll

LEMMA StepForms ==
    ASSUME ViewInv, GoneOK, ViewNext
    PROVE  FormsKept
<1>1. CASE ViewerActs
  BY <1>1, ViewerForms
<1>2. CASE LoadFeeds
  BY <1>2, SamePage DEF LoadFeeds
<1>3. ASSUME NEW s \in Slots, Serve(s) PROVE FormsKept
  BY <1>3, SamePage DEF Serve
<1>4. ASSUME NEW s \in Slots, Answer(s) PROVE FormsKept
  BY <1>4, AnswerForms
<1>5. ASSUME NEW p \in Polls, ServePoll(p) PROVE FormsKept
  BY <1>5, SamePage DEF ServePoll
<1>6. ASSUME NEW p \in Polls, AnswerPoll(p) PROVE FormsKept
  BY <1>6, PollForms
<1>7. CASE Lose
  <2>1. state' = state /\ Collect(heap)
    BY <1>7 DEF Lose
  <2>2. Shown' = Shown
    BY <2>1, CollectShows DEF Shown
  <2> QED BY <2>2, SameShown
<1>8. CASE Elsewhere /\ UNCHANGED <<page, heap, polls, stale>>
  BY <1>8, SamePage
<1> QED BY <1>1, <1>2, <1>3, <1>4, <1>5, <1>6, <1>7, <1>8 DEF ViewNext

\* Calls that end, or are answered, are not taken up by another Entry.
LEMMA CallsStayGone ==
    ASSUME GoneOK, ~mounted, state' = state,
           \A s \in Slots : calls'[s] # None =>
               calls[s] # None /\ (calls'[s].self => calls[s].self)
    PROVE  GoneOK'
BY DEF GoneOK

LEMMA StepGone ==
    ASSUME ViewInv, GoneOK, [ViewNext]_viewVars
    PROVE  GoneOK'
<1>1. CASE mounted'
  BY <1>1 DEF GoneOK
<1>2. CASE ~mounted' /\ mounted
  <2>1. \E p \in Polls : AnswerPoll(p)
    BY <1>2 DEF ViewNext, ViewerActs, HandleNewComment, SubmitNew, CancelNew, HandleLike,
       ExpandLikes, EditComment, ClickDelete, ExpandComments, SubmitEdit, CancelEdit,
       SetEditing, LoadFeeds, Serve, Answer, ServePoll, Lose
  <2>2. Unmount
    BY <1>2, <2>1 DEF AnswerPoll, ComponentWillReceiveProps, GetInitialState
  <2>3. state' = NoState /\ NoState.comments = None
    BY <2>2 DEF Unmount, SetState, NoState, StateOf
  <2>4. \A s \in Slots : calls[s] # None => calls[s] \in CallRecords
    BY DEF ViewInv, CallsOK
  <2>5. \A s \in Slots : calls'[s] # None => ~calls'[s].self
    BY <2>2, <2>4 DEF Unmount, Orphans, CallRecords
  <2> QED BY <2>3, <2>5 DEF GoneOK
<1>3. CASE ~mounted' /\ ~mounted
  <2>1. ~ViewerActs /\ \A props : ~ComponentWillReceiveProps(props)
    BY <1>3 DEF ViewerActs, HandleNewComment, SubmitNew, CancelNew, HandleLike,
       ExpandLikes, EditComment, OwnComment, ClickDelete, ExpandComments, SubmitEdit,
       CancelEdit, ComponentWillReceiveProps
  <2>2. calls \in [Slots -> CallRecords \union {None}]
    BY DEF ViewInv, CallsOK
  <2>3. CASE calls' = calls /\ state' = state
    BY <1>3, <2>3, CallsStayGone
  <2>4. ASSUME NEW s \in Slots, Serve(s)
        PROVE  GoneOK'
    <3>1. state' = state /\ mounted' = mounted /\ (End(s) \/ \E answer : Answered(s, answer))
      BY <2>4 DEF Serve, Handle, ServePost, ServeLike, ServeComments, ServeLikes
    <3>2. \A t \in Slots : calls'[t] # None =>
               calls[t] # None /\ (calls'[t].self => calls[t].self)
      BY <2>2, <2>4, <3>1 DEF Serve, End, Answered, CallRecords
    <3> QED BY <1>3, <3>1, <3>2, CallsStayGone
  <2>5. ASSUME NEW s \in Slots, Answer(s)
        PROVE  GoneOK'
    <3>1. ~calls[s].self
      BY <1>3, <2>5 DEF Answer, GoneOK
    <3>2. End(s) /\ state' = state /\ mounted' = mounted
      BY <2>5, <3>1 DEF Answer
    <3>3. \A t \in Slots : calls'[t] # None =>
               calls[t] # None /\ (calls'[t].self => calls[t].self)
      BY <2>2, <3>2 DEF End
    <3> QED BY <1>3, <3>2, <3>3, CallsStayGone
  <2>6. ASSUME NEW p \in Polls, AnswerPoll(p)
        PROVE  GoneOK'
    <3>1. Unmount
      BY <1>3, <2>1, <2>6 DEF AnswerPoll, GetInitialState
    <3>2. state' = NoState /\ NoState.comments = None
      BY <3>1 DEF Unmount, SetState, NoState, StateOf
    <3>3. \A s \in Slots : calls'[s] # None => ~calls'[s].self
      BY <2>2, <3>1 DEF Unmount, Orphans, CallRecords
    <3> QED BY <3>2, <3>3 DEF GoneOK
  <2>7. CASE Lose
    <3>1. state' = state /\ mounted' = mounted
      BY <2>7 DEF Lose
    <3>2. \A t \in Slots : calls'[t] # None =>
               calls[t] # None /\ (calls'[t].self => calls[t].self)
      BY <2>2, <2>7 DEF Lose, Fail, End, UnderWay, CallRecords
    <3> QED BY <1>3, <3>1, <3>2, CallsStayGone
  <2> QED BY <1>3, <2>1, <2>3, <2>4, <2>5, <2>6, <2>7 DEF ViewNext, LoadFeeds, ServePoll, Elsewhere
<1> QED BY <1>1, <1>2, <1>3

\* No poll closes a form in which the viewer edits a comment, whatever answers
\* overtake it (httpd/templates/_feed.jsx:41-60): on a page that stays the form
\* goes only when it is cancelled, when its own edit is answered, when the
\* comments are expanded, or when an answer brings back an array no longer shown.
THEOREM FormTheorem == ViewSpec => EditFormKept
<1>1. ViewInit => GoneOK
  BY DEF ViewInit, GoneOK
<1>2. ViewInv /\ GoneOK /\ [ViewNext]_viewVars => GoneOK'
  BY StepGone
<1>3. ViewInv /\ GoneOK /\ [ViewNext]_viewVars => [FormsKept]_viewVars
  BY StepForms
<1> QED BY <1>1, <1>2, <1>3, InitInv, StepInv, PTL DEF ViewSpec, EditFormKept, FormsKept
=============================================================================
