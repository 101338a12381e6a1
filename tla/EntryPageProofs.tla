--------------------------- MODULE EntryPageProofs ---------------------------
(***************************************************************************)
(* PageTypeOK, LinkAgrees and PostedOnce for any number of calls, clicks,  *)
(* users and comments.                                                     *)
(***************************************************************************)
EXTENDS EntryPage, SequenceFacts, FiniteSetTheorems, TLAPS

USE DEF webVars, served, entryVars, pageVars

-----------------------------------------------------------------------------
(* The entry on the server.                                                *)

EntryTypes ==
    /\ comments \in Seq(Comments) /\ IdsOnce(comments)
    /\ likes \in Seq(Users)
    /\ \A i, j \in 1 .. Len(likes) : likes[i] = likes[j] => i = j
    /\ last \in [Users -> Nat]

\* the comments of the viewer are from seconds that were
Past(id) == \A n \in Nat : id = <<Viewer, n>> => n <= last[Viewer]
PastOK == \A i \in 1 .. Len(comments) : Past(comments[i].id)

LEMMA UserFacts == Viewer \in Users /\ Friend \in Users /\ Viewer # Friend
BY EntryAssumption DEF Users

LEMMA IdFacts ==
    /\ \A u \in Users, n \in Nat : <<u, n>> \in CommentIds
    /\ \A id \in CommentIds : id # Placeholder
    /\ \A c \in Comments : c.id \in CommentIds \union {Placeholder}
    /\ \A id \in CommentIds \union {Placeholder}, n \in Nat : [id |-> id, body |-> n] \in Comments
BY EntryAssumption DEF CommentIds, Comments

LEMMA PositionIs ==
    ASSUME NEW id, EntryTypes
    PROVE  IsPosition(comments, id, Position(id))
<1> DEFINE I == {i \in 1 .. Len(comments) : comments[i].id = id}
           k == IF I # {} THEN Min(I) ELSE 0
<1>1. Position(id) = k
  BY DEF Position, SelectInSeq
<1> HIDE DEF k
<1>2. IsPosition(comments, id, k)
  <2> HIDE DEF I
  <2>1. comments \in Seq(Comments)
    BY DEF EntryTypes
  <2>2. I = {i \in 1 .. Len(comments) : comments[i].id = id}
    BY DEF I
  <2>3. k = IF I # {} THEN Min(I) ELSE 0
    BY DEF k
  <2> QED BY <2>1, <2>2, <2>3, IdPositionFact
<1> QED BY <1>1, <1>2

\* A comment is there, or takes the place of that with its id.
LEMMA CommentStep ==
    ASSUME EntryTypes, NEW new \in Comments, Comment(new)
    PROVE  /\ comments' \in Seq(Comments) /\ IdsOnce(comments')
           /\ \E i \in 1 .. Len(comments') : comments'[i] = new
           /\ \A i \in 1 .. Len(comments') :
                  comments'[i] = new \/ \E j \in 1 .. Len(comments) : comments'[i] = comments[j]
           /\ \A j \in 1 .. Len(comments) :
                  \E i \in 1 .. Len(comments') : comments'[i].id = comments[j].id
           /\ likes' = likes
<1> DEFINE k == Position(new.id)
<1>1. IsPosition(comments, new.id, k)
  BY PositionIs
<1>2. /\ comments' = IF k = 0 THEN Append(comments, new) ELSE ReplaceAt(comments, k, new)
      /\ likes' = likes
  BY DEF Comment
<1>3. comments \in Seq(Comments) /\ IdsOnce(comments)
  BY DEF EntryTypes
<1> HIDE DEF k
<1>4. IsSetId(comments', comments, new, Comments)
  BY <1>1, <1>2, <1>3, SetIdFact
<1> QED BY <1>2, <1>4 DEF IsSetId

\* A comment taken out leaves the others.
LEMMA DeleteCommentStep ==
    ASSUME EntryTypes, NEW id, DeleteComment(id)
    PROVE  /\ comments' \in Seq(Comments) /\ IdsOnce(comments')
           /\ \A i \in 1 .. Len(comments') :
                  \E j \in 1 .. Len(comments) : comments'[i] = comments[j]
           /\ \A j \in 1 .. Len(comments) : comments[j].id # id =>
                  \E i \in 1 .. Len(comments') : comments'[i] = comments[j]
           /\ likes' = likes
<1> DEFINE k == Position(id)
<1>1. IsPosition(comments, id, k)
  BY PositionIs
<1>2. /\ comments' = IF k = 0 THEN comments ELSE RemoveAt(comments, k)
      /\ likes' = likes
  BY DEF DeleteComment
<1>3. comments \in Seq(Comments) /\ IdsOnce(comments)
  BY DEF EntryTypes
<1> HIDE DEF k
<1>4. IsDropId(comments', comments, id, Comments)
  BY <1>1, <1>2, <1>3, DropIdFact
<1> QED BY <1>2, <1>4 DEF IsDropId

LikesOnce(ls) ==
    /\ ls \in Seq(Users)
    /\ \A i, j \in 1 .. Len(ls) : ls[i] = ls[j] => i = j

LEMMA LikeStep ==
    ASSUME EntryTypes, NEW user \in Users, Like(user)
    PROVE  /\ LikesOnce(likes')
           /\ \A v : Contains(likes', v) <=> v = user \/ Contains(likes, v)
           /\ comments' = comments
<1>1. likes \in Seq(Users) /\ \A i, j \in 1 .. Len(likes) : likes[i] = likes[j] => i = j
  BY DEF EntryTypes
<1>2. comments' = comments
  BY DEF Like
<1>3. CASE Contains(likes, user)
  BY <1>1, <1>2, <1>3 DEF Like, LikesOnce
<1>4. CASE ~Contains(likes, user)
  <2>1. /\ likes' = Append(likes, user)
        /\ \A i \in 1 .. Len(likes) : likes[i] # user
    BY <1>4 DEF Like, Contains
  <2>2. /\ likes' \in Seq(Users) /\ Len(likes') = Len(likes) + 1 /\ Len(likes) \in Nat
        /\ \A i \in 1 .. Len(likes) : likes'[i] = likes[i]
        /\ likes'[Len(likes) + 1] = user
    BY <1>1, <2>1
  <2>3. \A i \in 1 .. Len(likes') : i \in 1 .. Len(likes) \/ i = Len(likes) + 1
    BY <2>2
  <2>4. LikesOnce(likes')
    BY <1>1, <2>1, <2>2, <2>3 DEF LikesOnce
  <2>5. \A v : Contains(likes', v) <=> v = user \/ Contains(likes, v)
    <3>1. \A i \in 1 .. Len(likes) : i \in 1 .. Len(likes')
      BY <2>2
    <3>2. Len(likes) + 1 \in 1 .. Len(likes')
      BY <2>2
    <3> QED BY <2>2, <2>3, <3>1, <3>2 DEF Contains
  <2> QED BY <1>2, <2>4, <2>5
<1> QED BY <1>3, <1>4

LEMMA DeleteLikeStep ==
    ASSUME EntryTypes, NEW user \in Users, DeleteLike(user)
    PROVE  /\ LikesOnce(likes')
           /\ \A v : Contains(likes', v) <=> v # user /\ Contains(likes, v)
           /\ comments' = comments
<1>1. likes \in Seq(Users) /\ \A i, j \in 1 .. Len(likes) : likes[i] = likes[j] => i = j
  BY DEF EntryTypes
<1>2. comments' = comments
  BY DEF DeleteLike
<1>3. CASE ~Contains(likes, user)
  BY <1>1, <1>2, <1>3 DEF DeleteLike, LikesOnce
<1>4. CASE Contains(likes, user)
  <2> DEFINE I == {i \in 1 .. Len(likes) : likes[i] = user}
             k == IF I # {} THEN Min(I) ELSE 0
  <2>1. likes' = RemoveAt(likes, k)
    BY <1>4 DEF DeleteLike, SelectInSeq
  <2>2. I \in SUBSET (1 .. Len(likes)) /\ Len(likes) \in Nat /\ I # {}
    BY <1>1, <1>4 DEF Contains
  <2>3. k \in 1 .. Len(likes) /\ likes[k] = user
    <3> HIDE DEF I
    <3>1. k \in I /\ k \in 1 .. Len(likes)
      BY <2>2, PositionFact
    <3> HIDE DEF k
    <3> QED BY <3>1 DEF I
  <2> HIDE DEF k, I
  <2>4. IsDrop(likes', likes, likes[k], Users)
    BY <1>1, <2>1, <2>3, DropFact
  <2> QED BY <1>2, <2>3, <2>4 DEF IsDrop, Contains, LikesOnce
<1> QED BY <1>3, <1>4

-----------------------------------------------------------------------------
(* What the steps do to the calls and to the entry.                        *)

CallsOK == calls \in [Slots -> Clicks \union {None}]

\* the calls but for one stay
Puts(s, call) == calls' = [calls EXCEPT ![s] = call]

LEMMA PutsStep ==
    ASSUME CallsOK, NEW s \in Slots, NEW call \in Clicks \union {None}, Puts(s, call)
    PROVE  /\ CallsOK'
           /\ \A t \in Slots : calls'[t] = IF t = s THEN call ELSE calls[t]
BY DEF CallsOK, Puts

LEMMA UnderWayIs ==
    ASSUME CallsOK
    PROVE  /\ \A s : s \in UnderWay <=> s \in Slots /\ calls[s] # None
           /\ \A s \in UnderWay : s \in Slots /\ calls[s] \in Clicks
           /\ \A s \in Slots : calls[s] \in Clicks => s \in UnderWay
BY ClickAssumption DEF UnderWay, CallsOK

LEMMA NewClickIs ==
    ASSUME NEW kind \in LikeCalls \union {"post", "expandComments"}, events \in Nat
    PROVE  /\ NewClick(kind) \in Clicks /\ NewClick(kind).kind = kind
           /\ ~NewClick(kind).served /\ ~NewClick(kind).lost
<1>1. <<>> \in Seq(Comments)
  OBVIOUS
<1> QED BY <1>1 DEF NewClick, Clicks

LEMMA SendStep ==
    ASSUME NEW call, Send(call)
    PROVE  /\ \E s \in Slots : s \notin UnderWay /\ Puts(s, call)
           /\ UNCHANGED <<comments, likes, listed, last, sameSecond, failed>>
           /\ events' = events + 1
BY DEF Send, Event, Puts

\* A call the server has served has its answer; that of a lost one is gone.
ServedAs(s, answer) ==
    \/ calls[s].lost /\ Puts(s, None)
    \/ /\ ~calls[s].lost
       /\ \E call \in Clicks :
            /\ Puts(s, call)
            /\ call.kind = calls[s].kind /\ call.served /\ ~call.lost
            /\ call.answer = answer

LEMMA AnsweredStep ==
    ASSUME CallsOK, NEW s \in UnderWay, NEW answer \in Seq(Comments) \union Seq(Likers),
           Answered(s, answer)
    PROVE  ServedAs(s, answer)
<1>1. s \in Slots /\ calls[s] \in Clicks
  BY UnderWayIs
<1>2. CASE calls[s].lost
  BY <1>2 DEF Answered, End, ServedAs, Puts
<1>3. CASE ~calls[s].lost
  <2> DEFINE call == [calls[s] EXCEPT !.served = TRUE, !.answer = answer]
  <2>1. calls' = [calls EXCEPT ![s].served = TRUE, ![s].answer = answer]
    BY <1>3 DEF Answered
  <2>2. Puts(s, call)
    BY <2>1, <1>1 DEF Puts, CallsOK
  <2>3. /\ call \in Clicks /\ call.kind = calls[s].kind /\ call.served
        /\ call.lost = calls[s].lost /\ call.answer = answer
    BY <1>1 DEF Clicks
  <2> HIDE DEF call
  <2> QED BY <1>3, <2>2, <2>3 DEF ServedAs
<1> QED BY <1>2, <1>3

LEMMA FormatLikesType ==
    ASSUME NEW ls \in Seq(Users)
    PROVE  FormatLikes(ls) \in Seq(Likers)
<1>1. ls \in Seq(Likers)
  BY DEF Likers
<1>2. CASE Len(ls) > Limit
  <2>1. SubSeq(ls, 1, Limit - 1) \in Seq(Likers)
    <3>1. Limit - 1 \in Nat /\ Limit - 1 <= Len(ls) /\ Len(ls) \in Nat
      BY <1>1, <1>2, EntryAssumption
    <3>2. \A i \in 1 .. Limit - 1 : i \in 1 .. Len(ls)
      BY <3>1
    <3> QED BY <1>1, <3>1, <3>2
  <2>2. Placeholder \in Likers
    BY DEF Likers
  <2> QED BY <1>2, <2>1, <2>2 DEF FormatLikes
<1> QED BY <1>1, <1>2 DEF FormatLikes

\* What every step of the server keeps: the types, and the comments of the
\* viewer, which have the seconds that were.
Keeps ==
    /\ EntryTypes'
    /\ \A n \in Nat : (\E i \in 1 .. Len(comments) : comments[i].id = <<Viewer, n>>)
            => \E i \in 1 .. Len(comments') : comments'[i].id = <<Viewer, n>>
    /\ PastOK => PastOK'
    /\ last[Viewer] <= last'[Viewer]
    /\ sameSecond => sameSecond'

LEMMA KeepsSame ==
    ASSUME EntryTypes, UNCHANGED <<comments, last, sameSecond>>, LikesOnce(likes')
    PROVE  Keeps
<1>1. last[Viewer] \in Nat
  BY UserFacts DEF EntryTypes
<1>2. EntryTypes'
  BY DEF EntryTypes, LikesOnce
<1> QED BY <1>1, <1>2 DEF Keeps, PastOK, Past

LEMMA LikeCommandIs ==
    /\ \A ls : LikeCommand(ls) = IF Contains(ls, Viewer) THEN "unlike" ELSE "like"
    /\ \A ls : LikeCommand(ls) \in LikeCalls
BY DEF LikeCommand, LikeCalls

LEMMA ServeLikeStep ==
    ASSUME EntryTypes, CallsOK, NEW s \in UnderWay, calls[s].kind \in LikeCalls, ServeLike(s)
    PROVE  /\ Keeps /\ UNCHANGED <<comments, last, sameSecond>>
           /\ LikeCommand(likes') # calls[s].kind
           /\ \E answer \in Seq(Likers) : ServedAs(s, answer)
<1>1. /\ LikesOnce(likes') /\ comments' = comments
      /\ Contains(likes', Viewer) <=> calls[s].kind = "like"
  <2>1. CASE calls[s].kind = "like"
    BY <2>1, UserFacts, LikeStep DEF ServeLike
  <2>2. CASE calls[s].kind # "like"
    BY <2>2, UserFacts, DeleteLikeStep DEF ServeLike
  <2> QED BY <2>1, <2>2
<1>2. last' = last /\ sameSecond' = sameSecond /\ Answered(s, FormatLikes(likes'))
  BY DEF ServeLike
<1>3. Keeps
  BY <1>1, <1>2, KeepsSame
<1>4. LikeCommand(likes') # calls[s].kind
  BY <1>1, LikeCommandIs DEF LikeCalls
<1>5. FormatLikes(likes') \in Seq(Likers)
  BY <1>1, FormatLikesType DEF LikesOnce
<1>6. ServedAs(s, FormatLikes(likes'))
  BY <1>2, <1>5, AnsweredStep
<1> QED BY <1>1, <1>2, <1>3, <1>4, <1>5, <1>6

\* A comment of one of the users.
LEMMA KeepsComment ==
    ASSUME EntryTypes, NEW user \in Users, NEW n \in Nat, NEW body \in Nat,
           n >= last[user], last' = [last EXCEPT ![user] = n],
           Comment([id |-> <<user, n>>, body |-> body]), sameSecond => sameSecond'
    PROVE  /\ Keeps /\ likes' = likes
           /\ \E i \in 1 .. Len(comments') : comments'[i].id = <<user, n>>
<1> DEFINE new == [id |-> <<user, n>>, body |-> body]
<1>1. new \in Comments /\ new.id = <<user, n>>
  BY IdFacts
<1> HIDE DEF new
<1>2. /\ comments' \in Seq(Comments) /\ IdsOnce(comments')
      /\ \E i \in 1 .. Len(comments') : comments'[i] = new
      /\ \A i \in 1 .. Len(comments') :
             comments'[i] = new \/ \E j \in 1 .. Len(comments) : comments'[i] = comments[j]
      /\ \A j \in 1 .. Len(comments) :
             \E i \in 1 .. Len(comments') : comments'[i].id = comments[j].id
      /\ likes' = likes
  <2>1. Comment(new)
    BY DEF new
  <2> QED BY <1>1, <2>1, CommentStep
<1>3. /\ last \in [Users -> Nat] /\ last' \in [Users -> Nat]
      /\ last'[user] = n
      /\ \A u \in Users : last[u] <= last'[u]
  BY DEF EntryTypes
<1>4. EntryTypes'
  BY <1>2, <1>3 DEF EntryTypes
<1>5. ASSUME PastOK
      PROVE  PastOK'
  <2>1. ASSUME NEW i \in 1 .. Len(comments'), NEW m \in Nat, comments'[i].id = <<Viewer, m>>
        PROVE  m <= last'[Viewer]
    <3>1. CASE comments'[i] = new
      <4>1. user = Viewer /\ m = n
        BY <1>1, <2>1, <3>1
      <4> QED BY <1>3, <4>1
    <3>2. CASE \E j \in 1 .. Len(comments) : comments'[i] = comments[j]
      <4>1. m <= last[Viewer]
        BY <1>5, <2>1, <3>2 DEF PastOK, Past
      <4> QED BY <1>3, <4>1, UserFacts
    <3> QED BY <1>2, <3>1, <3>2
  <2> QED BY <2>1 DEF PastOK, Past
<1>6. \A m \in Nat : (\E i \in 1 .. Len(comments) : comments[i].id = <<Viewer, m>>)
            => \E i \in 1 .. Len(comments') : comments'[i].id = <<Viewer, m>>
  BY <1>2
<1>7. Keeps
  BY <1>3, <1>4, <1>5, <1>6, UserFacts DEF Keeps
<1> QED BY <1>1, <1>2, <1>7

\* A post that is served as a new comment.
PostedAs(s, second, new) ==
    /\ new.id = <<Viewer, second>>
    /\ second <= last'[Viewer]
    /\ sameSecond' \/ second > last[Viewer]
    /\ \E i \in 1 .. Len(comments') : comments'[i].id = new.id
    /\ ServedAs(s, <<new>>)

LEMMA ServePostStep ==
    ASSUME EntryTypes, CallsOK, NEW s \in UnderWay, ServePost(s)
    PROVE  /\ Keeps /\ likes' = likes
           /\ \E second \in Nat, new \in Comments : PostedAs(s, second, new)
<1>1. last \in [Users -> Nat] /\ last[Viewer] \in Nat
  BY UserFacts DEF EntryTypes
<1>2. PICK second \in {last[Viewer], last[Viewer] + 1} :
        /\ NewComment(second, calls[s].body)
        /\ Answered(s, <<[id |-> <<Viewer, second>>, body |-> calls[s].body]>>)
  BY DEF ServePost
<1>3. second \in Nat /\ second >= last[Viewer] /\ calls[s].body \in Nat
  BY <1>1, <1>2, UnderWayIs DEF Clicks
<1>4. /\ last' = [last EXCEPT ![Viewer] = second]
      /\ sameSecond' = (sameSecond \/ second = last[Viewer])
      /\ Comment([id |-> <<Viewer, second>>, body |-> calls[s].body])
  BY <1>2 DEF NewComment
<1>5. /\ Keeps /\ likes' = likes
      /\ \E i \in 1 .. Len(comments') : comments'[i].id = <<Viewer, second>>
  BY <1>3, <1>4, UserFacts, KeepsComment
<1> DEFINE new == [id |-> <<Viewer, second>>, body |-> calls[s].body]
<1>6. new \in Comments /\ new.id = <<Viewer, second>>
  BY <1>3, UserFacts, IdFacts
<1>7. Answered(s, <<new>>)
  BY <1>2
<1> HIDE DEF new
<1>8. ServedAs(s, <<new>>)
  <2>1. <<new>> \in Seq(Comments)
    BY <1>6
  <2> QED BY <1>7, <2>1, AnsweredStep
<1>9. second <= last'[Viewer] /\ (sameSecond' \/ second > last[Viewer])
  <2>1. last'[Viewer] = second
    BY <1>1, <1>4, UserFacts
  <2>2. second = last[Viewer] \/ second > last[Viewer]
    BY <1>1, <1>3
  <2>3. second = last[Viewer] => sameSecond'
    BY <1>4
  <2> QED BY <1>3, <2>1, <2>2, <2>3
<1>10. PostedAs(s, second, new)
  <2>1. \E i \in 1 .. Len(comments') : comments'[i].id = new.id
    BY <1>5, <1>6
  <2> QED BY <1>6, <1>8, <1>9, <2>1, Zenon DEF PostedAs
<1> QED BY <1>3, <1>5, <1>6, <1>10

LEMMA ServeCommentsStep ==
    ASSUME EntryTypes, CallsOK, NEW s \in UnderWay, ServeComments(s)
    PROVE  /\ Keeps /\ UNCHANGED <<comments, likes, last, sameSecond>>
           /\ ServedAs(s, comments)
<1>1. UNCHANGED <<comments, likes, last, sameSecond>>
  BY DEF ServeComments
<1>2. LikesOnce(likes') /\ comments \in Seq(Comments)
  BY <1>1 DEF EntryTypes, LikesOnce
<1> QED BY <1>1, <1>2, KeepsSame, AnsweredStep DEF ServeComments

LEMMA ElsewhereStep ==
    ASSUME EntryTypes, events \in Nat, Elsewhere
    PROVE  /\ Keeps /\ calls' = calls /\ failed' = failed /\ events' \in Nat
           /\ LikeCommand(likes') = LikeCommand(likes)
<1>1. calls' = calls /\ failed' = failed /\ events' \in Nat
  BY DEF Elsewhere, Event
<1>2. LikesOnce(likes) /\ last \in [Users -> Nat]
  BY DEF EntryTypes, LikesOnce
<1>3. CASE FriendComments
  <2>1. last[Friend] + 1 \in Nat /\ last[Friend] + 1 >= last[Friend]
    BY <1>2, UserFacts
  <2>2. /\ last' = [last EXCEPT ![Friend] = last[Friend] + 1]
        /\ Comment([id |-> <<Friend, last[Friend] + 1>>, body |-> 0])
        /\ sameSecond' = sameSecond
    BY <1>3 DEF FriendComments
  <2>3. Keeps /\ likes' = likes
    BY <2>1, <2>2, UserFacts, KeepsComment
  <2> QED BY <1>1, <2>3
<1>4. CASE FriendUncomments
  <2>1. PICK k \in DOMAIN comments :
            comments[k].id[1] = Friend /\ DeleteComment(comments[k].id)
    BY <1>4 DEF FriendUncomments
  <2>2. last' = last /\ sameSecond' = sameSecond
    BY <1>4 DEF FriendUncomments
  <2> DEFINE id == comments[k].id
  <2>3. \A n \in Nat : id # <<Viewer, n>>
    BY <2>1, UserFacts
  <2>4. DeleteComment(id)
    BY <2>1
  <2> HIDE DEF id
  <2>5. /\ comments' \in Seq(Comments) /\ IdsOnce(comments')
        /\ \A i \in 1 .. Len(comments') :
               \E j \in 1 .. Len(comments) : comments'[i] = comments[j]
        /\ \A j \in 1 .. Len(comments) : comments[j].id # id =>
               \E i \in 1 .. Len(comments') : comments'[i] = comments[j]
        /\ likes' = likes
    BY <2>4, DeleteCommentStep
  <2>6. EntryTypes'
    BY <2>2, <2>5, <1>2 DEF EntryTypes, LikesOnce
  <2>7. PastOK => PastOK'
    BY <2>2, <2>5 DEF PastOK, Past
  <2>8. \A n \in Nat : (\E i \in 1 .. Len(comments) : comments[i].id = <<Viewer, n>>)
            => \E i \in 1 .. Len(comments') : comments'[i].id = <<Viewer, n>>
    BY <2>3, <2>5
  <2>9. last[Viewer] <= last'[Viewer]
    BY <2>2, <1>2, UserFacts
  <2>10. Keeps
    BY <2>2, <2>6, <2>7, <2>8, <2>9 DEF Keeps
  <2> QED BY <1>1, <2>5, <2>10
<1>5. CASE FriendLikes \/ FriendUnlikes
  <2>1. /\ LikesOnce(likes') /\ comments' = comments
        /\ Contains(likes', Viewer) <=> Contains(likes, Viewer)
    <3>1. CASE FriendLikes
      BY <3>1, UserFacts, LikeStep DEF FriendLikes
    <3>2. CASE FriendUnlikes
      BY <3>2, UserFacts, DeleteLikeStep DEF FriendUnlikes
    <3> QED BY <1>5, <3>1, <3>2
  <2>2. last' = last /\ sameSecond' = sameSecond
    BY <1>5 DEF FriendLikes, FriendUnlikes
  <2>3. LikeCommand(likes') = LikeCommand(likes)
    BY <2>1, LikeCommandIs
  <2> QED BY <1>1, <2>1, <2>2, <2>3, KeepsSame
<1>6. CASE Displaced
  BY <1>1, <1>2, <1>6, KeepsSame DEF Displaced
<1> QED BY <1>3, <1>4, <1>5, <1>6 DEF Elsewhere

LEMMA ServeClickStep ==
    ASSUME EntryTypes, CallsOK, NEW s \in Slots, ServeClick(s)
    PROVE  /\ s \in UnderWay /\ ~calls[s].served
           /\ Keeps /\ UNCHANGED <<failed, events, entryVars>>
           /\ \/ /\ calls[s].kind = "post" /\ likes' = likes
                 /\ \E second \in Nat, new \in Comments : PostedAs(s, second, new)
              \/ /\ calls[s].kind \in LikeCalls /\ LikeCommand(likes') # calls[s].kind
                 /\ UNCHANGED <<comments, last, sameSecond>>
                 /\ \E answer \in Seq(Likers) : ServedAs(s, answer)
              \/ /\ calls[s].kind = "expandComments"
                 /\ UNCHANGED <<comments, likes, last, sameSecond>>
                 /\ ServedAs(s, comments)
<1>1. s \in UnderWay /\ ~calls[s].served /\ UNCHANGED <<failed, events, entryVars>>
  BY DEF ServeClick
<1>2. CASE calls[s].kind = "post" /\ ServePost(s)
  BY <1>1, <1>2, ServePostStep
<1>3. CASE calls[s].kind \in LikeCalls /\ ServeLike(s)
  BY <1>1, <1>3, ServeLikeStep
<1>4. CASE calls[s].kind = "expandComments" /\ ServeComments(s)
  BY <1>1, <1>4, ServeCommentsStep
<1> QED BY <1>2, <1>3, <1>4 DEF ServeClick

LEMMA LoseStep ==
    ASSUME CallsOK, NEW s \in Slots, LoseClick(s), events \in Nat
    PROVE  /\ s \in UnderWay /\ failed' = TRUE /\ events' \in Nat
           /\ crossed' = (crossed \/ calls[s].kind \in LikeCalls)
           /\ UNCHANGED <<served, link, divs, form, overtaken, posted>>
           /\ \/ Puts(s, None)
              \/ /\ ~calls[s].served
                 /\ \E call \in Clicks :
                      /\ Puts(s, call) /\ call.kind = calls[s].kind
                      /\ call.lost /\ ~call.served
<1>1. /\ s \in UnderWay /\ failed' = TRUE /\ events' \in Nat
      /\ crossed' = (crossed \/ calls[s].kind \in LikeCalls)
      /\ UNCHANGED <<served, link, divs, form, overtaken, posted>>
  BY DEF LoseClick, Fail, Event
<1>2. calls[s] \in Clicks
  BY <1>1, UnderWayIs
<1>3. CASE End(s)
  BY <1>1, <1>3 DEF End, Puts
<1>4. CASE ~calls[s].served /\ calls' = [calls EXCEPT ![s].lost = TRUE]
  <2> DEFINE call == [calls[s] EXCEPT !.lost = TRUE]
  <2>1. /\ call \in Clicks /\ call.kind = calls[s].kind /\ call.lost
        /\ ~call.served
    BY <1>2, <1>4 DEF Clicks
  <2>2. Puts(s, call)
    BY <1>4 DEF Puts, CallsOK
  <2> HIDE DEF call
  <2> QED BY <1>1, <1>4, <2>1, <2>2
<1> QED BY <1>1, <1>3, <1>4 DEF LoseClick, Fail

-----------------------------------------------------------------------------
(* Types.                                                                  *)

\* a call that is lost is not answered; the answers are what the pages expect
CallOK(call) ==
    /\ call.lost => failed /\ ~call.served
    /\ call.served /\ call.kind = "post" =>
        \E second \in Nat, new \in Comments :
            new.id = <<Viewer, second>> /\ call.answer = <<new>>
    /\ call.served /\ call.kind = "expandComments" => call.answer \in Seq(Comments)

AnswersOK == \A s \in UnderWay : CallOK(calls[s])

TypeInv == EntryTypes /\ events \in Nat /\ PageTypeOK /\ AnswersOK

LEMMA AnswersStep ==
    ASSUME CallsOK, AnswersOK, failed => failed',
           NEW s \in Slots, NEW call \in Clicks \union {None}, Puts(s, call),
           call = None \/ CallOK(call)'
    PROVE  AnswersOK'
<1>1. CallsOK' /\ \A t \in Slots : calls'[t] = IF t = s THEN call ELSE calls[t]
  BY PutsStep
<1>2. ASSUME NEW t \in UnderWay'
      PROVE  CallOK(calls[t])'
  <2>1. t \in Slots /\ calls'[t] # None
    BY <1>2 DEF UnderWay
  <2>2. CASE t = s
    BY <1>1, <2>1, <2>2
  <2>3. CASE t # s
    <3>1. calls'[t] = calls[t] /\ t \in UnderWay
      BY <1>1, <2>1, <2>3 DEF UnderWay
    <3>2. CallOK(calls[t])
      BY <3>1 DEF AnswersOK
    <3> QED BY <3>1, <3>2 DEF CallOK
  <2> QED BY <2>2, <2>3
<1> QED BY <1>2 DEF AnswersOK

\* A form that waits for its post does so while other calls come and go.
FormOK == form \in Slots => failed \/ form \in OfKind({"post"})

LEMMA FormStep ==
    ASSUME CallsOK, FormOK, form' = form, failed => failed',
           NEW s \in Slots, NEW call \in Clicks \union {None}, Puts(s, call),
           \/ s \notin UnderWay \/ calls[s].kind # "post" \/ form # s \/ failed'
           \/ call # None /\ call.kind = calls[s].kind
    PROVE  FormOK'
<1>1. CallsOK' /\ \A t \in Slots : calls'[t] = IF t = s THEN call ELSE calls[t]
  BY PutsStep
<1> QED BY <1>1, UnderWayIs DEF FormOK, OfKind, UnderWay

IdSeqs == Seq(CommentIds \union {Placeholder})

LEMMA IdsType ==
    ASSUME NEW cs \in Seq(Comments)
    PROVE  Ids(cs) \in IdSeqs /\ Len(Ids(cs)) = Len(cs)
           /\ \A i \in 1 .. Len(cs) : Ids(cs)[i] = cs[i].id
<1>1. /\ DOMAIN cs = 1 .. Len(cs) /\ Len(cs) \in Nat
      /\ \A i \in 1 .. Len(cs) : cs[i].id \in CommentIds \union {Placeholder}
  BY IdFacts
<1>2. Ids(cs) = [i \in 1 .. Len(cs) |-> cs[i].id]
  BY <1>1 DEF Ids
<1> HIDE DEF Ids
<1> QED BY <1>1, <1>2 DEF IdSeqs

LEMMA FormatCommentsType ==
    ASSUME NEW cs \in Seq(Comments)
    PROVE  /\ FormatComments(cs) \in Seq(Comments)
           /\ \A i \in 1 .. Len(FormatComments(cs)) :
                  \/ FormatComments(cs)[i].id = Placeholder
                  \/ \E j \in 1 .. Len(cs) : FormatComments(cs)[i] = cs[j]
<1>1. CASE Len(cs) > Limit
  <2> DEFINE more == [id |-> Placeholder, body |-> 0]
  <2>1. more \in Comments /\ more.id = Placeholder
    BY IdFacts
  <2>2. FormatComments(cs) = <<cs[1], more, cs[Len(cs)]>>
    BY <1>1 DEF FormatComments
  <2> HIDE DEF more
  <2>3. 1 \in 1 .. Len(cs) /\ Len(cs) \in 1 .. Len(cs)
    BY <1>1, EntryAssumption
  <2>4. cs[1] \in Comments /\ cs[Len(cs)] \in Comments
    BY <2>3
  <2> QED BY <2>1, <2>2, <2>3, <2>4
<1>2. CASE ~(Len(cs) > Limit)
  BY <1>2 DEF FormatComments
<1> QED BY <1>1, <1>2

LEMMA EntryInit ==
    ASSUME PageInit
    PROVE  /\ EntryTypes /\ PastOK /\ events \in Nat /\ UnderWay = {} /\ CallsOK
           /\ \A i \in 1 .. Len(comments), n \in Nat : comments[i].id # <<Viewer, n>>
<1>1. PICK n \in Earlier :
        /\ comments = [i \in 1 .. n |-> [id |-> <<Friend, i>>, body |-> 0]]
        /\ last = [u \in Users |-> IF u = Friend THEN n ELSE 0]
  BY DEF PageInit, WebInit
<1>2. n \in Nat
  BY <1>1, EntryAssumption
<1>3. \A i \in 1 .. n : [id |-> <<Friend, i>>, body |-> 0] \in Comments
  BY <1>2, UserFacts, IdFacts
<1>4. /\ comments \in Seq(Comments) /\ Len(comments) = n
      /\ \A i \in 1 .. n : comments[i].id = <<Friend, i>>
  BY <1>1, <1>2, <1>3
<1>5. IdsOnce(comments) /\ \A i \in 1 .. Len(comments), m \in Nat : comments[i].id # <<Viewer, m>>
  BY <1>4, UserFacts DEF IdsOnce
<1>6. last \in [Users -> Nat]
  BY <1>1, <1>2
<1>7. /\ likes \in Seq(Users)
      /\ \A i, j \in 1 .. Len(likes) : likes[i] = likes[j] => i = j
  <2>1. likes = Fans /\ Fans \in Seq(Range(Fans) \ {Viewer, Friend}) /\ IsInjective(Fans)
    BY EntryAssumption DEF PageInit, WebInit
  <2>2. Range(Fans) \ {Viewer, Friend} \subseteq Users
    BY DEF Users
  <2> DEFINE R == Range(Fans) \ {Viewer, Friend}
  <2> HIDE DEF R
  <2>3. Fans \in Seq(R) /\ R \subseteq Users
    BY <2>1, <2>2 DEF R
  <2>4. Fans \in Seq(Users) /\ DOMAIN Fans = 1 .. Len(Fans)
    BY <2>3
  <2> QED BY <2>1, <2>4 DEF IsInjective
<1>8. events \in Nat /\ UnderWay = {} /\ CallsOK
  BY DEF PageInit, WebInit, UnderWay, CallsOK
<1> QED BY <1>4, <1>5, <1>6, <1>7, <1>8 DEF EntryTypes, PastOK, Past

LEMMA TypesInit == PageInit => TypeInv
<1> SUFFICES ASSUME PageInit PROVE TypeInv
  OBVIOUS
<1>1. EntryTypes /\ events \in Nat /\ UnderWay = {} /\ CallsOK
  BY EntryInit
<1>2. link \in LikeCalls
  BY LikeCommandIs DEF PageInit
<1>3. divs \in Seq(CommentIds \union {Placeholder})
  BY <1>1, IdsType, FormatCommentsType DEF PageInit, IdSeqs, EntryTypes
<1>4. form = None /\ None \notin Slots
  BY EntryAssumption DEF PageInit, Slots
<1>5. crossed = FALSE /\ overtaken = FALSE /\ posted = {}
  BY DEF PageInit
<1> QED BY <1>1, <1>2, <1>3, <1>4, <1>5 DEF TypeInv, PageTypeOK, AnswersOK, CallsOK

\* The slot a new call takes.
SentIn(s, call, kind) ==
    /\ s \notin UnderWay
    /\ Puts(s, call)
    /\ call.kind = kind /\ ~call.served /\ ~call.lost
    /\ calls'[s] = call
    /\ \A t \in Slots : t # s => calls'[t] = calls[t]

\* What a step that sends a call keeps.
LEMMA TypesSend ==
    ASSUME TypeInv, NEW kind \in LikeCalls \union {"post", "expandComments"},
           Send(NewClick(kind))
    PROVE  /\ EntryTypes' /\ events' \in Nat /\ CallsOK' /\ AnswersOK'
           /\ UNCHANGED <<comments, likes, listed, last, sameSecond, failed>>
           /\ \E s \in Slots, call \in Clicks : SentIn(s, call, kind)
           /\ form' = form => FormOK'
<1>1. EntryTypes /\ events \in Nat /\ CallsOK /\ AnswersOK /\ FormOK
  BY DEF TypeInv, PageTypeOK, CallsOK, FormOK
<1>2. PICK call \in Clicks : call = NewClick(kind)
  BY <1>1, NewClickIs
<1>3. call \in Clicks /\ call.kind = kind /\ ~call.served /\ ~call.lost
  BY <1>1, <1>2, NewClickIs
<1>4. Send(call)
  BY <1>2 DEF Send
<1>5. PICK s \in Slots : s \notin UnderWay /\ Puts(s, call)
  BY <1>4, SendStep
<1>6. UNCHANGED <<comments, likes, listed, last, sameSecond, failed>> /\ events' = events + 1
  BY <1>4, SendStep
<1>7. EntryTypes' /\ events' \in Nat
  BY <1>1, <1>6 DEF EntryTypes
<1>8. CallOK(call)'
  BY <1>3 DEF CallOK
<1>9. AnswersOK'
  BY <1>1, <1>3, <1>5, <1>6, <1>8, AnswersStep
<1>10. CallsOK' /\ \A t \in Slots : calls'[t] = IF t = s THEN call ELSE calls[t]
  BY <1>1, <1>3, <1>5, PutsStep
<1>11. form' = form => FormOK'
  BY <1>1, <1>3, <1>5, <1>6, FormStep
<1>12. SentIn(s, call, kind)
  BY <1>3, <1>5, <1>10 DEF SentIn
<1> QED BY <1>3, <1>5, <1>6, <1>7, <1>9, <1>10, <1>11, <1>12

\* And one that ends a call or gives it an answer.
LEMMA TypesPut ==
    ASSUME TypeInv, EntryTypes', events' \in Nat, failed => failed',
           NEW s \in Slots, NEW call \in Clicks \union {None}, Puts(s, call),
           call = None \/ CallOK(call)', FormOK',
           UNCHANGED <<link, divs, crossed, overtaken, posted>>,
           form' = form
    PROVE  TypeInv'
<1>1. CallsOK /\ AnswersOK /\ PageTypeOK
  BY DEF TypeInv, PageTypeOK, CallsOK
<1>2. CallsOK' /\ AnswersOK'
  BY <1>1, PutsStep, AnswersStep
<1> QED BY <1>1, <1>2 DEF TypeInv, PageTypeOK, CallsOK, FormOK

LEMMA TypesServe ==
    ASSUME TypeInv, NEW s \in Slots, ServeClick(s)
    PROVE  TypeInv'
<1>1. EntryTypes /\ events \in Nat /\ CallsOK /\ AnswersOK /\ FormOK
  BY DEF TypeInv, PageTypeOK, CallsOK, FormOK
<1>2. /\ s \in UnderWay /\ Keeps /\ UNCHANGED <<failed, events, entryVars>>
  BY <1>1, ServeClickStep
<1>3. EntryTypes' /\ events' \in Nat
  BY <1>1, <1>2 DEF Keeps
<1>4. calls[s] \in Clicks /\ (calls[s].lost => failed')
  BY <1>1, <1>2, UnderWayIs DEF AnswersOK, CallOK
<1>5. CASE calls[s].lost /\ Puts(s, None)
  <2>1. FormOK'
    BY <1>1, <1>2, <1>4, <1>5, FormStep
  <2> QED BY <1>2, <1>3, <1>5, <2>1, TypesPut
<1>6. ASSUME NEW call \in Clicks, Puts(s, call), call.kind = calls[s].kind, ~call.lost,
             call.kind = "post" => \E second \in Nat, new \in Comments :
                     new.id = <<Viewer, second>> /\ call.answer = <<new>>,
             call.kind = "expandComments" => call.answer \in Seq(Comments)
      PROVE  TypeInv'
  <2>1. call # None
    BY ClickAssumption
  <2>2. FormOK'
    BY <1>1, <1>2, <1>6, <2>1, FormStep
  <2>3. CallOK(call)'
    BY <1>6 DEF CallOK
  <2> QED BY <1>2, <1>3, <1>6, <2>2, <2>3, TypesPut
<1>7. CASE \E second \in Nat, new \in Comments : calls[s].kind = "post" /\ PostedAs(s, second, new)
  <2>1. PICK second \in Nat, new \in Comments : calls[s].kind = "post" /\ PostedAs(s, second, new)
    BY <1>7
  <2>2. new.id = <<Viewer, second>> /\ ServedAs(s, <<new>>)
    BY <2>1 DEF PostedAs
  <2> QED BY <1>5, <1>6, <2>1, <2>2 DEF ServedAs
<1>8. CASE calls[s].kind \in LikeCalls /\ \E answer \in Seq(Likers) : ServedAs(s, answer)
  <2>1. PICK answer \in Seq(Likers) : ServedAs(s, answer)
    BY <1>8
  <2>2. calls[s].kind # "post" /\ calls[s].kind # "expandComments"
    BY <1>8 DEF LikeCalls
  <2> QED BY <1>5, <1>6, <2>1, <2>2 DEF ServedAs
<1>9. CASE calls[s].kind = "expandComments" /\ ServedAs(s, comments)
  <2>1. comments \in Seq(Comments)
    BY <1>1 DEF EntryTypes
  <2> QED BY <1>5, <1>6, <1>9, <2>1 DEF ServedAs
<1> QED BY <1>1, <1>7, <1>8, <1>9, ServeClickStep

LEMMA TypesLose ==
    ASSUME TypeInv, NEW s \in Slots, LoseClick(s)
    PROVE  TypeInv'
<1>1. EntryTypes /\ events \in Nat /\ CallsOK /\ AnswersOK /\ PageTypeOK
  BY DEF TypeInv, PageTypeOK, CallsOK
<1>2. /\ s \in UnderWay /\ failed' = TRUE /\ events' \in Nat
      /\ crossed' = (crossed \/ calls[s].kind \in LikeCalls)
      /\ UNCHANGED <<served, link, divs, form, overtaken, posted>>
      /\ \/ Puts(s, None)
         \/ /\ ~calls[s].served
            /\ \E call \in Clicks :
                 /\ Puts(s, call) /\ call.kind = calls[s].kind
                 /\ call.lost /\ ~call.served
  BY <1>1, LoseStep
<1>3. AnswersOK' /\ CallsOK'
  <2>1. ASSUME NEW call \in Clicks \union {None}, Puts(s, call), call = None \/ CallOK(call)'
        PROVE  AnswersOK' /\ CallsOK'
    BY <1>1, <1>2, <2>1, AnswersStep, PutsStep
  <2>2. CASE Puts(s, None)
    BY <2>1, <2>2
  <2>3. CASE \E call \in Clicks : Puts(s, call) /\ call.lost /\ ~call.served
    <3>1. PICK call \in Clicks : Puts(s, call) /\ call.lost /\ ~call.served
      BY <2>3
    <3>2. CallOK(call)'
      BY <1>2, <3>1 DEF CallOK
    <3> QED BY <2>1, <3>1, <3>2
  <2> QED BY <1>2, <2>2, <2>3
<1>4. EntryTypes' /\ crossed' \in BOOLEAN
  BY <1>1, <1>2 DEF EntryTypes, PageTypeOK
<1> QED BY <1>1, <1>2, <1>3, <1>4 DEF TypeInv, PageTypeOK, CallsOK

LEMMA TypesAnswer ==
    ASSUME TypeInv, NEW s \in Slots, AnswerClick(s)
    PROVE  TypeInv'
<1>1. EntryTypes /\ events \in Nat /\ CallsOK /\ AnswersOK /\ PageTypeOK /\ FormOK
  BY DEF TypeInv, PageTypeOK, CallsOK, FormOK
<1>2. /\ s \in UnderWay /\ calls[s].served /\ Puts(s, None)
      /\ UNCHANGED <<served, failed, events>>
  BY DEF AnswerClick, End, Puts
<1>3. /\ EntryTypes' /\ events' \in Nat /\ CallsOK' /\ AnswersOK'
  BY <1>1, <1>2, PutsStep, AnswersStep DEF EntryTypes
<1>4. CallOK(calls[s])
  BY <1>1, <1>2 DEF AnswersOK
<1>5. CASE AppendComment(s)
  <2>1. /\ calls[s].kind = "post" /\ form' = IF form = s THEN None ELSE form
        /\ divs' = divs \o Ids(calls[s].answer)
        /\ posted' = posted \union {calls[s].answer[1].id}
        /\ UNCHANGED <<link, crossed, overtaken>>
    BY <1>5 DEF AppendComment
  <2>2. PICK second \in Nat, new \in Comments :
            new.id = <<Viewer, second>> /\ calls[s].answer = <<new>>
    BY <1>2, <1>4, <2>1 DEF CallOK
  <2>3. calls[s].answer \in Seq(Comments) /\ calls[s].answer[1].id \in CommentIds
    <3>1. <<new>> \in Seq(Comments) /\ <<new>>[1] = new
      OBVIOUS
    <3>2. new.id \in CommentIds
      BY <2>2, UserFacts, IdFacts
    <3> QED BY <2>2, <3>1, <3>2
  <2>4. divs' \in Seq(CommentIds \union {Placeholder})
    <3>1. Ids(calls[s].answer) \in IdSeqs
      BY <2>3, IdsType
    <3>2. divs \in IdSeqs
      BY <1>1 DEF PageTypeOK, IdSeqs
    <3> QED BY <2>1, <3>1, <3>2 DEF IdSeqs
  <2>5. FormOK'
    <3>1. CASE form = s
      BY <2>1, <3>1, EntryAssumption DEF FormOK, Slots
    <3>2. CASE form # s
      BY <1>1, <1>2, <2>1, <3>2, FormStep
    <3> QED BY <3>1, <3>2
  <2>6. posted' \subseteq CommentIds
    BY <1>1, <2>1, <2>3 DEF PageTypeOK
  <2> QED BY <1>1, <1>3, <2>1, <2>4, <2>5, <2>6 DEF TypeInv, PageTypeOK, CallsOK, FormOK
<1>6. CASE ToggleLink(s)
  <2>1. /\ link' \in LikeCalls /\ UNCHANGED <<divs, form, crossed, overtaken, posted>>
        /\ calls[s].kind # "post"
    BY <1>6 DEF ToggleLink, LikeCalls
  <2>2. FormOK'
    BY <1>1, <1>2, <2>1, FormStep
  <2> QED BY <1>1, <1>3, <2>1, <2>2 DEF TypeInv, PageTypeOK, CallsOK, FormOK
<1>7. CASE ReplaceComments(s)
  <2>1. /\ calls[s].kind = "expandComments" /\ form' = None
        /\ divs' = Ids(calls[s].answer)
        /\ UNCHANGED <<link, crossed, overtaken, posted>>
    BY <1>7 DEF ReplaceComments
  <2>2. calls[s].answer \in Seq(Comments)
    BY <1>2, <1>4, <2>1 DEF CallOK
  <2>3. divs' \in Seq(CommentIds \union {Placeholder})
    BY <2>1, <2>2, IdsType DEF IdSeqs
  <2>4. FormOK'
    BY <2>1, EntryAssumption DEF FormOK, Slots
  <2> QED BY <1>1, <1>3, <2>1, <2>3, <2>4 DEF TypeInv, PageTypeOK, CallsOK, FormOK
<1> QED BY <1>5, <1>6, <1>7 DEF AnswerClick

LEMMA TypesStep == TypeInv /\ [PageNext]_pageVars => TypeInv'
<1> SUFFICES ASSUME TypeInv, [PageNext]_pageVars PROVE TypeInv'
  OBVIOUS
<1>1. EntryTypes /\ events \in Nat /\ CallsOK /\ AnswersOK /\ PageTypeOK /\ FormOK
  BY DEF TypeInv, PageTypeOK, CallsOK, FormOK
<1>2. CASE ClickComment
  <2>1. form' = Open /\ UNCHANGED <<webVars, link, divs, crossed, overtaken, posted>>
    BY <1>2 DEF ClickComment
  <2>2. FormOK'
    BY <2>1 DEF FormOK, Open, Slots
  <2>3. EntryTypes' /\ AnswersOK'
    BY <1>1, <2>1 DEF EntryTypes, AnswersOK, CallOK, UnderWay
  <2> QED BY <1>1, <2>1, <2>2, <2>3 DEF TypeInv, PageTypeOK, FormOK
<1>3. CASE SubmitForm
  <2>1. /\ Send(NewClick("post")) /\ form' \in Slots /\ calls[form'] # calls'[form']
        /\ overtaken' = (overtaken \/ OfKind({"expandComments"}) # {})
        /\ UNCHANGED <<link, divs, crossed, posted>>
    BY <1>3 DEF SubmitForm
  <2>2. /\ EntryTypes' /\ events' \in Nat /\ CallsOK' /\ AnswersOK'
        /\ \E s \in Slots, call \in Clicks : SentIn(s, call, "post")
    BY <2>1, TypesSend
  <2>3. PICK s \in Slots, call \in Clicks : SentIn(s, call, "post")
    BY <2>2
  <2>4. form' = s /\ calls'[s] = call /\ call.kind = "post" /\ call # None
    BY <2>1, <2>3, ClickAssumption DEF SentIn
  <2>5. FormOK'
    BY <2>1, <2>4 DEF FormOK, OfKind, UnderWay
  <2> QED BY <1>1, <2>1, <2>2, <2>5 DEF TypeInv, PageTypeOK, CallsOK, FormOK
<1>4. CASE ClickLink
  <2>1. /\ Send(NewClick(link)) /\ crossed' \in BOOLEAN
        /\ UNCHANGED <<link, divs, form, overtaken, posted>>
    BY <1>1, <1>4 DEF ClickLink, PageTypeOK
  <2>2. /\ EntryTypes' /\ events' \in Nat /\ CallsOK' /\ AnswersOK' /\ FormOK'
    BY <1>1, <2>1, TypesSend DEF PageTypeOK
  <2> QED BY <1>1, <2>1, <2>2 DEF TypeInv, PageTypeOK, CallsOK, FormOK
<1>5. CASE ClickExpand
  <2>1. /\ Send(NewClick("expandComments"))
        /\ overtaken' = (overtaken \/ OfKind({"post"}) # {})
        /\ UNCHANGED <<link, divs, form, crossed, posted>>
    BY <1>5 DEF ClickExpand
  <2>2. /\ EntryTypes' /\ events' \in Nat /\ CallsOK' /\ AnswersOK' /\ FormOK'
    BY <2>1, TypesSend
  <2> QED BY <1>1, <2>1, <2>2 DEF TypeInv, PageTypeOK, CallsOK, FormOK
<1>6. CASE \E s \in Slots : ServeClick(s) \/ AnswerClick(s) \/ LoseClick(s)
  BY <1>6, TypesServe, TypesAnswer, TypesLose
<1>7. CASE Elsewhere /\ UNCHANGED entryVars
  <2>1. Keeps /\ calls' = calls /\ failed' = failed /\ events' \in Nat
    BY <1>1, <1>7, ElsewhereStep
  <2>2. EntryTypes' /\ AnswersOK' /\ FormOK'
    BY <1>1, <1>7, <2>1 DEF Keeps, AnswersOK, CallOK, UnderWay, FormOK, OfKind
  <2> QED BY <1>1, <1>7, <2>1, <2>2 DEF TypeInv, PageTypeOK, FormOK
<1>8. CASE UNCHANGED pageVars
  BY <1>1, <1>8 DEF TypeInv, EntryTypes, PageTypeOK, AnswersOK, CallOK, UnderWay, OfKind
<1> QED BY <1>2, <1>3, <1>4, <1>5, <1>6, <1>7, <1>8 DEF PageNext

\* The types; and a disabled form waits for its own post, unless a call was lost.
THEOREM PageTypes == PageSpec => []PageTypeOK
<1>1. TypeInv => PageTypeOK
  BY DEF TypeInv
<1> QED BY <1>1, TypesInit, TypesStep, PTL DEF PageSpec

-----------------------------------------------------------------------------
(* The link.  Unless calls crossed, those under way are all likes or all   *)
(* unlikes; once one of them was served the server has it so, and the      *)
(* link already shows another command than theirs only in that case.       *)

LinkInv ==
    ~crossed =>
        /\ \A s, t \in OfKind(LikeCalls) : calls[s].kind = calls[t].kind
        /\ \A s \in OfKind(LikeCalls) : ~calls[s].lost
        /\ OfKind(LikeCalls) = {} => link = LikeCommand(likes)
        /\ \A s \in OfKind(LikeCalls) : calls[s].served \/ link # calls[s].kind =>
                LikeCommand(likes) # calls[s].kind

LEMMA OfKindIs ==
    ASSUME CallsOK, NEW kinds
    PROVE  \A s : s \in OfKind(kinds) <=>
                    s \in Slots /\ calls[s] # None /\ calls[s].kind \in kinds
BY DEF OfKind, UnderWay

\* The calls of some kinds, when one call is put in a slot.
LEMMA OfKindStep ==
    ASSUME CallsOK, NEW s \in Slots, NEW call \in Clicks \union {None}, Puts(s, call),
           NEW kinds
    PROVE  /\ \A t \in Slots : t # s => (t \in OfKind(kinds)' <=> t \in OfKind(kinds))
           /\ s \in OfKind(kinds)' <=> call # None /\ call.kind \in kinds
           /\ \A t \in Slots : t # s => calls'[t] = calls[t]
           /\ calls'[s] = call
           /\ \A t \in OfKind(kinds)' : t \in Slots
           /\ \A t \in OfKind(kinds) : t \in Slots
<1>1. CallsOK' /\ \A t \in Slots : calls'[t] = IF t = s THEN call ELSE calls[t]
  BY PutsStep
<1> QED BY <1>1 DEF OfKind, UnderWay

\* Calls that like nothing come and go.
LEMMA LinkOthers ==
    ASSUME LinkInv, CallsOK, NEW s \in Slots, NEW call \in Clicks \union {None},
           Puts(s, call), s \notin OfKind(LikeCalls),
           call = None \/ call.kind \notin LikeCalls,
           link' = link, crossed' = crossed, LikeCommand(likes') = LikeCommand(likes)
    PROVE  LinkInv'
<1>1. /\ \A t \in Slots : t # s => (t \in OfKind(LikeCalls)' <=> t \in OfKind(LikeCalls))
      /\ s \notin OfKind(LikeCalls)'
      /\ \A t \in Slots : t # s => calls'[t] = calls[t]
      /\ \A t \in OfKind(LikeCalls)' : t \in Slots
      /\ \A t \in OfKind(LikeCalls) : t \in Slots
  BY OfKindStep
<1>2. OfKind(LikeCalls)' = OfKind(LikeCalls) /\ \A t \in OfKind(LikeCalls) : calls'[t] = calls[t]
  BY <1>1
<1> QED BY <1>2 DEF LinkInv

LEMMA LinkInit == PageInit => LinkInv
<1> SUFFICES ASSUME PageInit PROVE LinkInv
  OBVIOUS
<1>1. OfKind(LikeCalls) = {} /\ link = LikeCommand(likes)
  BY EntryInit DEF OfKind, PageInit
<1> QED BY <1>1 DEF LinkInv

LEMMA LinkServe ==
    ASSUME TypeInv, LinkInv, NEW s \in Slots, ServeClick(s)
    PROVE  LinkInv'
<1>1. EntryTypes /\ CallsOK /\ UNCHANGED <<failed, events, entryVars>> /\ s \in UnderWay
  BY ServeClickStep DEF TypeInv, PageTypeOK, CallsOK
<1>2. CASE calls[s].kind \notin LikeCalls
  <2>1. likes' = likes /\ \E answer : ServedAs(s, answer)
    <3>1. calls[s].kind # "post" => calls[s].kind = "expandComments" /\ ServedAs(s, comments) /\ likes' = likes
      BY <1>1, <1>2, ServeClickStep
    <3>2. calls[s].kind = "post" => likes' = likes /\ \E second \in Nat, new \in Comments : PostedAs(s, second, new)
      BY <1>1, <1>2, ServeClickStep
    <3> QED BY <3>1, <3>2 DEF PostedAs
  <2>2. \E call \in Clicks \union {None} :
            Puts(s, call) /\ (call = None \/ call.kind = calls[s].kind)
    BY <2>1 DEF ServedAs
  <2>3. s \notin OfKind(LikeCalls)
    BY <1>2 DEF OfKind
  <2> QED BY <1>1, <1>2, <2>1, <2>2, <2>3, LinkOthers
<1>3. CASE calls[s].kind \in LikeCalls
  <2>1. /\ LikeCommand(likes') # calls[s].kind
        /\ \E answer \in Seq(Likers) : ServedAs(s, answer)
    BY <1>1, <1>3, ServeClickStep DEF LikeCalls
  <2>2. s \in OfKind(LikeCalls)
    BY <1>1, <1>3 DEF OfKind
  <2> SUFFICES ASSUME ~crossed' PROVE LinkInv'
    BY DEF LinkInv
  <2>3. /\ \A t \in OfKind(LikeCalls) : calls[t].kind = calls[s].kind /\ ~calls[t].lost
    BY <1>1, <2>2 DEF LinkInv
  <2>4. PICK call \in Clicks : Puts(s, call) /\ call.kind = calls[s].kind /\ call.served /\ ~call.lost
    BY <2>1, <2>2, <2>3 DEF ServedAs
  <2>5. call # None
    BY ClickAssumption
  <2>6. /\ \A t \in Slots : t # s => (t \in OfKind(LikeCalls)' <=> t \in OfKind(LikeCalls))
        /\ s \in OfKind(LikeCalls)'
        /\ \A t \in Slots : t # s => calls'[t] = calls[t]
        /\ calls'[s] = call
        /\ \A t \in OfKind(LikeCalls)' : t \in Slots
    BY <1>1, <1>3, <2>4, <2>5, OfKindStep
  <2>7. \A t \in OfKind(LikeCalls)' : calls'[t].kind = calls[s].kind /\ ~calls'[t].lost
    BY <2>3, <2>4, <2>6
  <2> QED BY <2>1, <2>6, <2>7 DEF LinkInv
<1> QED BY <1>2, <1>3

LEMMA LinkAnswer ==
    ASSUME TypeInv, LinkInv, NEW s \in Slots, AnswerClick(s)
    PROVE  LinkInv'
<1>1. /\ EntryTypes /\ CallsOK /\ s \in UnderWay /\ calls[s].served /\ Puts(s, None)
      /\ UNCHANGED served
  BY DEF TypeInv, PageTypeOK, CallsOK, AnswerClick, End, Puts
<1>2. CASE AppendComment(s) \/ ReplaceComments(s)
  <2>1. s \notin OfKind(LikeCalls) /\ link' = link /\ crossed' = crossed
    BY <1>2 DEF AppendComment, ReplaceComments, OfKind, LikeCalls
  <2>2. LikeCommand(likes') = LikeCommand(likes)
    BY <1>1
  <2> QED BY <1>1, <2>1, <2>2, LinkOthers
<1>3. CASE ToggleLink(s)
  <2>1. /\ calls[s].kind \in LikeCalls /\ crossed' = crossed
        /\ link' = IF calls[s].kind = "like" THEN "unlike" ELSE "like"
    BY <1>3 DEF ToggleLink
  <2>2. s \in OfKind(LikeCalls)
    BY <1>1, <2>1 DEF OfKind
  <2> SUFFICES ASSUME ~crossed' PROVE LinkInv'
    BY DEF LinkInv
  <2>3. /\ \A t \in OfKind(LikeCalls) : calls[t].kind = calls[s].kind /\ ~calls[t].lost
        /\ LikeCommand(likes) # calls[s].kind
    BY <1>1, <2>1, <2>2 DEF LinkInv
  <2>4. /\ \A t \in Slots : t # s => (t \in OfKind(LikeCalls)' <=> t \in OfKind(LikeCalls))
        /\ s \notin OfKind(LikeCalls)'
        /\ \A t \in Slots : t # s => calls'[t] = calls[t]
        /\ \A t \in OfKind(LikeCalls)' : t \in Slots
    BY <1>1, OfKindStep
  <2>5. \A t \in OfKind(LikeCalls)' : calls'[t].kind = calls[s].kind /\ ~calls'[t].lost
    BY <2>3, <2>4
  <2>6. link' = LikeCommand(likes) /\ LikeCommand(likes') = LikeCommand(likes)
    BY <1>1, <2>1, <2>3, LikeCommandIs DEF LikeCalls
  <2>7. \A t \in OfKind(LikeCalls)' : LikeCommand(likes') # calls'[t].kind
    BY <2>3, <2>5, <2>6
  <2> QED BY <2>5, <2>6, <2>7 DEF LinkInv
<1> QED BY <1>2, <1>3 DEF AnswerClick

LEMMA LinkLose ==
    ASSUME TypeInv, LinkInv, NEW s \in Slots, LoseClick(s)
    PROVE  LinkInv'
<1>1. /\ EntryTypes /\ CallsOK /\ events \in Nat /\ crossed \in BOOLEAN
  BY DEF TypeInv, PageTypeOK, CallsOK
<1>2. /\ s \in UnderWay
      /\ crossed' = (crossed \/ calls[s].kind \in LikeCalls)
      /\ UNCHANGED <<served, link, divs, form, overtaken, posted>>
      /\ \E call \in Clicks \union {None} :
            Puts(s, call) /\ (call = None \/ call.kind = calls[s].kind)
  BY <1>1, LoseStep
<1>3. CASE calls[s].kind \in LikeCalls
  BY <1>2, <1>3 DEF LinkInv
<1>4. CASE calls[s].kind \notin LikeCalls
  <2>1. s \notin OfKind(LikeCalls) /\ link' = link /\ LikeCommand(likes') = LikeCommand(likes)
    BY <1>2, <1>4 DEF OfKind
  <2>2. CASE crossed
    BY <1>2, <2>2 DEF LinkInv
  <2>3. CASE crossed' = crossed
    BY <1>1, <1>2, <1>4, <2>1, <2>3, LinkOthers
  <2>4. crossed \/ crossed' = crossed
    BY <1>1, <1>2, <1>4
  <2> QED BY <2>2, <2>3, <2>4
<1> QED BY <1>3, <1>4

LEMMA LinkSend ==
    ASSUME TypeInv, LinkInv, NEW kind \in {"post", "expandComments"}, Send(NewClick(kind)),
           link' = link, crossed' = crossed
    PROVE  LinkInv'
<1>1. CallsOK /\ kind \in LikeCalls \union {"post", "expandComments"} /\ kind \notin LikeCalls
  BY DEF TypeInv, PageTypeOK, CallsOK, LikeCalls
<1>2. /\ likes' = likes
      /\ \E s \in Slots, call \in Clicks : SentIn(s, call, kind)
  BY <1>1, TypesSend
<1>3. PICK s \in Slots, call \in Clicks : SentIn(s, call, kind)
  BY <1>2
<1>4. Puts(s, call) /\ call.kind = kind /\ s \notin OfKind(LikeCalls)
  BY <1>3 DEF SentIn, OfKind
<1>5. LikeCommand(likes') = LikeCommand(likes)
  BY <1>2
<1> QED BY <1>1, <1>4, <1>5, LinkOthers

LEMMA LinkClick ==
    ASSUME TypeInv, LinkInv, ClickLink
    PROVE  LinkInv'
<1>1. CallsOK /\ link \in LikeCalls
  BY DEF TypeInv, PageTypeOK, CallsOK
<1>2. /\ Send(NewClick(link))
      /\ crossed' = (OfKind(LikeCalls) # {} /\ (crossed \/ OfKind(LikeCalls \ {link}) # {}))
      /\ link' = link
  BY DEF ClickLink
<1>3. PICK s \in Slots, call \in Clicks : SentIn(s, call, link)
  BY <1>1, <1>2, TypesSend
<1>4. /\ s \notin UnderWay /\ Puts(s, call) /\ call.kind = link /\ call # None
      /\ ~call.served /\ ~call.lost
  BY <1>3, ClickAssumption DEF SentIn
<1>5. /\ \A t \in Slots : t # s => (t \in OfKind(LikeCalls)' <=> t \in OfKind(LikeCalls))
      /\ s \in OfKind(LikeCalls)'
      /\ \A t \in Slots : t # s => calls'[t] = calls[t]
      /\ calls'[s] = call
      /\ \A t \in OfKind(LikeCalls)' : t \in Slots
  BY <1>1, <1>4, OfKindStep
<1>6. likes' = likes
  BY <1>1, <1>2, TypesSend
<1> SUFFICES ASSUME ~crossed' PROVE LinkInv'
  BY DEF LinkInv
<1>7. CASE OfKind(LikeCalls) = {}
  <2>1. \A t \in OfKind(LikeCalls)' : t = s
    BY <1>5, <1>7
  <2> QED BY <1>2, <1>4, <1>5, <2>1 DEF LinkInv
<1>8. CASE OfKind(LikeCalls) # {}
  <2>1. ~crossed /\ OfKind(LikeCalls \ {link}) = {}
    BY <1>2, <1>8
  <2>2. \A t \in OfKind(LikeCalls) : calls[t].kind = link
    BY <2>1 DEF OfKind
  <2>3. \A t \in OfKind(LikeCalls)' : t # s => t \in OfKind(LikeCalls) /\ calls'[t] = calls[t]
    BY <1>5
  <2>4. \A t \in OfKind(LikeCalls)' : calls'[t].kind = link /\ ~calls'[t].lost
    BY <1>4, <1>5, <2>1, <2>2, <2>3 DEF LinkInv
  <2>5. \A t \in OfKind(LikeCalls)' : calls'[t].served => LikeCommand(likes') # calls'[t].kind
    BY <1>4, <1>5, <1>6, <2>1, <2>3 DEF LinkInv
  <2> QED BY <1>2, <1>5, <2>4, <2>5 DEF LinkInv
<1> QED BY <1>7, <1>8

LEMMA LinkStep == TypeInv /\ LinkInv /\ [PageNext]_pageVars => LinkInv'
<1> SUFFICES ASSUME TypeInv, LinkInv, [PageNext]_pageVars PROVE LinkInv'
  OBVIOUS
<1>1. CASE ClickComment \/ UNCHANGED pageVars
  BY <1>1 DEF ClickComment, LinkInv, OfKind, UnderWay
<1>2. CASE SubmitForm
  BY <1>2, LinkSend DEF SubmitForm
<1>3. CASE ClickExpand
  BY <1>3, LinkSend DEF ClickExpand
<1>4. CASE Elsewhere /\ UNCHANGED entryVars
  <2>1. calls' = calls /\ LikeCommand(likes') = LikeCommand(likes)
    BY <1>4, ElsewhereStep DEF TypeInv
  <2> QED BY <1>4, <2>1 DEF LinkInv, OfKind, UnderWay
<1> QED BY <1>1, <1>2, <1>3, <1>4, LinkClick, LinkServe, LinkAnswer, LinkLose DEF PageNext

\* However likes and unlikes are clicked and answered, when all are answered the
\* link offers what the server would do.
THEOREM LinkTheorem == PageSpec => []LinkAgrees
<1>1. LinkInv => LinkAgrees
  BY DEF LinkInv, LinkAgrees
<1> QED BY <1>1, TypesInit, TypesStep, LinkInit, LinkStep, PTL DEF PageSpec

-----------------------------------------------------------------------------
(* The comments.  Posts and expansions are not under way together; an      *)
(* answer on its way brings a comment the page does not have yet, or all   *)
(* those it has.                                                           *)

Mine(id) == \E n \in Nat : id = <<Viewer, n>>
OnServer(id) == \E i \in 1 .. Len(comments) : comments[i].id = id
ExactlyOnce(ids, id) ==
    \E i \in 1 .. Len(ids) : \A j \in 1 .. Len(ids) : ids[j] = id <=> j = i
AnswerId(s) == calls[s].answer[1].id

ShownOK ==
    /\ \A id \in posted : Mine(id) /\ Past(id) /\ OnServer(id) /\ ExactlyOnce(divs, id)
    /\ \A i \in 1 .. Len(divs) : Past(divs[i])

NewToPage(id) ==
    /\ Mine(id) /\ Past(id) /\ OnServer(id)
    /\ id \notin posted
    /\ \A i \in 1 .. Len(divs) : divs[i] # id

PostsOK ==
    /\ \A s \in OfKind({"post"}) : calls[s].served => NewToPage(AnswerId(s))
    /\ \A s, t \in OfKind({"post"}) :
            calls[s].served /\ calls[t].served /\ AnswerId(s) = AnswerId(t) => s = t

Covers(cs) ==
    /\ IdsOnce(cs)
    /\ \A i \in 1 .. Len(cs) : Past(cs[i].id)
    /\ \A id \in posted : \E i \in 1 .. Len(cs) : cs[i].id = id

ExpandsOK == \A s \in OfKind({"expandComments"}) : calls[s].served => Covers(calls[s].answer)

Apart == OfKind({"post"}) = {} \/ OfKind({"expandComments"}) = {}

PostedInv ==
    /\ PastOK
    /\ ~sameSecond /\ ~overtaken => ShownOK /\ PostsOK /\ ExpandsOK /\ Apart

\* What the steps of the server keep of all this.
LEMMA KeepsIds ==
    ASSUME EntryTypes, Keeps
    PROVE  /\ \A id : Past(id) => Past(id)'
           /\ \A id : Mine(id) /\ OnServer(id) => OnServer(id)'
<1>1. /\ last[Viewer] \in Nat /\ last'[Viewer] \in Nat /\ last[Viewer] <= last'[Viewer]
      /\ \A n \in Nat : (\E i \in 1 .. Len(comments) : comments[i].id = <<Viewer, n>>)
            => \E i \in 1 .. Len(comments') : comments'[i].id = <<Viewer, n>>
  BY UserFacts DEF EntryTypes, Keeps
<1>2. ASSUME NEW id, Past(id)
      PROVE  Past(id)'
  BY <1>1, <1>2 DEF Past
<1>3. ASSUME NEW id, Mine(id), OnServer(id)
      PROVE  OnServer(id)'
  BY <1>1, <1>3 DEF Mine, OnServer
<1> QED BY <1>2, <1>3

LEMMA ShownKeep ==
    ASSUME EntryTypes, Keeps, ShownOK, divs' = divs, posted' = posted
    PROVE  ShownOK'
<1>1. /\ \A id : Past(id) => Past(id)'
      /\ \A id : Mine(id) /\ OnServer(id) => OnServer(id)'
  BY KeepsIds
<1>2. ASSUME NEW id \in posted'
      PROVE  Mine(id)' /\ Past(id)' /\ OnServer(id)' /\ ExactlyOnce(divs', id)
  <2>1. Mine(id) /\ Past(id) /\ OnServer(id) /\ ExactlyOnce(divs, id)
    BY <1>2 DEF ShownOK
  <2> QED BY <1>1, <2>1 DEF Mine
<1>3. ASSUME NEW i \in 1 .. Len(divs')
      PROVE  Past(divs[i])'
  <2>1. Past(divs[i])
    BY DEF ShownOK
  <2>2. PICK d : d = divs[i]
    OBVIOUS
  <2>3. Past(d)'
    BY <1>1, <2>1, <2>2
  <2>4. d = divs'[i]
    BY <2>2
  <2> QED BY <2>3, <2>4 DEF Past
<1> QED BY <1>2, <1>3 DEF ShownOK

LEMMA PostsKeep ==
    ASSUME EntryTypes, Keeps, PostsOK, divs' = divs, posted' = posted,
           \A t \in OfKind({"post"})' :
                calls'[t].served => t \in OfKind({"post"}) /\ calls'[t] = calls[t]
    PROVE  PostsOK'
<1>1. /\ \A id : Past(id) => Past(id)'
      /\ \A id : Mine(id) /\ OnServer(id) => OnServer(id)'
  BY KeepsIds
<1>2. ASSUME NEW t \in OfKind({"post"})', calls'[t].served
      PROVE  NewToPage(AnswerId(t))'
  <2>1. PICK id : id = AnswerId(t)
    OBVIOUS
  <2>2. t \in OfKind({"post"}) /\ calls'[t] = calls[t]
    BY <1>2
  <2>3. NewToPage(id)
    BY <1>2, <2>1, <2>2 DEF PostsOK
  <2>4. NewToPage(id)'
    BY <1>1, <2>3 DEF NewToPage, Mine
  <2>5. AnswerId(t)' = id
    BY <2>1, <2>2 DEF AnswerId
  <2> QED BY <2>4, <2>5 DEF NewToPage, Mine, Past, OnServer
<1>3. ASSUME NEW s \in OfKind({"post"})', NEW t \in OfKind({"post"})',
             calls'[s].served, calls'[t].served, AnswerId(s)' = AnswerId(t)'
      PROVE  s = t
  BY <1>3 DEF PostsOK, AnswerId
<1> QED BY <1>2, <1>3 DEF PostsOK

LEMMA ExpandsKeep ==
    ASSUME EntryTypes, Keeps, ExpandsOK, posted' = posted,
           \A t \in OfKind({"expandComments"})' :
                calls'[t].served => t \in OfKind({"expandComments"}) /\ calls'[t] = calls[t]
    PROVE  ExpandsOK'
<1>1. \A id : Past(id) => Past(id)'
  BY KeepsIds
<1>2. ASSUME NEW t \in OfKind({"expandComments"})', calls'[t].served
      PROVE  Covers(calls[t].answer)'
  <2>1. PICK cs : cs = calls[t].answer
    OBVIOUS
  <2>2. Covers(cs) /\ calls'[t].answer = cs
    BY <1>2, <2>1 DEF ExpandsOK
  <2>3. Covers(cs)'
    <3>1. ASSUME NEW i \in 1 .. Len(cs)
          PROVE  Past(cs[i].id)'
      BY <1>1, <2>2 DEF Covers
    <3> QED BY <2>2, <3>1 DEF Covers
  <2> QED BY <2>2, <2>3 DEF Covers, Past
<1> QED BY <1>2 DEF ExpandsOK

Bringing == {"post", "expandComments"}

\* A call in a slot that has nothing to bring to the page.
LEMMA PostedPut ==
    ASSUME PostedInv, EntryTypes, CallsOK, Keeps, divs' = divs, posted' = posted,
           overtaken => overtaken',
           NEW s \in Slots, NEW call \in Clicks \union {None}, Puts(s, call),
           call = None \/ ~call.served \/ call.kind \notin Bringing,
           ~overtaken' /\ Apart => Apart'
    PROVE  PostedInv'
<1>1. ASSUME NEW kind \in Bringing, NEW t \in OfKind({kind})', calls'[t].served
      PROVE  t \in OfKind({kind}) /\ calls'[t] = calls[t]
  BY <1>1, OfKindStep
<1>2. ASSUME ~sameSecond', ~overtaken'
      PROVE  ShownOK' /\ PostsOK' /\ ExpandsOK' /\ Apart'
  <2>1. ShownOK /\ PostsOK /\ ExpandsOK /\ Apart
    BY <1>2 DEF PostedInv, Keeps
  <2>2. ShownOK' /\ Apart'
    BY <1>2, <2>1, ShownKeep
  <2>3. PostsOK'
    BY <1>1, <2>1, PostsKeep DEF Bringing
  <2>4. ExpandsOK'
    BY <1>1, <2>1, ExpandsKeep DEF Bringing
  <2> QED BY <2>2, <2>3, <2>4
<1> QED BY <1>2 DEF PostedInv, Keeps

\* The same when the slot already had a call of this kind, or has none now.
LEMMA ApartStep ==
    ASSUME CallsOK, NEW s \in Slots, NEW call \in Clicks \union {None}, Puts(s, call), Apart,
           \/ call = None \/ call.kind \notin Bringing
           \/ s \in UnderWay /\ calls[s].kind = call.kind
    PROVE  Apart'
<1>1. ASSUME NEW kind \in Bringing, OfKind({kind}) = {}
      PROVE  OfKind({kind})' = {}
  <2>1. \A t \in Slots : t # s => t \notin OfKind({kind})'
    BY <1>1, OfKindStep
  <2>2. s \notin OfKind({kind})
    BY <1>1
  <2>3. s \notin OfKind({kind})'
    BY <1>1, <2>2, OfKindStep DEF OfKind
  <2>4. \A t \in OfKind({kind})' : t \in Slots
    BY OfKindStep
  <2> QED BY <2>1, <2>3, <2>4
<1> QED BY <1>1 DEF Apart, Bringing

LEMMA KeepsNothing ==
    ASSUME EntryTypes, UNCHANGED <<comments, likes, last, sameSecond>>
    PROVE  Keeps
BY KeepsSame DEF EntryTypes, LikesOnce

LEMMA PostedInit == PageInit => PostedInv
<1> SUFFICES ASSUME PageInit PROVE PostedInv
  OBVIOUS
<1>1. /\ EntryTypes /\ PastOK /\ UnderWay = {} /\ posted = {}
      /\ \A i \in 1 .. Len(comments), n \in Nat : comments[i].id # <<Viewer, n>>
  BY EntryInit DEF PageInit
<1>2. \A n \in Nat : <<Viewer, n>> # Placeholder
  BY UserFacts, IdFacts
<1>3. \A i \in 1 .. Len(divs), n \in Nat : divs[i] # <<Viewer, n>>
  <2>1. CASE divs = Ids(comments)
    BY <1>1, <2>1, IdsType DEF EntryTypes
  <2>2. CASE divs = Ids(FormatComments(comments))
    <3> DEFINE cs == FormatComments(comments)
    <3>1. /\ cs \in Seq(Comments)
          /\ \A i \in 1 .. Len(cs) :
                 cs[i].id = Placeholder \/ \E j \in 1 .. Len(comments) : cs[i] = comments[j]
      BY <1>1, FormatCommentsType DEF EntryTypes
    <3> HIDE DEF cs
    <3>2. \A i \in 1 .. Len(cs), n \in Nat : cs[i].id # <<Viewer, n>>
      BY <1>1, <1>2, <3>1
    <3>3. Len(Ids(cs)) = Len(cs) /\ \A i \in 1 .. Len(cs) : Ids(cs)[i] = cs[i].id
      BY <3>1, IdsType
    <3>4. divs = Ids(cs)
      BY <2>2 DEF cs
    <3> QED BY <3>2, <3>3, <3>4
  <2> QED BY <2>1, <2>2 DEF PageInit
<1>4. ShownOK
  BY <1>1, <1>3 DEF ShownOK, Past
<1> QED BY <1>1, <1>4 DEF PostedInv, PostsOK, ExpandsOK, Apart, OfKind

LEMMA PostedServe ==
    ASSUME TypeInv, PostedInv, NEW s \in Slots, ServeClick(s)
    PROVE  PostedInv'
<1>1. /\ EntryTypes /\ CallsOK /\ Keeps /\ s \in UnderWay /\ ~calls[s].served
      /\ divs' = divs /\ posted' = posted /\ overtaken' = overtaken
  BY ServeClickStep DEF TypeInv, PageTypeOK, CallsOK
<1>2. CASE calls[s].lost /\ Puts(s, None)
  BY <1>1, <1>2, PostedPut, ApartStep
<1>3. CASE calls[s].kind = "post" /\ ~calls[s].lost
  <2>1. PICK second \in Nat, new \in Comments : PostedAs(s, second, new)
    BY <1>1, <1>3, ServeClickStep DEF LikeCalls
  <2>2. /\ new.id = <<Viewer, second>> /\ second <= last'[Viewer]
        /\ sameSecond' \/ second > last[Viewer]
        /\ OnServer(new.id)'
        /\ ServedAs(s, <<new>>)
    BY <2>1 DEF PostedAs, OnServer
  <2>3. PICK call \in Clicks : /\ Puts(s, call)
                               /\ call.kind = "post" /\ call.served /\ call.answer = <<new>>
    BY <1>3, <2>2 DEF ServedAs
  <2>4. call # None /\ call.answer[1].id = new.id
    BY <2>3, ClickAssumption
  <2>5. PastOK'
    BY <1>1 DEF PostedInv, Keeps
  <2> SUFFICES ASSUME ~sameSecond', ~overtaken'
               PROVE  ShownOK' /\ PostsOK' /\ ExpandsOK' /\ Apart'
    BY <2>5 DEF PostedInv
  <2>6. ShownOK /\ PostsOK /\ ExpandsOK /\ Apart
    BY <1>1 DEF PostedInv, Keeps
  <2>7. ShownOK'
    BY <1>1, <2>6, ShownKeep
  <2>8. Apart'
    BY <1>1, <1>3, <2>3, <2>6, ApartStep
  <2>9. \A t \in OfKind({"expandComments"})' : t \in OfKind({"expandComments"}) /\ calls'[t] = calls[t]
    BY <1>1, <2>3, OfKindStep
  <2>10. ExpandsOK'
    BY <1>1, <2>6, <2>9, ExpandsKeep
  <2>11. Mine(new.id) /\ Past(new.id)' /\ ~Past(new.id)
    <3>1. Mine(new.id)
      BY <2>2 DEF Mine
    <3>2. second > last[Viewer] /\ last[Viewer] \in Nat
      BY <1>1, <2>2, UserFacts DEF EntryTypes
    <3> QED BY <2>2, <3>1, <3>2 DEF Past
  <2>12. NewToPage(new.id)'
    <3>1. new.id \notin posted /\ \A i \in 1 .. Len(divs) : divs[i] # new.id
      BY <2>6, <2>11 DEF ShownOK
    <3> QED BY <1>1, <2>2, <2>11, <3>1 DEF NewToPage, Mine
  <2>13. /\ \A t \in OfKind({"post"})' : t # s => t \in OfKind({"post"}) /\ calls'[t] = calls[t]
         /\ calls'[s] = call
    BY <1>1, <2>3, OfKindStep
  <2>14. \A t \in OfKind({"post"}) : calls[t].served => AnswerId(t) # new.id
    BY <2>6, <2>11 DEF PostsOK, NewToPage
  <2>15. ASSUME NEW t \in OfKind({"post"})', calls'[t].served
         PROVE  NewToPage(AnswerId(t))'
    <3>1. CASE t = s
      <4>1. AnswerId(t)' = new.id
        BY <2>4, <2>13, <3>1 DEF AnswerId
      <4> QED BY <2>12, <4>1 DEF NewToPage, Mine, Past, OnServer
    <3>2. CASE t # s
      <4>1. PICK id : id = AnswerId(t)
        OBVIOUS
      <4>2. calls'[t] = calls[t] /\ NewToPage(id)
        BY <2>6, <2>13, <2>15, <3>2, <4>1 DEF PostsOK
      <4>3. NewToPage(id)'
        BY <1>1, <4>2, KeepsIds DEF NewToPage, Mine
      <4>4. AnswerId(t)' = id
        BY <4>1, <4>2 DEF AnswerId
      <4> QED BY <4>3, <4>4 DEF NewToPage, Mine, Past, OnServer
    <3> QED BY <3>1, <3>2
  <2>16. ASSUME NEW t \in OfKind({"post"})', NEW u \in OfKind({"post"})',
                calls'[t].served, calls'[u].served, AnswerId(t)' = AnswerId(u)'
         PROVE  t = u
    <3>1. AnswerId(s)' = new.id
      BY <2>4, <2>13 DEF AnswerId
    <3>2. \A v \in OfKind({"post"})' : v # s /\ calls'[v].served =>
                v \in OfKind({"post"}) /\ calls[v].served /\ AnswerId(v)' = AnswerId(v)
                /\ AnswerId(v) # new.id
      BY <2>13, <2>14 DEF AnswerId
    <3>3. CASE t # s /\ u # s
      BY <2>6, <2>16, <3>2, <3>3 DEF PostsOK
    <3> QED BY <2>16, <3>1, <3>2, <3>3
  <2>17. PostsOK'
    BY <2>15, <2>16 DEF PostsOK
  <2> QED BY <2>7, <2>8, <2>10, <2>17
<1>4. CASE calls[s].kind = "expandComments" /\ ~calls[s].lost
  <2>1. ServedAs(s, comments) /\ comments' = comments /\ last' = last
    BY <1>1, <1>4, ServeClickStep DEF LikeCalls
  <2>2. PICK call \in Clicks : /\ Puts(s, call)
                               /\ call.kind = "expandComments" /\ call.served
                               /\ call.answer = comments
    BY <1>4, <2>1 DEF ServedAs
  <2>3. call # None
    BY ClickAssumption
  <2>4. PastOK'
    BY <1>1 DEF PostedInv, Keeps
  <2> SUFFICES ASSUME ~sameSecond', ~overtaken'
               PROVE  ShownOK' /\ PostsOK' /\ ExpandsOK' /\ Apart'
    BY <2>4 DEF PostedInv
  <2>5. ShownOK /\ PostsOK /\ ExpandsOK /\ Apart
    BY <1>1 DEF PostedInv, Keeps
  <2>6. ShownOK'
    BY <1>1, <2>5, ShownKeep
  <2>7. Apart'
    BY <1>1, <1>4, <2>2, <2>5, ApartStep
  <2>8. \A t \in OfKind({"post"})' : t \in OfKind({"post"}) /\ calls'[t] = calls[t]
    BY <1>1, <2>2, OfKindStep
  <2>9. PostsOK'
    BY <1>1, <2>5, <2>8, PostsKeep
  <2>10. Covers(comments)
    <3>1. IdsOnce(comments) /\ \A i \in 1 .. Len(comments) : Past(comments[i].id)
      BY <1>1 DEF EntryTypes, PostedInv, PastOK
    <3>2. \A id \in posted : \E i \in 1 .. Len(comments) : comments[i].id = id
      BY <2>5 DEF ShownOK, OnServer
    <3> QED BY <3>1, <3>2 DEF Covers
  <2>11. /\ \A t \in OfKind({"expandComments"})' : t # s =>
                t \in OfKind({"expandComments"}) /\ calls'[t] = calls[t]
         /\ calls'[s].answer = comments
    BY <1>1, <2>2, OfKindStep
  <2>12. ASSUME NEW t \in OfKind({"expandComments"})', calls'[t].served
         PROVE  Covers(calls[t].answer)'
    <3>1. PICK cs : cs = calls'[t].answer
      OBVIOUS
    <3>2. Covers(cs)
      BY <2>5, <2>10, <2>11, <2>12, <3>1 DEF ExpandsOK
    <3>3. Covers(cs)'
      BY <1>1, <2>1, <3>2 DEF Covers, Past
    <3> QED BY <3>1, <3>3 DEF Covers, Past
  <2>13. ExpandsOK'
    BY <2>12 DEF ExpandsOK
  <2> QED BY <2>6, <2>7, <2>9, <2>13
<1>5. CASE calls[s].kind \in LikeCalls /\ ~calls[s].lost
  <2>1. PICK answer \in Seq(Likers) : ServedAs(s, answer)
    BY <1>1, <1>5, ServeClickStep DEF LikeCalls
  <2>2. PICK call \in Clicks : Puts(s, call) /\ call.kind = calls[s].kind
    BY <1>5, <2>1 DEF ServedAs
  <2>3. call.kind \notin Bringing
    BY <1>5, <2>2 DEF LikeCalls, Bringing
  <2>4. Apart => Apart'
    BY <1>1, <2>2, <2>3, ApartStep
  <2> QED BY <1>1, <2>2, <2>3, <2>4, PostedPut
<1>6. calls[s].lost => Puts(s, None)
  BY <1>1, ServeClickStep DEF ServedAs, PostedAs
<1>7. calls[s].kind \in {"post", "expandComments"} \/ calls[s].kind \in LikeCalls
  BY <1>1, ServeClickStep
<1> QED BY <1>2, <1>3, <1>4, <1>5, <1>6, <1>7

LEMMA PostedAppend ==
    ASSUME TypeInv, PostedInv, NEW s \in Slots, AnswerClick(s), AppendComment(s)
    PROVE  PostedInv'
<1>1. /\ EntryTypes /\ CallsOK /\ AnswersOK /\ s \in UnderWay /\ calls[s].served
      /\ Puts(s, None) /\ UNCHANGED served
      /\ divs \in IdSeqs
  BY DEF TypeInv, PageTypeOK, CallsOK, AnswerClick, End, Puts, IdSeqs
<1>2. /\ calls[s].kind = "post"
      /\ divs' = divs \o Ids(calls[s].answer)
      /\ posted' = posted \union {calls[s].answer[1].id}
      /\ overtaken' = overtaken
  BY DEF AppendComment
<1>3. PastOK'
  BY <1>1 DEF PostedInv, PastOK, Past
<1> SUFFICES ASSUME ~sameSecond', ~overtaken'
             PROVE  ShownOK' /\ PostsOK' /\ ExpandsOK' /\ Apart'
  BY <1>3 DEF PostedInv
<1>4. ShownOK /\ PostsOK /\ ExpandsOK /\ Apart
  BY <1>1, <1>2 DEF PostedInv
<1>5. s \in OfKind({"post"})
  BY <1>1, <1>2 DEF OfKind
<1>6. PICK second \in Nat, new \in Comments :
          new.id = <<Viewer, second>> /\ calls[s].answer = <<new>>
  BY <1>1, <1>2 DEF AnswersOK, CallOK
<1>7. PICK id : id = new.id
  OBVIOUS
<1>8. AnswerId(s) = id /\ posted' = posted \union {id}
  <2>1. <<new>>[1] = new
    OBVIOUS
  <2> QED BY <1>2, <1>6, <1>7, <2>1 DEF AnswerId
<1>9. /\ divs' \in IdSeqs /\ Len(divs') = Len(divs) + 1 /\ Len(divs) \in Nat
      /\ \A i \in 1 .. Len(divs) : divs'[i] = divs[i]
      /\ divs'[Len(divs) + 1] = id
  <2>1. Ids(<<new>>) \in IdSeqs /\ Len(Ids(<<new>>)) = 1 /\ Ids(<<new>>)[1] = id
    <3>1. <<new>> \in Seq(Comments) /\ Len(<<new>>) = 1 /\ <<new>>[1] = new
      OBVIOUS
    <3>2. PICK news : news = <<new>>
      OBVIOUS
    <3>3. news \in Seq(Comments) /\ Len(news) = 1 /\ news[1] = new /\ 1 \in 1 .. 1
      BY <3>1, <3>2
    <3>4. Ids(news) \in IdSeqs /\ Len(Ids(news)) = 1 /\ Ids(news)[1] = id
      BY <1>7, <3>3, IdsType
    <3> QED BY <3>2, <3>4
  <2>2. PICK one : one = Ids(<<new>>)
    OBVIOUS
  <2>3. one \in IdSeqs /\ Len(one) = 1 /\ one[1] = id /\ divs' = divs \o one
    BY <1>2, <1>6, <2>1, <2>2
  <2>4. PICK T : IdSeqs = Seq(T)
    BY DEF IdSeqs
  <2>5. divs \in Seq(T) /\ one \in Seq(T)
    BY <1>1, <2>3, <2>4
  <2>6. /\ divs \o one \in Seq(T) /\ Len(divs \o one) = Len(divs) + Len(one)
        /\ \A i \in 1 .. Len(divs) + Len(one) : (divs \o one)[i] =
                IF i <= Len(divs) THEN divs[i] ELSE one[i - Len(divs)]
    BY <2>5, ConcatProperties
  <2>7. Len(divs) \in Nat
    BY <2>5
  <2> QED BY <2>3, <2>4, <2>6, <2>7
<1>10. \A i \in 1 .. Len(divs') : i \in 1 .. Len(divs) \/ i = Len(divs) + 1
  BY <1>9
<1>11. NewToPage(id)
  BY <1>1, <1>4, <1>5, <1>8 DEF PostsOK
<1>12. ShownOK'
  <2>1. ASSUME NEW old \in posted'
        PROVE  Mine(old)' /\ Past(old)' /\ OnServer(old)' /\ ExactlyOnce(divs', old)
    <3>1. CASE old = id
      <4>1. \A j \in 1 .. Len(divs') : divs'[j] = id <=> j = Len(divs) + 1
        BY <1>9, <1>10, <1>11 DEF NewToPage
      <4>2. Len(divs) + 1 \in 1 .. Len(divs')
        BY <1>9
      <4>3. ExactlyOnce(divs', id)
        BY <4>1, <4>2 DEF ExactlyOnce
      <4> QED BY <1>1, <1>11, <3>1, <4>3 DEF NewToPage, Mine, Past, OnServer
    <3>2. CASE old # id
      <4>1. old \in posted
        BY <1>8, <3>2
      <4>2. Mine(old) /\ Past(old) /\ OnServer(old) /\ ExactlyOnce(divs, old)
        BY <1>4, <4>1 DEF ShownOK
      <4>3. PICK i \in 1 .. Len(divs) : \A j \in 1 .. Len(divs) : divs[j] = old <=> j = i
        BY <4>2 DEF ExactlyOnce
      <4>4. i \in 1 .. Len(divs') /\ i # Len(divs) + 1
        BY <1>9
      <4>5. \A j \in 1 .. Len(divs') : divs'[j] = old <=> j = i
        BY <1>9, <1>10, <3>2, <4>3, <4>4
      <4>6. ExactlyOnce(divs', old)
        BY <4>4, <4>5 DEF ExactlyOnce
      <4> QED BY <1>1, <4>2, <4>6 DEF Mine, Past, OnServer
    <3> QED BY <3>1, <3>2
  <2>2. ASSUME NEW i \in 1 .. Len(divs')
        PROVE  Past(divs[i])'
    <3>1. \A j \in 1 .. Len(divs) : Past(divs[j])
      BY <1>4 DEF ShownOK
    <3>2. Past(divs'[i])
      BY <1>9, <1>10, <1>11, <3>1 DEF NewToPage
    <3>3. last' = last
      BY <1>1
    <3> QED BY <3>2, <3>3 DEF Past
  <2> QED BY <2>1, <2>2 DEF ShownOK
<1>13. PostsOK'
  <2>1. \A t \in OfKind({"post"})' : t \in OfKind({"post"}) /\ t # s /\ calls'[t] = calls[t]
    BY <1>1, OfKindStep
  <2>2. ASSUME NEW t \in OfKind({"post"})', calls'[t].served
        PROVE  NewToPage(AnswerId(t))'
    <3>1. PICK other : other = AnswerId(t)
      OBVIOUS
    <3>2. NewToPage(other) /\ other # id
      BY <1>1, <1>4, <1>5, <1>8, <2>1, <2>2, <3>1 DEF PostsOK
    <3>3. AnswerId(t)' = other
      BY <2>1, <3>1 DEF AnswerId
    <3>4. other \notin posted' /\ \A i \in 1 .. Len(divs') : divs'[i] # other
      BY <1>8, <1>9, <1>10, <3>2 DEF NewToPage
    <3> QED BY <1>1, <3>2, <3>3, <3>4 DEF NewToPage, Mine, Past, OnServer
  <2> QED BY <1>4, <2>1, <2>2 DEF PostsOK, AnswerId
<1>14. Apart'
  BY <1>1, <1>4, ApartStep
<1>15. ExpandsOK'
  <2>1. OfKind({"expandComments"}) = {}
    BY <1>4, <1>5 DEF Apart
  <2>2. \A t \in OfKind({"expandComments"})' : FALSE
    BY <1>1, <2>1, OfKindStep
  <2> QED BY <2>2 DEF ExpandsOK
<1> QED BY <1>12, <1>13, <1>14, <1>15

LEMMA PostedReplace ==
    ASSUME TypeInv, PostedInv, NEW s \in Slots, AnswerClick(s), ReplaceComments(s)
    PROVE  PostedInv'
<1>1. /\ EntryTypes /\ CallsOK /\ AnswersOK /\ s \in UnderWay /\ calls[s].served
      /\ Puts(s, None) /\ UNCHANGED served
  BY DEF TypeInv, PageTypeOK, CallsOK, AnswerClick, End, Puts
<1>2. /\ calls[s].kind = "expandComments"
      /\ divs' = Ids(calls[s].answer)
      /\ posted' = posted /\ overtaken' = overtaken
  BY DEF ReplaceComments
<1>3. PastOK'
  BY <1>1 DEF PostedInv, PastOK, Past
<1> SUFFICES ASSUME ~sameSecond', ~overtaken'
             PROVE  ShownOK' /\ PostsOK' /\ ExpandsOK' /\ Apart'
  BY <1>3 DEF PostedInv
<1>4. ShownOK /\ PostsOK /\ ExpandsOK /\ Apart
  BY <1>1, <1>2 DEF PostedInv
<1>5. s \in OfKind({"expandComments"})
  BY <1>1, <1>2 DEF OfKind
<1>6. PICK cs : cs = calls[s].answer
  OBVIOUS
<1>7. cs \in Seq(Comments) /\ Covers(cs) /\ divs' = Ids(cs)
  BY <1>1, <1>2, <1>4, <1>5, <1>6 DEF AnswersOK, CallOK, ExpandsOK
<1>8. Len(divs') = Len(cs) /\ \A i \in 1 .. Len(cs) : divs'[i] = cs[i].id
  BY <1>7, IdsType
<1>9. ShownOK'
  <2>1. ASSUME NEW id \in posted'
        PROVE  Mine(id)' /\ Past(id)' /\ OnServer(id)' /\ ExactlyOnce(divs', id)
    <3>1. Mine(id) /\ Past(id) /\ OnServer(id)
      BY <1>2, <1>4 DEF ShownOK
    <3>2. PICK i \in 1 .. Len(cs) : cs[i].id = id
      BY <1>2, <1>7 DEF Covers
    <3>3. \A j \in 1 .. Len(cs) : cs[j].id = id <=> j = i
      BY <1>7, <3>2 DEF Covers, IdsOnce
    <3>4. i \in 1 .. Len(divs') /\ \A j \in 1 .. Len(divs') : divs'[j] = id <=> j = i
      BY <1>8, <3>3
    <3>5. ExactlyOnce(divs', id)
      BY <3>4 DEF ExactlyOnce
    <3> QED BY <1>1, <3>1, <3>5 DEF Mine, Past, OnServer
  <2>2. ASSUME NEW i \in 1 .. Len(divs')
        PROVE  Past(divs[i])'
    <3>1. Past(divs'[i]) /\ last' = last
      BY <1>1, <1>7, <1>8 DEF Covers
    <3> QED BY <3>1 DEF Past
  <2> QED BY <2>1, <2>2 DEF ShownOK
<1>10. PostsOK'
  <2>1. OfKind({"post"}) = {}
    BY <1>4, <1>5 DEF Apart
  <2>2. \A t \in OfKind({"post"})' : FALSE
    BY <1>1, <2>1, OfKindStep
  <2> QED BY <2>2 DEF PostsOK
<1>11. ExpandsOK'
  <2>1. \A t \in OfKind({"expandComments"})' :
            t \in OfKind({"expandComments"}) /\ calls'[t] = calls[t]
    BY <1>1, OfKindStep
  <2>2. Keeps
    BY <1>1, KeepsNothing
  <2> QED BY <1>1, <1>2, <1>4, <2>1, <2>2, ExpandsKeep
<1>12. Apart'
  BY <1>1, <1>4, ApartStep
<1> QED BY <1>9, <1>10, <1>11, <1>12

LEMMA PostedSend ==
    ASSUME TypeInv, PostedInv, NEW kind \in LikeCalls \union Bringing, Send(NewClick(kind)),
           divs' = divs, posted' = posted, overtaken => overtaken',
           kind = "post" => overtaken' \/ OfKind({"expandComments"}) = {},
           kind = "expandComments" => overtaken' \/ OfKind({"post"}) = {}
    PROVE  PostedInv'
<1>1. EntryTypes /\ CallsOK
  BY DEF TypeInv, PageTypeOK, CallsOK
<1>2. /\ UNCHANGED <<comments, likes, listed, last, sameSecond, failed>>
      /\ \E s \in Slots, call \in Clicks : SentIn(s, call, kind)
  BY TypesSend DEF Bringing
<1>3. PICK s \in Slots, call \in Clicks : SentIn(s, call, kind)
  BY <1>2
<1>4. /\ Puts(s, call) /\ call.kind = kind /\ ~call.served
  BY <1>3 DEF SentIn
<1>5. Keeps
  BY <1>1, <1>2, KeepsNothing
<1>6. ASSUME NEW other, other # kind, OfKind({other}) = {}
      PROVE  OfKind({other})' = {}
  <2>1. \A t \in Slots : t # s => t \notin OfKind({other})'
    BY <1>1, <1>4, <1>6, OfKindStep
  <2>2. s \notin OfKind({other})'
    BY <1>1, <1>4, <1>6, OfKindStep
  <2>3. \A t \in OfKind({other})' : t \in Slots
    BY <1>1, <1>4, OfKindStep
  <2> QED BY <2>1, <2>2, <2>3
<1>7. ~overtaken' /\ Apart => Apart'
  <2>1. CASE kind = "post"
    BY <1>6, <2>1 DEF Apart
  <2>2. CASE kind = "expandComments"
    BY <1>6, <2>2 DEF Apart
  <2>3. CASE kind \in LikeCalls
    <3>1. kind # "post" /\ kind # "expandComments"
      BY <2>3 DEF LikeCalls
    <3> QED BY <1>6, <3>1 DEF Apart
  <2> QED BY <2>1, <2>2, <2>3 DEF Bringing
<1> QED BY <1>1, <1>4, <1>5, <1>7, PostedPut

LEMMA PostedLose ==
    ASSUME TypeInv, PostedInv, NEW s \in Slots, LoseClick(s)
    PROVE  PostedInv'
<1>1. EntryTypes /\ CallsOK /\ events \in Nat
  BY DEF TypeInv, PageTypeOK, CallsOK
<1>2. /\ s \in UnderWay
      /\ UNCHANGED <<served, divs, overtaken, posted>>
      /\ \/ Puts(s, None)
         \/ \E call \in Clicks :
               Puts(s, call) /\ call.kind = calls[s].kind /\ call.lost /\ ~call.served
  BY <1>1, LoseStep
<1>3. Keeps
  BY <1>1, <1>2, KeepsNothing
<1>4. CASE Puts(s, None)
  <2>1. Apart => Apart'
    BY <1>1, <1>4, ApartStep
  <2> QED BY <1>1, <1>2, <1>3, <1>4, <2>1, PostedPut
<1>5. CASE \E call \in Clicks :
               Puts(s, call) /\ call.kind = calls[s].kind /\ call.lost /\ ~call.served
  <2>1. PICK call \in Clicks : Puts(s, call) /\ call.kind = calls[s].kind /\ ~call.served
    BY <1>5
  <2>2. Apart => Apart'
    BY <1>1, <1>2, <2>1, ApartStep
  <2> QED BY <1>1, <1>2, <1>3, <2>1, <2>2, PostedPut
<1> QED BY <1>2, <1>4, <1>5

LEMMA PostedStep == TypeInv /\ PostedInv /\ [PageNext]_pageVars => PostedInv'
<1> SUFFICES ASSUME TypeInv, PostedInv, [PageNext]_pageVars PROVE PostedInv'
  OBVIOUS
<1>1. EntryTypes /\ CallsOK /\ events \in Nat /\ link \in LikeCalls
  BY DEF TypeInv, PageTypeOK, CallsOK
<1>2. ASSUME Keeps, calls' = calls, divs' = divs, posted' = posted, overtaken' = overtaken
      PROVE  PostedInv'
  <2>1. OfKind({"post"})' = OfKind({"post"}) /\ OfKind({"expandComments"})' = OfKind({"expandComments"})
    BY <1>2 DEF OfKind, UnderWay
  <2>2. ASSUME ~sameSecond', ~overtaken'
        PROVE  ShownOK' /\ PostsOK' /\ ExpandsOK' /\ Apart'
    <3>1. ShownOK /\ PostsOK /\ ExpandsOK /\ Apart
      BY <1>2, <2>2 DEF PostedInv, Keeps
    <3>2. Apart'
      BY <2>1, <3>1 DEF Apart
    <3> QED BY <1>1, <1>2, <2>1, <3>1, <3>2, ShownKeep, PostsKeep, ExpandsKeep
  <2> QED BY <1>2, <2>2 DEF PostedInv, Keeps
<1>3. CASE ClickComment \/ UNCHANGED pageVars
  <2>1. /\ UNCHANGED <<comments, likes, last, sameSecond>>
        /\ calls' = calls /\ divs' = divs /\ posted' = posted /\ overtaken' = overtaken
    BY <1>3 DEF ClickComment
  <2> QED BY <1>1, <1>2, <2>1, KeepsNothing
<1>4. CASE SubmitForm
  <2>1. /\ Send(NewClick("post")) /\ divs' = divs /\ posted' = posted
        /\ overtaken' = (overtaken \/ OfKind({"expandComments"}) # {})
    BY <1>4 DEF SubmitForm
  <2> QED BY <2>1, PostedSend DEF Bringing
<1>5. CASE ClickExpand
  <2>1. /\ Send(NewClick("expandComments")) /\ divs' = divs /\ posted' = posted
        /\ overtaken' = (overtaken \/ OfKind({"post"}) # {})
    BY <1>5 DEF ClickExpand
  <2> QED BY <2>1, PostedSend DEF Bringing
<1>6. CASE ClickLink
  <2>1. /\ Send(NewClick(link)) /\ divs' = divs /\ posted' = posted /\ overtaken' = overtaken
    BY <1>6 DEF ClickLink
  <2>2. link # "post" /\ link # "expandComments"
    BY <1>1 DEF LikeCalls
  <2>3. PICK kind \in LikeCalls : kind = link
    BY <1>1
  <2>4. Send(NewClick(kind))
    BY <2>1, <2>3 DEF Send, NewClick
  <2> QED BY <2>1, <2>2, <2>3, <2>4, PostedSend
<1>7. CASE Elsewhere /\ UNCHANGED entryVars
  BY <1>1, <1>2, <1>7, ElsewhereStep
<1>8. ASSUME NEW s \in Slots, AnswerClick(s), ToggleLink(s)
      PROVE  PostedInv'
  <2>1. /\ s \in UnderWay /\ Puts(s, None) /\ UNCHANGED served
        /\ divs' = divs /\ posted' = posted /\ overtaken' = overtaken
    BY <1>8 DEF AnswerClick, ToggleLink, End, Puts
  <2>2. Keeps
    BY <1>1, <2>1, KeepsNothing
  <2>3. Apart => Apart'
    BY <1>1, <2>1, ApartStep
  <2> QED BY <1>1, <2>1, <2>2, <2>3, PostedPut
<1>9. ASSUME NEW s \in Slots, AnswerClick(s)
      PROVE  PostedInv'
  <2>1. AppendComment(s) \/ ToggleLink(s) \/ ReplaceComments(s)
    BY <1>9 DEF AnswerClick
  <2> QED BY <1>8, <1>9, <2>1, PostedAppend, PostedReplace
<1> QED BY <1>3, <1>4, <1>5, <1>6, <1>7, <1>9, PostedServe, PostedLose DEF PageNext

\* Apart from the two exceptions an answered comment is on the page once.
THEOREM PostedTheorem == PageSpec => []PostedOnce
<1>1. TypeInv /\ PostedInv => PostedOnce
  <2> SUFFICES ASSUME TypeInv, PostedInv, ~sameSecond, ~overtaken, NEW id \in posted
               PROVE  Cardinality({i \in DOMAIN divs : divs[i] = id}) = 1
    BY DEF PostedOnce
  <2>1. ExactlyOnce(divs, id)
    BY DEF PostedInv, ShownOK
  <2>2. DOMAIN divs = 1 .. Len(divs)
    BY DEF TypeInv, PageTypeOK
  <2>3. PICK i \in 1 .. Len(divs) : \A j \in 1 .. Len(divs) : divs[j] = id <=> j = i
    BY <2>1 DEF ExactlyOnce
  <2>4. {j \in DOMAIN divs : divs[j] = id} = {i}
    BY <2>2, <2>3
  <2> QED BY <2>4, FS_Singleton
<1> QED BY <1>1, TypesInit, TypesStep, PostedInit, PostedStep, PTL DEF PageSpec
=============================================================================
