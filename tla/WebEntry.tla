------------------------------- MODULE WebEntry -------------------------------
(***************************************************************************)
(* One entry as the web server serves it to the pages of one viewer:       *)
(* httpd/src/server.go and the presentation of proto/helper.go.            *)
(*                                                                         *)
(* The pages, FeedView and EntryPage, are models of their own: what both   *)
(* have is an entry on the server and calls that are under way.            *)
(*                                                                         *)
(* The steps here are whole handlers; what may happen between the reads    *)
(* and writes of two of them is the subject of EntryStore.  Another user,  *)
(* the friend, comments and likes the entry from elsewhere.                *)
(***************************************************************************)
EXTENDS Naturals, Sequences, FiniteSets, SequencesExt

CONSTANTS
    Viewer,       \* the user whose browser shows the entry
    Friend,       \* another user
    Fans,         \* who likes the entry to begin with, in order
    Placeholder,  \* the element that stands for collapsed comments or likes
    Limit,        \* so many comments or likes are not collapsed: 4 in the code
    Earlier,      \* how many comments of the friend the entry begins with
    None,         \* no call, no array, no answer
    MaxOpen,      \* bound on the calls of the page that are under way
    MaxEvents     \* bound on the calls the viewer makes, those that are lost and
                  \* what happens to the entry from elsewhere

Slots == 1 .. MaxOpen

Users == {Viewer, Friend} \union Range(Fans)

\* an id is made of the author and the second of the post; the body of a
\* comment is the number of the call that wrote it, 0 for the friend's
CommentIds == Users \X Nat
Comments   == [id : CommentIds \union {Placeholder}, body : Nat]
Likers     == Users \union {Placeholder}

ASSUME EntryAssumption ==
    /\ Viewer # Friend
    /\ IsInjective(Fans) /\ Fans \in Seq(Range(Fans) \ {Viewer, Friend})
    /\ Placeholder \notin Users \union CommentIds
    /\ Limit \in Nat /\ Limit >= 2
    /\ Earlier \subseteq Nat
    /\ None \notin Nat \union CommentIds
    /\ MaxOpen \in Nat /\ MaxEvents \in Nat

VARIABLES
    comments,    \* entry.Comments
    likes,       \* entry.Likes: who likes it, in order
    listed,      \* the entry is on the page of the public feed
    last,        \* user -> the last second (for the friend, number) in an id
    sameSecond,  \* ghost: two posts of the viewer fell in one second
    calls,       \* the calls of the page under way, each in a slot
    failed,      \* ghost: a call was lost
    events       \* counter for the bound

served  == <<comments, likes, listed, last, sameSecond>>
webVars == <<served, calls, failed, events>>

WebInit ==
    /\ \E n \in Earlier :
        /\ comments = [i \in 1 .. n |-> [id |-> <<Friend, i>>, body |-> 0]]
        /\ last = [u \in Users |-> IF u = Friend THEN n ELSE 0]
    /\ likes = Fans
    /\ listed = TRUE
    /\ sameSecond = FALSE
    /\ calls = [s \in Slots |-> None]
    /\ failed = FALSE
    /\ events = 0

Event == events < MaxEvents /\ events' = events + 1

-----------------------------------------------------------------------------
(* Presentation.                                                           *)

FormatComments(cs) ==
    IF Len(cs) > Limit
    THEN <<cs[1], [id |-> Placeholder, body |-> 0], cs[Len(cs)]>> ELSE cs

FormatLikes(ls) ==
    IF Len(ls) > Limit THEN Append(SubSeq(ls, 1, Limit - 1), Placeholder) ELSE ls

\* the command of RebuildCommand that depends on the likes
LikeCommand(ls) == IF Contains(ls, Viewer) THEN "unlike" ELSE "like"

-----------------------------------------------------------------------------
(* What the handlers make of the entry.  A comment or a new like pushes    *)
(* the entry to the top of the public feed; a removal does not.            *)

Position(id) == SelectInSeq(comments, LAMBDA c : c.id = id)

\* an id that is not there is appended, even that of an edit
Comment(c) ==
    /\ comments' = IF Position(c.id) = 0 THEN Append(comments, c)
                   ELSE ReplaceAt(comments, Position(c.id), c)
    /\ listed' = TRUE
    /\ UNCHANGED likes

DeleteComment(id) ==
    /\ comments' = IF Position(id) = 0 THEN comments
                   ELSE RemoveAt(comments, Position(id))
    /\ UNCHANGED <<likes, listed>>

Like(user) ==
    /\ IF Contains(likes, user) THEN UNCHANGED <<likes, listed>>
       ELSE likes' = Append(likes, user) /\ listed' = TRUE
    /\ UNCHANGED comments

DeleteLike(user) ==
    /\ likes' = IF Contains(likes, user)
                THEN RemoveAt(likes, SelectInSeq(likes, LAMBDA u : u = user)) ELSE likes
    /\ UNCHANGED <<comments, listed>>

\* CommentHandler names a new comment after the second it arrives in
NewComment(second, body) ==
    /\ second > 0
    /\ second \in {last[Viewer], last[Viewer] + 1}
    /\ last' = [last EXCEPT ![Viewer] = second]
    /\ sameSecond' = (sameSecond \/ second = last[Viewer])
    /\ Comment([id |-> <<Viewer, second>>, body |-> body])

-----------------------------------------------------------------------------
(* Calls.                                                                  *)

UnderWay == {s \in Slots : calls[s] # None}

\* a call takes the first free slot
Send(call) ==
    /\ Event
    /\ \E s \in Slots \ UnderWay :
        /\ 1 .. s - 1 \subseteq UnderWay
        /\ calls' = [calls EXCEPT ![s] = call]
    /\ UNCHANGED <<served, failed>>

End(s) == calls' = [calls EXCEPT ![s] = None]

Answered(s, answer) ==
    IF calls[s].lost THEN End(s)
    ELSE calls' = [calls EXCEPT ![s].served = TRUE, ![s].answer = answer]

\* the page gets an error or nothing: the request or the answer is lost, or the
\* front end gave up after 500 ms and the server will do it still
Fail(s) ==
    /\ ~calls[s].lost
    /\ Event
    /\ failed' = TRUE
    /\ \/ End(s)
       \/ ~calls[s].served /\ calls' = [calls EXCEPT ![s].lost = TRUE]

\* the requests both pages make: /a/comment, /a/like and /a/like/delete
ServePost(s) ==
    \E second \in {last[Viewer], last[Viewer] + 1} :
        /\ NewComment(second, calls[s].body)
        /\ Answered(s, <<[id |-> <<Viewer, second>>, body |-> calls[s].body]>>)

ServeLike(s) ==
    /\ IF calls[s].kind = "like" THEN Like(Viewer) ELSE DeleteLike(Viewer)
    /\ Answered(s, FormatLikes(likes'))
    /\ UNCHANGED <<last, sameSecond>>

\* /a/entry/:uuid
ServeComments(s) == Answered(s, comments) /\ UNCHANGED served

-----------------------------------------------------------------------------
(* What happens to the entry from elsewhere.                               *)

FriendComments ==
    /\ last' = [last EXCEPT ![Friend] = @ + 1]
    /\ Comment([id |-> <<Friend, last[Friend] + 1>>, body |-> 0])
    /\ UNCHANGED sameSecond

FriendUncomments ==
    /\ \E i \in DOMAIN comments :
        comments[i].id[1] = Friend /\ DeleteComment(comments[i].id)
    /\ UNCHANGED <<last, sameSecond>>

FriendLikes ==
    /\ ~Contains(likes, Friend)
    /\ Like(Friend)
    /\ UNCHANGED <<last, sameSecond>>

FriendUnlikes ==
    /\ Contains(likes, Friend)
    /\ DeleteLike(Friend)
    /\ UNCHANGED <<last, sameSecond>>

\* enough other entries come to the public feed
Displaced ==
    /\ listed
    /\ listed' = FALSE
    /\ UNCHANGED <<comments, likes, last, sameSecond>>

Elsewhere ==
    /\ \/ Event /\ (FriendComments \/ FriendUncomments \/ FriendLikes \/ FriendUnlikes)
       \/ Displaced /\ UNCHANGED events
    /\ UNCHANGED <<calls, failed>>
=============================================================================
