------------------------------- MODULE FeedView -------------------------------
(***************************************************************************)
(* The public feed in the viewer's browser, httpd/templates/_feed.jsx: the *)
(* component Entry of one entry, its children, and the part of Feed that   *)
(* polls the server.                                                       *)
(*                                                                         *)
(* JavaScript runs one callback at a time.  What interleaves is the calls: *)
(* each is made in one step, served in another and answered in a third,    *)
(* in any order over several connections, and its callback works on what   *)
(* it captured when the call was made.  A call may be lost; no call of the *)
(* page has an error handler that changes anything.                        *)
(*                                                                         *)
(* Arrays and comment objects are JavaScript references: a callback may    *)
(* push to the array that is shown, or to one that no longer is.  heap     *)
(* holds the arrays that can still be reached; born tells apart objects    *)
(* with one id that came with different answers.                           *)
(*                                                                         *)
(* Left out: the texts of forms (a form always has one to submit), media,  *)
(* the pager, the look of things.                                          *)
(***************************************************************************)
EXTENDS WebEntry

CONSTANT MaxPolls  \* bound on the polls that are under way

Polls == 1 .. MaxPolls

ASSUME ViewAssumption == MaxPolls \in Nat

VARIABLES
    mounted,   \* the entry is on the page
    state,     \* this.state of its Entry
    deleted,   \* the positions that show "Comment deleted." (state of EntryComment)
    clicked,   \* the last of Limit likes was clicked (expanded of EntryLike)
    heap,      \* reference -> array of comment objects
    polls,     \* the calls of loadFeeds under way
    stale      \* ghost: the array shown is one an answer brought back

page    == <<mounted, state, deleted, clicked>>
viewVars == <<webVars, page, heap, polls, stale>>

Objects == [id : CommentIds \union {Placeholder}, body : Nat,
            is_editing : BOOLEAN, born : Nat]
Pages   == [comments : Seq(Comments), likes : Seq(Likers),
            command : {"like", "unlike"}]
CommentKinds == {"post", "edit", "expandComments"}
LikeKinds    == {"like", "unlike", "expandLikes"}
Kinds        == CommentKinds \union LikeKinds \union {"delete"}

\* what a fresh Entry makes of its props; comments that are absent, null or
\* empty are None
StateOf(array, props) ==
    [comments |-> array, likes |-> props.likes, command |-> props.command,
     new_comment_form |-> FALSE, expanded_likes |-> FALSE,
     expanded_comments |-> FALSE]

NoPage  == [comments |-> <<>>, likes |-> <<>>, command |-> "like"]
NoState == StateOf(None, NoPage)

\* FetchFeed: what a poll is told of the entry
PageOf == [comments |-> FormatComments(comments), likes |-> FormatLikes(likes),
           command |-> LikeCommand(likes)]

-----------------------------------------------------------------------------
(* References.                                                             *)

\* the smallest number that is not in use
Fresh(used) ==
    CHOOSE n \in 1 .. Cardinality(used) + 1 :
        n \notin used /\ \A m \in 1 .. n - 1 : m \in used

NewRef  == Fresh(DOMAIN heap)
NewBorn == Fresh(UNION {{heap[r][i].born : i \in DOMAIN heap[r]} : r \in DOMAIN heap})

ObjectOf(c) == [id |-> c.id, body |-> c.body, is_editing |-> FALSE, born |-> NewBorn]
ObjectsOf(cs) == [i \in DOMAIN cs |-> ObjectOf(cs[i])]

WithArray(r, objects) ==
    [s \in DOMAIN heap \union {r} |-> IF s = r THEN objects ELSE heap[s]]

\* what the page or a callback still refers to
Live == ({state.comments} \union {calls[s].array : s \in {t \in UnderWay : ~calls[t].lost}})
            \ {None}
Collect(h) == heap' = [r \in Live' |-> h[r]]

Shown == IF state.comments = None THEN <<>> ELSE heap[state.comments]
IsEditing(id) == \E i \in DOMAIN Shown : Shown[i].id = id /\ Shown[i].is_editing

\* mutant of SetState: an EntryComment does not take its props again
SetStateOnce(new) ==
    /\ state' = new
    /\ UNCHANGED deleted
    /\ clicked' = (clicked /\ Len(new.likes) = Limit)

\* this.setState: every EntryComment takes its props again, and an EntryLike
\* stays only where it was
SetState(new) ==
    /\ state' = new
    /\ deleted' = {}
    /\ clicked' = (clicked /\ Len(new.likes) = Limit)

-----------------------------------------------------------------------------
(* Calls.                                                                  *)

NewCall(kind, id, array) ==
    [kind |-> kind, id |-> id, body |-> events + 1, array |-> array,
     entry |-> TRUE, self |-> TRUE, served |-> FALSE, lost |-> FALSE, answer |-> <<>>]

ViewInit ==
    /\ WebInit
    /\ mounted = TRUE
    /\ state = StateOf(IF comments = <<>> THEN None ELSE 1, PageOf)
    /\ deleted = {} /\ clicked = FALSE
    /\ heap = [r \in {state.comments} \ {None} |->
                [i \in DOMAIN PageOf.comments |->
                    [id |-> PageOf.comments[i].id, body |-> 0,
                     is_editing |-> FALSE, born |-> 1]]]
    /\ polls = [p \in Polls |-> None]
    /\ stale = FALSE

-----------------------------------------------------------------------------
(* What the viewer does.                                                   *)

HandleNewComment ==
    /\ mounted /\ ~state.new_comment_form
    /\ SetState([state EXCEPT !.new_comment_form = TRUE])
    /\ UNCHANGED <<webVars, mounted, heap, polls, stale>>

\* a new comment; the form stays until the answer, and can be used again
SubmitNew ==
    /\ mounted /\ state.new_comment_form
    /\ LET array == IF state.comments = None THEN NewRef ELSE state.comments
       IN  /\ Send(NewCall("post", None, array))
           /\ heap' = WithArray(array, Shown)
    /\ UNCHANGED <<page, polls, stale>>

\* an edited comment, from the form that stands in its place
SubmitEdit(id) ==
    /\ mounted /\ IsEditing(id)
    /\ Send(NewCall("edit", id, state.comments))
    /\ UNCHANGED <<page, heap, polls, stale>>

CancelNew ==
    /\ mounted /\ state.new_comment_form
    /\ SetState([state EXCEPT !.new_comment_form = FALSE])
    /\ UNCHANGED <<webVars, mounted, heap, polls, stale>>

\* editComment and cancelComment set the flag of the objects themselves, which
\* other arrays may hold too, and show a copy of the array
SetEditing(id, flag) ==
    LET objects == {<<Shown[i].id, Shown[i].born>> :
                        i \in {j \in DOMAIN Shown : Shown[j].id = id}}
        marked(o) == IF <<o.id, o.born>> \in objects
                     THEN [o EXCEPT !.is_editing = flag] ELSE o
        h == [r \in DOMAIN heap \union {NewRef} |->
                LET array == IF r = NewRef THEN Shown ELSE heap[r]
                IN  [i \in DOMAIN array |-> marked(array[i])]]
    IN  /\ SetState([state EXCEPT !.comments = NewRef])
        /\ UNCHANGED <<webVars, mounted, polls, stale>>
        /\ Collect(h)

\* the comments of the viewer have the commands edit and delete
OwnComment(i) ==
    /\ mounted /\ i \in DOMAIN Shown \ deleted
    /\ Shown[i].id # Placeholder /\ Shown[i].id[1] = Viewer
    /\ ~Shown[i].is_editing

EditComment(i) == OwnComment(i) /\ SetEditing(Shown[i].id, TRUE)

CancelEdit(id) == mounted /\ IsEditing(id) /\ SetEditing(id, FALSE)

\* the callback is not passed to postJSON: the answer changes nothing
ClickDelete(i) ==
    /\ OwnComment(i)
    /\ Send(NewCall("delete", Shown[i].id, None))
    /\ deleted' = deleted \union {i}
    /\ UNCHANGED <<mounted, state, clicked, heap, polls, stale>>

ExpandComments(i) ==
    /\ mounted /\ i \in DOMAIN Shown \ deleted
    /\ Shown[i].id = Placeholder
    /\ Send(NewCall("expandComments", None, None))
    /\ UNCHANGED <<page, heap, polls, stale>>

ExpandLikes ==
    /\ mounted /\ Contains(state.likes, Placeholder)
    /\ ~clicked
    /\ Send(NewCall("expandLikes", None, None))
    /\ clicked' = TRUE
    /\ UNCHANGED <<mounted, state, deleted, heap, polls, stale>>

\* the link shows the command; nothing stops a second click
HandleLike ==
    /\ mounted
    /\ Send(NewCall(state.command, None, None))
    /\ UNCHANGED <<page, heap, polls, stale>>

ViewerActs ==
    \/ HandleNewComment \/ SubmitNew \/ CancelNew \/ HandleLike \/ ExpandLikes
    \/ \E i \in DOMAIN Shown :
        \/ EditComment(i) \/ ClickDelete(i) \/ ExpandComments(i)
        \/ SubmitEdit(Shown[i].id) \/ CancelEdit(Shown[i].id)

\* Feed: componentDidMount sets a timer of 30 seconds
LoadFeeds ==
    /\ \E p \in Polls :
        /\ polls[p] = None
        /\ \A q \in 1 .. p - 1 : polls[q] # None
        /\ polls' = [polls EXCEPT ![p] = [served |-> FALSE, here |-> FALSE, page |-> NoPage]]
    /\ UNCHANGED <<webVars, page, heap, stale>>

-----------------------------------------------------------------------------
(* The server serves a call.                                               *)

\* mutant of ServeLikes: they are collapsed in this answer too
ServeLikesCollapsed(s) == Answered(s, FormatLikes(likes)) /\ UNCHANGED served

\* ExpandLikeHandler
ServeLikes(s) == Answered(s, likes) /\ UNCHANGED served

Handle(call, s) ==
    \/ call.kind = "post" /\ ServePost(s)
    \/ call.kind \in {"like", "unlike"} /\ ServeLike(s)
    \/ call.kind = "expandComments" /\ ServeComments(s)
    \/ call.kind = "expandLikes" /\ ServeLikes(s)
    \/ /\ call.kind = "edit"
       /\ Comment([id |-> call.id, body |-> call.body])
       /\ Answered(s, <<[id |-> call.id, body |-> call.body]>>)
       /\ UNCHANGED <<last, sameSecond>>
    \/ /\ call.kind = "delete"
       /\ DeleteComment(call.id)
       /\ End(s)
       /\ UNCHANGED <<last, sameSecond>>

Serve(s) ==
    /\ calls[s] # None /\ ~calls[s].served
    /\ Handle(calls[s], s)
    /\ UNCHANGED <<page, heap, polls, failed, events, stale>>

ServePoll(p) ==
    /\ polls[p] # None /\ ~polls[p].served
    /\ polls' = [polls EXCEPT ![p] = [served |-> TRUE, here |-> listed,
                                     page |-> IF listed THEN PageOf ELSE NoPage]]
    /\ UNCHANGED <<webVars, page, heap, stale>>

-----------------------------------------------------------------------------
(* An answer arrives.                                                      *)

\* mutant of AnswerPost: the comment is pushed to the array that is shown
AnswerPostShown(call, s) ==
    /\ call.kind = "post"
    /\ End(s)
    /\ LET array == IF state.comments = None THEN NewRef ELSE state.comments
       IN  /\ SetState([state EXCEPT !.comments = array, !.new_comment_form = FALSE])
           /\ Collect(WithArray(array, Append(Shown, ObjectOf(call.answer[1]))))
    /\ UNCHANGED stale

\* submitComment: the new comment is pushed to the array that was captured
AnswerPost(call, s) ==
    /\ call.kind = "post"
    /\ End(s)
    /\ SetState([state EXCEPT !.comments = call.array, !.new_comment_form = FALSE])
    /\ stale' = (stale \/ call.array # state.comments)
    /\ Collect(WithArray(call.array, Append(heap[call.array], ObjectOf(call.answer[1]))))

\* and an edited one takes its place in a copy of it
AnswerEdit(call, s) ==
    /\ call.kind = "edit"
    /\ End(s)
    /\ SetState([state EXCEPT !.comments = NewRef])
    /\ stale' = (stale \/ call.array # state.comments)
    /\ Collect(WithArray(NewRef,
            [i \in DOMAIN heap[call.array] |->
                IF heap[call.array][i].id = call.id THEN ObjectOf(call.answer[1])
                ELSE heap[call.array][i]]))

AnswerComments(call, s) ==
    /\ call.kind = "expandComments"
    /\ End(s)
    /\ SetState([state EXCEPT !.expanded_comments = TRUE,
                             !.comments = IF call.answer = <<>> THEN None ELSE NewRef])
    /\ stale' = FALSE
    /\ Collect(WithArray(NewRef, ObjectsOf(call.answer)))

AnswerLikes(call, s) ==
    /\ call.kind = "expandLikes"
    /\ End(s)
    /\ SetState([state EXCEPT !.expanded_likes = TRUE, !.likes = call.answer])
    /\ UNCHANGED <<heap, stale>>

\* the command is changed in the entry that was captured: the page shows it
\* only if no poll has brought another since
AnswerLike(call, s) ==
    /\ call.kind \in {"like", "unlike"}
    /\ End(s)
    /\ SetState([state EXCEPT
            !.likes = call.answer,
            !.command = IF ~call.entry THEN state.command
                        ELSE IF call.kind = "like" THEN "unlike" ELSE "like"])
    /\ UNCHANGED <<heap, stale>>

Answer(s) ==
    /\ calls[s] # None /\ calls[s].served
    /\ \/ /\ calls[s].self
          /\ \/ AnswerPost(calls[s], s) \/ AnswerEdit(calls[s], s)
             \/ AnswerComments(calls[s], s) \/ AnswerLikes(calls[s], s)
             \/ AnswerLike(calls[s], s)
       \/ \* the Entry that made the call is gone: setState does nothing
          /\ ~calls[s].self
          /\ End(s)
          /\ UNCHANGED <<state, deleted, clicked, heap, stale>>
    /\ UNCHANGED <<served, failed, events, mounted, polls>>

\* what the calls under way hold when a poll replaces the entry, or its Entry
OldEntries ==
    calls' = [s \in Slots |-> IF calls[s] = None THEN None
                              ELSE [calls[s] EXCEPT !.entry = FALSE]]
Orphans ==
    calls' = [s \in Slots |->
        IF calls[s] = None THEN None
        ELSE [calls[s] EXCEPT !.entry = FALSE, !.self = FALSE, !.array = None]]

\* mutants of TakesComments: expanded comments are replaced; a form is closed;
\* only more comments than there are replace them
TakesCollapsed(props) ==
    props.comments # <<>> /\ \A i \in DOMAIN Shown : ~Shown[i].is_editing
TakesAnyway(props) == ~state.expanded_comments /\ props.comments # <<>>
TakesMore(props) ==
    /\ ~state.expanded_comments
    /\ Len(props.comments) > Len(Shown)
    /\ \A i \in DOMAIN Shown : ~Shown[i].is_editing

\* a poll without comments does not take them off the page, and one that would
\* close a form, or hide what was expanded, does not touch them
TakesComments(props) ==
    /\ ~state.expanded_comments
    /\ props.comments # <<>>
    /\ \A i \in DOMAIN Shown : ~Shown[i].is_editing

\* mutant of ComponentWillReceiveProps: the state keeps the former entry
PropsKeepEntry(props) ==
    /\ mounted
    /\ SetState([state EXCEPT
            !.comments = IF TakesComments(props) THEN NewRef ELSE state.comments,
            !.likes = IF state.expanded_likes THEN state.likes ELSE props.likes])
    /\ UNCHANGED <<mounted, calls>>
    /\ Collect(WithArray(NewRef, ObjectsOf(props.comments)))
    /\ stale' = (stale /\ ~TakesComments(props))

ComponentWillReceiveProps(props) ==
    /\ mounted
    /\ SetState([state EXCEPT
            !.command = props.command,
            !.comments = IF TakesComments(props) THEN NewRef ELSE state.comments,
            !.likes = IF state.expanded_likes THEN state.likes ELSE props.likes])
    /\ OldEntries
    /\ Collect(WithArray(NewRef, ObjectsOf(props.comments)))
    /\ stale' = (stale /\ ~TakesComments(props))
    /\ UNCHANGED mounted

GetInitialState(props) ==
    /\ ~mounted
    /\ mounted' = TRUE
    /\ UNCHANGED calls
    /\ SetState(StateOf(IF props.comments = <<>> THEN None ELSE NewRef, props))
    /\ Collect(WithArray(NewRef, ObjectsOf(props.comments)))
    /\ stale' = FALSE

Unmount ==
    /\ mounted' = FALSE
    /\ SetState(NoState)
    /\ Orphans
    /\ Collect(heap)
    /\ stale' = FALSE

\* the answer of loadFeeds renders the feed again
AnswerPoll(p) ==
    /\ polls[p] # None /\ polls[p].served
    /\ polls' = [polls EXCEPT ![p] = None]
    /\ \/ /\ polls[p].here
          /\ ComponentWillReceiveProps(polls[p].page) \/ GetInitialState(polls[p].page)
       \/ ~polls[p].here /\ Unmount
    /\ UNCHANGED <<served, failed, events>>

Lose ==
    /\ \/ /\ \E s \in UnderWay : Fail(s)
          /\ UNCHANGED polls
       \/ /\ Event
          /\ failed' = TRUE
          /\ \E p \in Polls : polls[p] # None /\ polls' = [polls EXCEPT ![p] = None]
          /\ UNCHANGED calls
    /\ UNCHANGED <<served, page, stale>>
    /\ Collect(heap)

ViewNext ==
    \/ ViewerActs
    \/ LoadFeeds
    \/ \E s \in Slots : Serve(s) \/ Answer(s)
    \/ \E p \in Polls : ServePoll(p) \/ AnswerPoll(p)
    \/ Lose
    \/ Elsewhere /\ UNCHANGED <<page, heap, polls, stale>>

ViewSpec == ViewInit /\ [][ViewNext]_viewVars

\* the timer goes on and the server answers; a viewer need not do anything
ViewFairSpec ==
    /\ ViewSpec
    /\ WF_viewVars(LoadFeeds)
    /\ \A s \in Slots : WF_viewVars(Serve(s)) /\ WF_viewVars(Answer(s))
    /\ \A p \in Polls : WF_viewVars(ServePoll(p)) /\ WF_viewVars(AnswerPoll(p))

-----------------------------------------------------------------------------
ViewTypeOK ==
    /\ comments \in Seq(Comments) /\ likes \in Seq(Users)
    /\ listed \in BOOLEAN /\ last \in [Users -> Nat]
    /\ sameSecond \in BOOLEAN /\ failed \in BOOLEAN /\ events \in Nat
    /\ mounted \in BOOLEAN /\ stale \in BOOLEAN /\ clicked \in BOOLEAN
    /\ state.comments \in DOMAIN heap \union {None}
    /\ state.likes \in Seq(Likers)
    /\ state.command \in {"like", "unlike"}
    /\ {state.new_comment_form, state.expanded_likes, state.expanded_comments} \subseteq BOOLEAN
    /\ deleted \subseteq DOMAIN Shown
    /\ \A r \in DOMAIN heap : r \in Nat /\ heap[r] \in Seq(Objects)
    /\ \A s \in Slots : calls[s] # None =>
        /\ calls[s].kind \in Kinds
        /\ ~calls[s].lost => calls[s].array \in DOMAIN heap \union {None}
        /\ calls[s].self /\ calls[s].kind \in {"post", "edit"} => calls[s].array # None
        /\ calls[s].kind \in CommentKinds => calls[s].answer \in Seq(Comments)
        /\ calls[s].kind \in LikeKinds => calls[s].answer \in Seq(Likers)
    /\ \A p \in Polls : polls[p] # None => polls[p].page \in Pages

\* The page shows a comment once: whatever polls and answers overtake each other,
\* a comment of the viewer is not both in an array a poll brought and pushed to
\* it by the answer of its post.  Two posts in one second are the exception:
\* they get one id, and the page shows it twice until it polls.
ShownOnce ==
    ~sameSecond =>
        \A i, j \in DOMAIN Shown : Shown[i].id = Shown[j].id => i = j

\* Once the viewer has expanded the comments they stay expanded: a later poll,
\* or one that was under way, does not collapse them again.  Only the answer of
\* a post or an edit that brings back an array no longer shown does.
ExpandedStays ==
    state.expanded_comments /\ (\E i \in DOMAIN Shown : Shown[i].id = Placeholder)
        => stale

\* A form in which the viewer edits a comment is not closed under his hands by
\* a poll: on a page that stays, it goes when he cancels it, when its own edit is
\* answered, when he expands the comments, or when an answer brings back an
\* array that is no longer shown.
EditFormKept ==
    [][\A id \in {Shown[i].id : i \in DOMAIN Shown} :
        IsEditing(id) /\ mounted' /\ ~IsEditing(id)' =>
            \/ UNCHANGED <<calls, polls>>
            \/ \E s \in Slots :
                /\ calls[s] # None /\ calls'[s] = None /\ calls[s].served
                /\ \/ calls[s].kind = "expandComments"
                   \/ calls[s].kind = "edit" /\ calls[s].id = id
                   \/ calls[s].array # state.comments]_viewVars

\* The comments on the page come to be those of the server, though answers
\* overtook each other, calls were lost and forms were left open, once the
\* viewer edits none of them, they are not expanded and the server has some.
CommentsSettle ==
    <>[](/\ mounted /\ ~state.expanded_comments /\ comments # <<>>
         /\ \A i \in DOMAIN Shown : ~Shown[i].is_editing)
        => <>[]([i \in DOMAIN Shown |-> [id |-> Shown[i].id, body |-> Shown[i].body]]
                    = FormatComments(comments))

\* And the likes it has, unless they are expanded, with the link to like or
\* unlike that goes with them.
LikesSettle ==
    <>[](mounted => /\ state.command = LikeCommand(likes)
                    /\ ~state.expanded_likes => state.likes = FormatLikes(likes))

\* A click on "n other people" comes to show them, if the entry stays on the page
\* and no call is lost: the link takes no second click (after a lost call it
\* stays dead until the number of likes shown changes).
LikesExpand ==
    clicked ~> ~Contains(state.likes, Placeholder) \/ ~mounted \/ failed
=============================================================================
