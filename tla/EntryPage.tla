------------------------------ MODULE EntryPage ------------------------------
(***************************************************************************)
(* An entry on a page that httpd/templates/feed.html renders, /feed/:name  *)
(* or /e/:uuid, and the handlers of httpd/static/js/application.js, which  *)
(* edit the page in the viewer's browser.  Nothing polls: what the page    *)
(* shows is what it was served with and what the answers to its own calls  *)
(* made of it.                                                             *)
(*                                                                         *)
(* A call may be lost; none has an error handler.  Left out: the texts,    *)
(* the likes, which these handlers never touch, and the commands hide and  *)
(* unhide, for which the server has no route.                              *)
(***************************************************************************)
EXTENDS WebEntry

VARIABLES
    link,       \* the command the link to like or unlike has as its class
    divs,       \* the ids of the comments on the page, in order
    form,       \* the comment form: None, Open, or the slot of the call that
                \* submitted it and will remove it
    crossed,    \* ghost: a like and an unlike were under way together, or one
                \* of them was lost, since the page was last quiet
    overtaken,  \* ghost: a post and an expansion were under way together
    posted      \* ghost: the comments of the viewer that were answered

entryVars == <<link, divs, form, crossed, overtaken, posted>>
pageVars  == <<webVars, entryVars>>

Open == 0

LikeCalls == {"like", "unlike"}

\* a call of the page, before and after its answer
Clicks == [kind : LikeCalls \union {"post", "expandComments"}, body : Nat,
           served : BOOLEAN, lost : BOOLEAN, answer : Seq(Comments) \union Seq(Likers)]

ASSUME ClickAssumption == None \notin Clicks

OfKind(kinds) == {s \in UnderWay : calls[s].kind \in kinds}

Ids(cs) == [i \in DOMAIN cs |-> cs[i].id]

\* the page of an entry shows all comments, that of a feed collapses them
PageInit ==
    /\ WebInit
    /\ link = LikeCommand(likes)
    /\ divs \in {Ids(comments), Ids(FormatComments(comments))}
    /\ form = None
    /\ crossed = FALSE /\ overtaken = FALSE /\ posted = {}

-----------------------------------------------------------------------------
(* Clicks.                                                                 *)

NewClick(kind) ==
    [kind |-> kind, body |-> events + 1, served |-> FALSE, lost |-> FALSE,
     answer |-> <<>>]

\* .commentcommand: one form in an entry
ClickComment ==
    /\ form = None
    /\ form' = Open
    /\ UNCHANGED <<webVars, link, divs, crossed, overtaken, posted>>

\* the form is disabled, and the call remembers it
SubmitForm ==
    /\ form = Open
    /\ Send(NewClick("post"))
    /\ form' \in Slots /\ calls[form'] # calls'[form']
    /\ overtaken' = (overtaken \/ OfKind({"expandComments"}) # {})
    /\ UNCHANGED <<link, divs, crossed, posted>>

\* .likecommand and .unlikecommand: nothing stops a second click
ClickLink ==
    /\ Send(NewClick(link))
    /\ crossed' = /\ OfKind(LikeCalls) # {}
                  /\ crossed \/ OfKind(LikeCalls \ {link}) # {}
    /\ UNCHANGED <<link, divs, form, overtaken, posted>>

\* .expandcomments
ClickExpand ==
    /\ Contains(divs, Placeholder)
    /\ Send(NewClick("expandComments"))
    /\ overtaken' = (overtaken \/ OfKind({"post"}) # {})
    /\ UNCHANGED <<link, divs, form, crossed, posted>>

-----------------------------------------------------------------------------
(* Answers.                                                                *)

ServeClick(s) ==
    /\ s \in UnderWay /\ ~calls[s].served
    /\ \/ calls[s].kind = "post" /\ ServePost(s)
       \/ calls[s].kind \in LikeCalls /\ ServeLike(s)
       \/ calls[s].kind = "expandComments" /\ ServeComments(s)
    /\ UNCHANGED <<failed, events, entryVars>>

\* mutant of AppendComment: the form stays
AppendBelowForm(s) ==
    /\ calls[s].kind = "post"
    /\ divs' = divs \o Ids(calls[s].answer)
    /\ posted' = posted \union {calls[s].answer[1].id}
    /\ UNCHANGED <<link, form, crossed, overtaken>>

\* the form of this call is removed, which may be gone already, and the new
\* comment is put at the end
AppendComment(s) ==
    /\ calls[s].kind = "post"
    /\ form' = IF form = s THEN None ELSE form
    /\ divs' = divs \o Ids(calls[s].answer)
    /\ posted' = posted \union {calls[s].answer[1].id}
    /\ UNCHANGED <<link, crossed, overtaken>>

\* mutant of ToggleLink: the class is switched, whatever the call was
SwitchLink(s) ==
    /\ calls[s].kind \in LikeCalls
    /\ link' = IF link = "like" THEN "unlike" ELSE "like"
    /\ UNCHANGED <<divs, form, crossed, overtaken, posted>>

ToggleLink(s) ==
    /\ calls[s].kind \in LikeCalls
    /\ link' = IF calls[s].kind = "like" THEN "unlike" ELSE "like"
    /\ UNCHANGED <<divs, form, crossed, overtaken, posted>>

\* mutant of ReplaceComments: only the placeholder is removed
ReplacePlaceholder(s) ==
    /\ calls[s].kind = "expandComments"
    /\ divs' = SelectSeq(divs, LAMBDA id : id # Placeholder) \o Ids(calls[s].answer)
    /\ UNCHANGED <<link, form, crossed, overtaken, posted>>

\* entry.find(".comment") finds the form too
ReplaceComments(s) ==
    /\ calls[s].kind = "expandComments"
    /\ divs' = Ids(calls[s].answer)
    /\ form' = None
    /\ UNCHANGED <<link, crossed, overtaken, posted>>

AnswerClick(s) ==
    /\ s \in UnderWay /\ calls[s].served
    /\ AppendComment(s) \/ ToggleLink(s) \/ ReplaceComments(s)
    /\ End(s)
    /\ UNCHANGED <<served, failed, events>>

LoseClick(s) ==
    /\ s \in UnderWay
    /\ Fail(s)
    /\ crossed' = (crossed \/ calls[s].kind \in LikeCalls)
    /\ UNCHANGED <<served, link, divs, form, overtaken, posted>>

PageNext ==
    \/ ClickComment \/ SubmitForm \/ ClickLink \/ ClickExpand
    \/ \E s \in Slots : ServeClick(s) \/ AnswerClick(s) \/ LoseClick(s)
    \/ Elsewhere /\ UNCHANGED entryVars

PageSpec == PageInit /\ [][PageNext]_pageVars

-----------------------------------------------------------------------------
\* Types; and a form that is disabled waits for the answer to its own post, which
\* frees it, unless a call was lost (then it stays disabled for good).
PageTypeOK ==
    /\ calls \in [Slots -> Clicks \union {None}]
    /\ link \in LikeCalls
    /\ divs \in Seq(CommentIds \union {Placeholder})
    /\ form \in {None, Open} \union Slots
    /\ crossed \in BOOLEAN /\ overtaken \in BOOLEAN
    /\ posted \subseteq CommentIds
    /\ form \in Slots => failed \/ form \in OfKind({"post"})

\* However often the viewer clicks while answers are on their way, and in
\* whatever order they are served and answered, the link offers what the server
\* would do when all are answered: to like an entry not liked, to unlike one that
\* is.  The exceptions are a like and an unlike that cross and a call that is
\* lost; the next click that meets a quiet page puts them right.
LinkAgrees ==
    ~crossed /\ OfKind(LikeCalls) = {} => link = LikeCommand(likes)

\* A comment whose post was answered is on the page once: the answers to later
\* expansions bring it and those of earlier ones do not take it away.  The
\* exceptions are an expansion under way together with a post, and two
\* posts in one second.
PostedOnce ==
    ~sameSecond /\ ~overtaken =>
        \A id \in posted : Cardinality({i \in DOMAIN divs : divs[i] = id}) = 1
=============================================================================
