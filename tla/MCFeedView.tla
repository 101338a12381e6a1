------------------------------ MODULE MCFeedView ------------------------------
(* FeedView with its constants as model values.  *)
EXTENDS FeedView

CONSTANTS ann, bob, cid, dan, eve

TwoFans   == <<cid, dan>>
ThreeFans == <<cid, dan, eve>>
=============================================================================
