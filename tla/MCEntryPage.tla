------------------------------ MODULE MCEntryPage ------------------------------
(* EntryPage with its constants as model values.  *)
EXTENDS EntryPage

CONSTANTS ann, bob, cid, dan, eve

TwoFans   == <<cid, dan>>
ThreeFans == <<cid, dan, eve>>
=============================================================================
