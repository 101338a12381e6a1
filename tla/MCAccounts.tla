------------------------------ MODULE MCAccounts ------------------------------
(* Accounts with its constants as model values.                             *)
EXTENDS Accounts, TLC

CONSTANTS h1, h2, ann, bob, tweets, mail, secret, twitter, blog

TwoUsers == {ann, bob}

\* a feed info arrives with no service, with a blog or with two blogs
Blog == [id |-> blog, login |-> None]
MCArriving == {<<>>, <<Blog>>, <<Blog, Blog>>}

MCSymmetry == Permutations({h1, h2}) \union Permutations({ann, bob})
=============================================================================
