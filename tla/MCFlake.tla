------------------------------- MODULE MCFlake -------------------------------
(* Flake with two callers.                                                  *)
EXTENDS Flake

CONSTANTS c1, c2
=============================================================================
