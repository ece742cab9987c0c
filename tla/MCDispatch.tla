------------------------------- MODULE MCDispatch -------------------------------
(* Bounded instances of Dispatch.                                          *)
EXTENDS Dispatch, TLC

CONSTANTS home, user, get, post, c1, c2

\* A literal URL and one that matches everything.
LiteralAndAny == {{home}, {home, user}}
Symmetry      == Permutations({c1, c2}) \cup Permutations({get, post})
=============================================================================
