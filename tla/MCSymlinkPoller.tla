-------------------------- MODULE MCSymlinkPoller --------------------------
(***************************************************************************)
(* A directory d with an entry dx, and an entry e beside it; dx and e can  *)
(* be links.                                                               *)
(***************************************************************************)
EXTENDS SymlinkPoller

CONSTANTS d, dx, e, c1, Broken

MCAbove == [p \in Paths |-> IF p = dx THEN {d} ELSE {}]

Unfollowed == [p \in Paths |-> Broken]
=============================================================================
