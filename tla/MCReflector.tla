---------------------------- MODULE MCReflector ----------------------------
(***************************************************************************)
(* Instances of Reflector: a directory d with the entries dx and dy.       *)
(***************************************************************************)
EXTENDS Reflector

CONSTANTS d, dx, dy, c1, Broken

MCAbove == [p \in Paths |-> IF p = d THEN {} ELSE {d}]

NoLinks == [p \in Paths |-> Broken]

\* A link at dx leads to the file at dy beside it.
LinkToFile == [p \in Paths |-> IF p = dx THEN dy ELSE Broken]
=============================================================================
