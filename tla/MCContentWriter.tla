--------------------------- MODULE MCContentWriter ---------------------------
(* An instance of ContentWriter: a source file of up to two pieces. *)
EXTENDS ContentWriter

CONSTANTS x, y

MCChunks     == {x, y}
MCSourceData == {<<>>, <<x>>, <<y, y>>}
MCModes      == {0, 1}
MCOwners     == {"root", "user"}
MCWants      == {[mode |-> 1, owner |-> "user"]}
MCTempNames  == {"t1", "t2"}
MCOthers     == {NoFile, [data |-> <<x, x>>, mode |-> 0, owner |-> "user", synced |-> TRUE]}
=============================================================================
