----------------------------- MODULE MCFsnotify -----------------------------
(***************************************************************************)
(* A directory d with two subdirectories, one of which can hold a file.    *)
(***************************************************************************)
EXTENDS Fsnotify

CONSTANTS d, sub, other, file

MCDirs   == {d, sub, other}
MCFiles  == {file}
MCParent == [p \in MCDirs \cup MCFiles |->
               IF p = d THEN Root ELSE IF p = file THEN sub ELSE d]
MCAbove  == [p \in MCDirs \cup MCFiles |->
               IF p = d THEN {} ELSE IF p = file THEN {d, sub} ELSE {d}]
MCStart  == {{}, {d, sub}}
MCMoved  == {{d, sub, file}, {d, sub, other}}
=============================================================================
