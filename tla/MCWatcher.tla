------------------------------ MODULE MCWatcher ------------------------------
(***************************************************************************)
(* A watched tree and the symlink poller: f is an ordinary path, l a link  *)
(* that only the poller reports.                                           *)
(***************************************************************************)
EXTENDS Watcher

CONSTANTS fsnotify, poller, f, l

MCSources == {fsnotify, poller}
MCPaths   == {f, l}
MCWatches == [s \in MCSources |-> IF s = fsnotify THEN {f} ELSE {}]
MCSweeps  == [s \in MCSources |-> IF s = poller THEN {l} ELSE {}]
MCBuffer  == [s \in MCSources |-> IF s = fsnotify THEN 1 ELSE 0]
=============================================================================
