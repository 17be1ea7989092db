----------------------------- MODULE MCSyncPath -----------------------------
(***************************************************************************)
(* Instances of SyncPath: contents a and b have the same size (only their  *)
(* hashes tell them apart), c has another.                                 *)
(***************************************************************************)
EXTENDS SyncPath

CONSTANTS a, b, c

MCContents == {a, b, c}
MCSizeOf   == [x \in MCContents |-> IF x = c THEN 2 ELSE 1]
MCModes    == {0, 1}
MCUids     == {0, 1}
MCGids     == {0, 1}
MCProcess  == [uid |-> 0, gid |-> 0]

Mk(kind, mode, uid, gid, content) ==
    [kind |-> kind, mode |-> mode, uid |-> uid, gid |-> gid, content |-> content]

Plain(e)     == [entry |-> e, pointee |-> NoEntry]
LinkTo(e)    == [entry |-> Mk("symlink", 1, 0, 0, NoContent), pointee |-> e]

MCSourceStates ==
    {Plain(NoEntry), Plain(Mk("file", 1, 1, 0, a)), Plain(Mk("file", 0, 1, 1, b)),
     Plain(Mk("file", 1, 0, 0, c)), Plain(Mk("dir", 1, 1, 0, NoContent)),
     LinkTo(NoEntry), LinkTo(Mk("file", 1, 0, 1, b)),
     LinkTo(Mk("dir", 1, 0, 1, NoContent))}

MCDrifts ==
    {NoEntry, Mk("file", 1, 1, 0, a), Mk("file", 0, 0, 1, b),
     Mk("dir", 0, 1, 0, NoContent), Mk("symlink", 1, 0, 0, NoContent)}

\* --file-mode and --owner configured, --dir-mode not.
SomeOverrides ==
    [FileMode |-> 0, DirMode |-> Unset, UID |-> 1, GID |-> 1]
=============================================================================
