------------------------------ MODULE FileNodes ------------------------------
(***************************************************************************)
(* What an entry of a tree is, what Stat reports of it, and the attribute  *)
(* overrides the agent applies to the source side before comparing.        *)
(*                                                                         *)
(* A content is an opaque value with a size; permission bits and ids are   *)
(* naturals.  The zero FileNode of the code (an absent path) has mode and  *)
(* ids 0.                                                                  *)
(***************************************************************************)
EXTENDS Integers

CONSTANTS
    Contents,       \* the contents a regular file can have
    NoContent,      \* what an entry that is not a regular file holds
    SizeOf,         \* the size in bytes of each content
    Modes,          \* permission bits
    Uids, Gids,     \* numeric owners
    Unset,          \* an override that was not configured (a nil pointer)
    Overrides,      \* the configured MetadataOverrides
    FollowSymlinks  \* followSymlinks of the source's reader: the container sets it

Kinds == {"absent", "file", "dir", "symlink"}

MetadataOverrides ==
    [FileMode : Modes \cup {Unset}, DirMode : Modes \cup {Unset},
     UID : Uids \cup {Unset}, GID : Gids \cup {Unset}]

ASSUME ContentsAssumption == NoContent \notin Contents
ASSUME SizeAssumption     == SizeOf \in [Contents -> Nat]
ASSUME AttrAssumption     == /\ Modes \subseteq Nat /\ 0 \in Modes
                             /\ Uids \subseteq Nat  /\ 0 \in Uids
                             /\ Gids \subseteq Nat  /\ 0 \in Gids
ASSUME OverrideAssumption == Overrides \in MetadataOverrides
ASSUME FollowAssumption   == FollowSymlinks \in BOOLEAN

(***************************************************************************)
(* Entries of the file system and the FileNodes that describe them.        *)
(***************************************************************************)
Entry ==
    [kind : Kinds, mode : Modes, uid : Uids, gid : Gids,
     content : Contents \cup {NoContent}]

\* Only regular files have content.
ProperEntry == {e \in Entry : (e.kind = "file") <=> (e.content \in Contents)}

NoEntry == [kind |-> "absent", mode |-> 0, uid |-> 0, gid |-> 0, content |-> NoContent]

FileNode == [kind : Kinds, mode : Modes, uid : Uids, gid : Gids, size : Nat]

AbsentNode == [kind |-> "absent", mode |-> 0, uid |-> 0, gid |-> 0, size |-> 0]

\* Lstat of an entry.  The size of anything but a regular file is never compared.
NodeOf(e) ==
    [kind |-> e.kind, mode |-> e.mode, uid |-> e.uid, gid |-> e.gid,
     size |-> IF e.kind = "file" THEN SizeOf[e.content] ELSE 0]

(***************************************************************************)
(* Stat of the source: e is the entry itself, pointee what the link leads  *)
(* to when e is one (an absent pointee is a broken, looping or escaping    *)
(* link).  A following reader reports the resolved file, and absent for    *)
(* links without a file behind them.                                       *)
(***************************************************************************)
StatSource(e, pointee) ==
    IF FollowSymlinks /\ e.kind = "symlink"
    THEN IF pointee.kind = "file" THEN NodeOf(pointee) ELSE AbsentNode
    ELSE NodeOf(e)

Override(value, default) == IF value = Unset THEN default ELSE value

\* MetadataOverrides.apply: only regular files and directories are affected.
apply(node) ==
    CASE node.kind \in {"file", "dir"} ->
           [node EXCEPT
              !.mode = Override(IF node.kind = "file" THEN Overrides.FileMode
                                                      ELSE Overrides.DirMode, @),
              !.uid  = Override(Overrides.UID, @),
              !.gid  = Override(Overrides.GID, @)]
      [] OTHER -> node

\* What the target has to look like for this source: a symlink counts as absent.
Wanted(e, pointee) ==
    LET n == StatSource(e, pointee)
    IN  apply(IF n.kind = "symlink" THEN AbsentNode ELSE n)

\* The content a reader of the source path gets when the path can be opened.
ContentBehind(e, pointee) ==
    IF e.kind = "symlink" THEN pointee.content ELSE e.content
=============================================================================
