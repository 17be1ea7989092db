------------------------------- MODULE Trees -------------------------------
(***************************************************************************)
(* The two directory trees, and what SyncPath.Execute does to the target   *)
(* tree for one path.  Module SyncPath has the calls of Execute on a       *)
(* single path; here the paths above and below it matter, and attributes   *)
(* do not.                                                                 *)
(*                                                                         *)
(* A tree gives every path its node: Absent, Dir, Link, or the content of  *)
(* a regular file.                                                         *)
(***************************************************************************)
EXTENDS Naturals

CONSTANTS
    Paths,     \* the paths of either tree, without the root
    Above,     \* the directories above each path, without the root
    Ignored,   \* the paths the matcher matches
    Contents,  \* the contents of regular files
    Linkable,  \* where the source can have symbolic links
    Behind,    \* the path that a path leads to, if it or a directory above it is a link
    Nowhere    \* where a broken link leads

Absent == "absent"
Dir    == "dir"
Link   == "link"
NotDir == "not a directory"   \* the error below a regular file

Nodes == {Absent, Dir, Link} \cup Contents

Lineage(p)  == {p} \cup Above[p]
Below(p)    == {q \in Paths : p \in Above[q]}
Children(p) == {q \in Paths : Above[q] = Lineage(p)}
Tops        == {q \in Paths : Above[q] = {}}

\* A tree: the directories above a path form a chain from the top down to it.
ASSUME PathsAssumption ==
    /\ Above \in [Paths -> SUBSET Paths]
    /\ Ignored \subseteq Paths
    /\ \A p \in Paths :
         /\ p \notin Above[p]
         /\ \A a \in Above[p] : Above[a] \subseteq Above[p]
         /\ \A a, b \in Above[p] : a \in Lineage(b) \/ b \in Above[a]
         /\ \E c \in Lineage(p) : c \in Tops
         /\ \A a \in Above[p] : \E c \in Lineage(p) : c \in Children(a)
ASSUME NodesAssumption ==
    Contents \cap {Absent, Dir, Link, NotDir} = {}
\* Links lead to paths that are neither links nor below one.
ASSUME LinksAssumption ==
    /\ Nowhere \notin Paths
    /\ Linkable \subseteq Paths
    /\ Behind \in [Paths -> Paths \cup {Nowhere}]
    /\ \A p \in Paths :
         Behind[p] # Nowhere => ({Behind[p]} \cup Above[Behind[p]]) \cap Linkable = {}

\* Neither the path nor a directory above it is ignored: the agent's domain.
Covered == {p \in Paths : Lineage(p) \cap Ignored = {}}

Tree == {t \in [Paths -> Nodes] :
           /\ \A p \in Paths : t[p] # Absent => \A a \in Above[p] : t[a] = Dir
           /\ \A p \in Paths : t[p] = Link => p \in Linkable}

\* Links that somebody else puts into the target are left to module SyncPath.
TargetTree == {t \in Tree : \A p \in Paths : t[p] # Link}

Empty == [p \in Paths |-> Absent]

(***************************************************************************)
(* Reading.  The kernel follows links in the directories above a path.     *)
(***************************************************************************)
Resolve(t, p) == IF \E a \in Above[p] : t[a] = Link THEN Behind[p] ELSE p

Lstat(t, p) ==
    LET q == Resolve(t, p)
    IN  IF q = Nowhere THEN Absent
        ELSE IF \E a \in Above[q] : t[a] \in Contents THEN NotDir
        ELSE t[q]

\* Stat of the source, where a link stands for the file behind it or for nothing.
StatSource(t, p) ==
    IF Lstat(t, p) # Link THEN Lstat(t, p)
    ELSE IF Behind[p] # Nowhere /\ Lstat(t, Behind[p]) \in Contents
         THEN Lstat(t, Behind[p])
         ELSE Absent

\* What the target has to hold at the path.
Wanted(t, p) ==
    IF \A a \in Above[p] : t[a] = Dir THEN StatSource(t, p) ELSE Absent

Differs(s, t) == {p \in Covered : t[p] # Wanted(s, p)}

(***************************************************************************)
(* Writing.                                                                *)
(***************************************************************************)
RemoveAll(t, p) == [q \in Paths |-> IF p \in Lineage(q) THEN Absent ELSE t[q]]

\* Slip: Mkdir makes the leaf only.
MkdirLeaf(t, p) == [t EXCEPT ![p] = Dir]

Mkdir(t, p) == [q \in Paths |-> IF q \in Lineage(p) THEN Dir ELSE t[q]]

Outcome(t, ok) == [tree |-> t, ok |-> ok]

\* The entry is there and of another kind than the wanted one.
WrongKind(want, have) ==
    /\ NotDir \notin {want, have} /\ have # Absent
    /\ want # Dir \/ have # Dir
    /\ want \notin Contents \/ have \notin Contents

(***************************************************************************)
(* What Execute does to tree t after Stat has reported want of the source  *)
(* and have of the target; s is the source at the time of the reading and  *)
(* writing.  WriteAtomic needs the directory, Mkdir makes it.  The file in *)
(* the target is read, for its hash, only if the sizes agree: here, if the *)
(* contents do.                                                            *)
(***************************************************************************)
Apply(s, t, p, want, have) ==
    LET wrong == WrongKind(want, have)
        base  == IF wrong THEN RemoveAll(t, p) ELSE t
        left  == IF wrong THEN Absent ELSE have
        body  == StatSource(s, p)
    IN  CASE NotDir \in {want, have} -> Outcome(t, FALSE)
          [] want = Absent /\ have # NotDir ->
               IF wrong /\ \E a \in Above[p] : t[a] \in Contents
               THEN Outcome(base, FALSE)
               ELSE Outcome(base, TRUE)
          [] want = Dir /\ left = Dir -> Outcome(base, TRUE)
          [] want = Dir /\ left = Absent ->
               IF \A a \in Lineage(p) : base[a] \in {Absent, Dir}
               THEN Outcome(Mkdir(base, p), TRUE)
               ELSE Outcome(base, FALSE)
          [] want \in Contents /\ have # NotDir ->
               IF /\ body \in Contents
                  /\ \A a \in Above[p] : base[a] = Dir
                  /\ base[p] # Dir
                  /\ left = want => base[p] \in Contents
               THEN Outcome([base EXCEPT ![p] = body], TRUE)
               ELSE Outcome(base, FALSE)

\* What the recursive removal of p has left of t at any point of its way: entries
\* go before the directory they are in.
Removals(t, p) ==
    {[q \in Paths |-> IF q \in gone THEN Absent ELSE t[q]] :
        gone \in {g \in SUBSET {q \in Paths : p \in Lineage(q)} :
                    \A q \in g : Below(q) \subseteq g}}

\* What Execute leaves of t when a call of it fails: part of a removal, or only some
\* of the directories that Mkdir makes one by one, from the top down.
Interrupted(t, p, want, have) ==
    LET wrong == WrongKind(want, have)
        base  == IF wrong THEN RemoveAll(t, p) ELSE t
    IN  {t} \cup (IF wrong THEN Removals(t, p) ELSE {})
            \cup {Mkdir(base, a) :
                      a \in {b \in Lineage(p) : /\ want = Dir /\ have \notin {Dir, NotDir}
                                              /\ \A c \in Lineage(b) : base[c] \in {Absent, Dir}}}

(***************************************************************************)
(* Changes of a tree by others: the tree they leave and the paths they     *)
(* cause events for.  Every entry is reported, except those of a directory *)
(* that is moved out of the tree as a whole.                               *)
(***************************************************************************)
CanHold(t, p) == \A a \in Above[p] : t[a] = Dir

Vacant(t) == {p \in Paths : t[p] = Absent /\ CanHold(t, p)}

Creates(t) == {<<[t EXCEPT ![p] = n], {p}>> : p \in Vacant(t), n \in Nodes \ {Absent}}

Changes(t) == {<<[t EXCEPT ![p] = c], {p}>> :
                   p \in {q \in Paths : t[q] \in Contents}, c \in Contents}

Unlinks(t) == {<<[t EXCEPT ![p] = Absent], {p}>> :
                   p \in {q \in Paths : t[q] # Absent /\ \A b \in Below(q) : t[b] = Absent}}

\* The trees that consist of a directory at p, its content and what leads to it.
Branch(p) == {n \in Tree : /\ n[p] = Dir
                           /\ \A q \in Paths : n[q] # Absent => q \in Above[p] \/ p \in Lineage(q)}

MoveIns(t) ==
    UNION {{<<[q \in Paths |-> IF p \in Lineage(q) THEN n[q] ELSE t[q]],
              {q \in Paths : p \in Lineage(q) /\ n[q] # Absent}>> : n \in Branch(p)} :
           p \in Vacant(t)}

MoveOuts(t) == {<<RemoveAll(t, p), {p}>> : p \in {q \in Paths : t[q] = Dir}}

Edits(t) == {step \in Creates(t) \cup Changes(t) \cup Unlinks(t) \cup MoveIns(t) :
                \A p \in step[2] : step[1][p] = Link => p \in Linkable}

\* Slip: only the links whose own path changed are polled.
LinkedUnpolled(t, touched) == {p \in touched : t[p] = Link}

\* The poller names the links that lead to what changed, or below it.
Linked(t, touched) ==
    {p \in Linkable : t[p] = Link /\ Lineage(Behind[p]) \cap touched # {}}

(***************************************************************************)
(* What is due when the trees differ.                                      *)
(***************************************************************************)
\* A difference is going to be seen to: its own path is due, or it is a leftover
\* below a path that is due and no directory any more.
SeenTo(s, due, p) ==
    \/ p \in due
    \/ /\ Wanted(s, p) = Absent
       /\ \E a \in Above[p] \cap due : Wanted(s, a) # Dir

\* A directory is put where the removal of another, of whose content nothing was
\* reported, is still due.
Swap(s, s2, t, due, events) ==
    \E p \in due : /\ s2[p] = Dir /\ s[p] # Dir
                   /\ \E q \in Below(p) : t[q] # Absent /\ q \notin events
=============================================================================
