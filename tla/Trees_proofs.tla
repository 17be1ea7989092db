----------------------------- MODULE Trees_proofs -----------------------------
(***************************************************************************)
(* What reading, writing and editing do to a tree, for trees of any shape  *)
(* and depth.  What Stat of the source reports is known for links without  *)
(* paths below them.                                                       *)
(***************************************************************************)
EXTENDS Trees, TLAPS

USE PathsAssumption

\* No node is taken for another.
LEMMA DistinctNodes ==
    /\ Absent # Dir /\ Absent # Link /\ Dir # Link
    /\ NotDir \notin Nodes /\ NotDir \notin {Absent, Dir, Link} /\ NotDir \notin Contents
    /\ Absent \notin Contents /\ Dir \notin Contents /\ Link \notin Contents
BY NodesAssumption DEF Absent, Dir, Link, NotDir, Nodes

LEMMA TreeFacts ==
    ASSUME NEW t \in Tree, NEW p \in Paths
    PROVE  /\ t \in [Paths -> Nodes] /\ t[p] \in Nodes
           /\ t[p] # Absent => \A a \in Above[p] : t[a] = Dir
           /\ t[p] = Link => p \in Linkable
BY DEF Tree

LEMMA AboveFacts ==
    ASSUME NEW p \in Paths, NEW a \in Above[p]
    PROVE  a \in Paths /\ a # p /\ Above[a] \subseteq Above[p] /\ Lineage(a) \subseteq Lineage(p)
BY DEF Lineage

-----------------------------------------------------------------------------
(* Reading.                                                                *)

\* The trees have no paths below one where the source can have a link.
LeafLinks == \A l \in Linkable : Below(l) = {}

LEMMA LstatFacts ==
    ASSUME NEW t \in Tree, NEW p \in Paths
    PROVE  /\ Lstat(t, p) \in Nodes \cup {NotDir}
           /\ StatSource(t, p) \in (Nodes \ {Link}) \cup {NotDir}
<1> DEFINE q == Resolve(t, p)
<1>1. q = Nowhere \/ q \in Paths
  BY LinksAssumption DEF Resolve
<1>2. Absent \in Nodes /\ (q # Nowhere => t[q] \in Nodes)
  BY <1>1, TreeFacts DEF Nodes
<1>3. Lstat(t, p) = IF q = Nowhere THEN Absent
                    ELSE IF \E a \in Above[q] : t[a] \in Contents THEN NotDir ELSE t[q]
  BY DEF Lstat
<1>4. Lstat(t, p) \in Nodes \cup {NotDir}
  BY <1>2, <1>3
<1> QED
  BY <1>4, DistinctNodes DEF StatSource, Nodes

LEMMA LstatBelowDirs ==
    ASSUME NEW t \in Tree, NEW p \in Paths, \A a \in Above[p] : t[a] # Link
    PROVE  /\ Lstat(t, p) \in {t[p], NotDir}
           /\ Lstat(t, p) = NotDir => t[p] = Absent
           /\ (\A a \in Above[p] : t[a] \notin Contents) => Lstat(t, p) = t[p]
<1>1. Resolve(t, p) = p /\ p # Nowhere
  BY LinksAssumption DEF Resolve
<1>2. Lstat(t, p) = IF \E a \in Above[p] : t[a] \in Contents THEN NotDir ELSE t[p]
  BY <1>1 DEF Lstat
<1>3. (\E a \in Above[p] : t[a] \in Contents) => t[p] = Absent
  BY TreeFacts, DistinctNodes
<1>4. t[p] # NotDir
  BY TreeFacts, DistinctNodes
<1> QED
  BY <1>2, <1>3, <1>4

LEMMA LstatOfTarget ==
    ASSUME NEW t \in TargetTree, NEW p \in Paths
    PROVE  /\ t \in Tree /\ t[p] # Link
           /\ Lstat(t, p) \in {t[p], NotDir}
           /\ Lstat(t, p) \in (Nodes \ {Link}) \cup {NotDir}
           /\ Lstat(t, p) = NotDir => t[p] = Absent
           /\ (\A a \in Above[p] : t[a] \notin Contents) => Lstat(t, p) = t[p]
<1>1. t \in Tree /\ t[p] # Link /\ \A a \in Above[p] : t[a] # Link
  BY AboveFacts DEF TargetTree
<1> QED
  BY <1>1, LstatBelowDirs, TreeFacts

\* What is wanted at a path is what the source holds there, and at a link the
\* content behind it or nothing.
LEMMA WantedFacts ==
    ASSUME NEW t \in Tree, NEW p \in Paths
    PROVE  /\ Wanted(t, p) \in Nodes \ {Link}
           /\ t[p] # Link => Wanted(t, p) = t[p]
           /\ t[p] = Link => Wanted(t, p) \in Contents \cup {Absent}
<1>1. CASE \A a \in Above[p] : t[a] = Dir
  <2>1. \A a \in Above[p] : t[a] # Link /\ t[a] \notin Contents
    BY <1>1, DistinctNodes
  <2>2. Lstat(t, p) = t[p] /\ Wanted(t, p) = StatSource(t, p)
    BY <1>1, <2>1, LstatBelowDirs DEF Wanted
  <2> QED
    BY <2>2, TreeFacts, DistinctNodes DEF StatSource, Nodes
<1>2. CASE ~ \A a \in Above[p] : t[a] = Dir
  BY <1>2, TreeFacts, DistinctNodes DEF Wanted, Nodes
<1> QED
  BY <1>1, <1>2

LEMMA WantedAbove ==
    ASSUME NEW t \in Tree, NEW p \in Paths
    PROVE  /\ Wanted(t, p) = Dir <=> t[p] = Dir
           /\ Wanted(t, p) # Absent => \A a \in Above[p] : Wanted(t, a) = Dir
           /\ t[p] = Absent => Wanted(t, p) = Absent
<1>1. \A q \in Paths : Wanted(t, q) = Dir <=> t[q] = Dir
  BY WantedFacts, DistinctNodes
<1>2. t[p] = Absent => Wanted(t, p) = Absent
  BY WantedFacts, DistinctNodes
<1> QED
  BY <1>1, <1>2, TreeFacts, AboveFacts

\* Nothing is wanted below what is no directory.
LEMMA WantedBelow ==
    ASSUME NEW t \in Tree, NEW p \in Paths, NEW a \in Above[p], Wanted(t, a) # Dir
    PROVE  Wanted(t, p) = Absent
BY WantedAbove

LEMMA WantedOfLink ==
    ASSUME NEW t \in Tree, NEW p \in Paths, t[p] = Link
    PROVE  Wanted(t, p) = IF Behind[p] \in Paths /\ t[Behind[p]] \in Contents
                          THEN t[Behind[p]] ELSE Absent
<1>1. /\ \A a \in Above[p] : t[a] = Dir /\ t[a] # Link /\ t[a] \notin Contents
      /\ Wanted(t, p) = StatSource(t, p) /\ Lstat(t, p) = Link
  BY TreeFacts, LstatBelowDirs, DistinctNodes DEF Wanted
<1>2. Behind[p] # Nowhere <=> Behind[p] \in Paths
  BY LinksAssumption
<1>3. ASSUME Behind[p] \in Paths
      PROVE  /\ Lstat(t, Behind[p]) \in {t[Behind[p]], NotDir}
             /\ t[Behind[p]] \in Contents => Lstat(t, Behind[p]) # NotDir
  <2>1. \A a \in Above[Behind[p]] : a \in Paths /\ a \notin Linkable
    BY <1>2, <1>3, LinksAssumption, AboveFacts
  <2>2. \A a \in Above[Behind[p]] : t[a] # Link
    BY <2>1, TreeFacts
  <2> QED
    BY <1>3, <2>2, LstatBelowDirs, DistinctNodes
<1> QED
  BY <1>1, <1>2, <1>3, DistinctNodes DEF StatSource

LEMMA NoLinkAbove ==
    ASSUME LeafLinks, NEW t \in Tree, NEW p \in Paths, NEW a \in Above[p]
    PROVE  t[a] # Link
BY TreeFacts, AboveFacts DEF LeafLinks, Below

\* Stat of the source reports what is wanted, unless it fails below a file.
LEMMA StatFacts ==
    ASSUME LeafLinks, NEW t \in Tree, NEW p \in Paths
    PROVE  /\ StatSource(t, p) \in {Wanted(t, p), NotDir}
           /\ StatSource(t, p) \in Contents => StatSource(t, p) = Wanted(t, p)
           /\ (\A a \in Above[p] : t[a] \notin Contents) => StatSource(t, p) = Wanted(t, p)
<1>1. CASE \A a \in Above[p] : t[a] = Dir
  BY <1>1 DEF Wanted
<1>2. CASE ~ \A a \in Above[p] : t[a] = Dir
  <2>1. t[p] = Absent /\ Wanted(t, p) = Absent
    BY <1>2, TreeFacts DEF Wanted
  <2>2. StatSource(t, p) = Lstat(t, p)
    BY <2>1, NoLinkAbove, LstatBelowDirs, DistinctNodes DEF StatSource
  <2> QED
    BY <2>1, <2>2, NoLinkAbove, LstatBelowDirs, DistinctNodes
<1> QED
  BY <1>1, <1>2

-----------------------------------------------------------------------------
(* Writing.                                                                *)

LEMMA RemoveAllKeepsTree ==
    ASSUME NEW t \in Tree, NEW p \in Paths
    PROVE  /\ RemoveAll(t, p) \in Tree
           /\ \A q \in Paths :
                RemoveAll(t, p)[q] = IF p \in Lineage(q) THEN Absent ELSE t[q]
<1> DEFINE r == RemoveAll(t, p)
<1>1. \A q \in Paths : r[q] = IF p \in Lineage(q) THEN Absent ELSE t[q]
  BY DEF RemoveAll
<1>2. r \in [Paths -> Nodes]
  BY TreeFacts DEF RemoveAll, Nodes
<1>3. ASSUME NEW q \in Paths, r[q] # Absent, NEW a \in Above[q]
      PROVE  r[a] = Dir
  BY <1>1, <1>3, TreeFacts, AboveFacts
<1>4. \A q \in Paths : r[q] = Link => q \in Linkable
  BY <1>1, TreeFacts, DistinctNodes
<1> QED
  BY <1>1, <1>2, <1>3, <1>4 DEF Tree

LEMMA MkdirKeepsTree ==
    ASSUME NEW t \in Tree, NEW p \in Paths, \A a \in Lineage(p) : t[a] \in {Absent, Dir}
    PROVE  Mkdir(t, p) \in Tree
<1> DEFINE r == Mkdir(t, p)
<1>1. \A q \in Paths : r[q] = IF q \in Lineage(p) THEN Dir ELSE t[q]
  BY DEF Mkdir
<1>2. r \in [Paths -> Nodes]
  BY TreeFacts DEF Mkdir, Nodes
<1>3. ASSUME NEW q \in Paths, r[q] # Absent, NEW a \in Above[q]
      PROVE  r[a] = Dir
  <2>1. CASE q \in Lineage(p)
    BY <1>1, <2>1, AboveFacts DEF Lineage
  <2>2. CASE q \notin Lineage(p)
    BY <1>1, <1>3, <2>2, TreeFacts, AboveFacts
  <2> QED
    BY <2>1, <2>2
<1>4. \A q \in Paths : r[q] = Link => q \in Linkable
  BY <1>1, TreeFacts, DistinctNodes
<1> QED
  BY <1>2, <1>3, <1>4 DEF Tree

LEMMA PutKeepsTree ==
    ASSUME NEW t \in Tree, NEW p \in Paths, NEW n \in Nodes,
           n # Absent => CanHold(t, p),
           n = Link => p \in Linkable,
           n # Dir => \A q \in Below(p) : t[q] = Absent
    PROVE  [t EXCEPT ![p] = n] \in Tree
<1> DEFINE r == [t EXCEPT ![p] = n]
<1>1. r \in [Paths -> Nodes] /\ r[p] = n /\ \A q \in Paths \ {p} : r[q] = t[q]
  BY TreeFacts
<1>2. ASSUME NEW q \in Paths, r[q] # Absent, NEW a \in Above[q]
      PROVE  r[a] = Dir
  <2>1. CASE q = p
    BY <1>1, <1>2, <2>1, AboveFacts DEF CanHold
  <2>2. CASE q # p /\ a = p
    BY <1>1, <1>2, <2>2, AboveFacts DEF Below
  <2>3. CASE q # p /\ a # p
    BY <1>1, <1>2, <2>3, TreeFacts, AboveFacts
  <2> QED
    BY <2>1, <2>2, <2>3
<1>3. \A q \in Paths : r[q] = Link => q \in Linkable
  BY <1>1, TreeFacts
<1> QED
  BY <1>1, <1>2, <1>3 DEF Tree

\* A directory with entries is not there where something else is.
LEMMA NothingBelow ==
    ASSUME NEW t \in Tree, NEW p \in Paths, t[p] # Dir
    PROVE  \A q \in Below(p) : t[q] = Absent
BY TreeFacts DEF Below

-----------------------------------------------------------------------------
(* Execute.                                                                *)

\* The tree after the removal of an entry of the wrong kind.
Base(t, p, want, have) == IF WrongKind(want, have) THEN RemoveAll(t, p) ELSE t

LEMMA BaseKeepsTree ==
    ASSUME NEW t \in Tree, NEW p \in Paths, NEW want, NEW have
    PROVE  Base(t, p, want, have) \in Tree
BY RemoveAllKeepsTree DEF Base

LEMMA RemovalsKeepTree ==
    ASSUME NEW t \in Tree, NEW p \in Paths, NEW r \in Removals(t, p)
    PROVE  /\ r \in Tree
           /\ \A q \in Paths : r[q] = t[q] \/ (p \in Lineage(q) /\ r[q] = Absent)
<1>1. PICK gone \in SUBSET {q \in Paths : p \in Lineage(q)} :
             /\ \A q \in gone : Below(q) \subseteq gone
             /\ r = [q \in Paths |-> IF q \in gone THEN Absent ELSE t[q]]
  BY DEF Removals
<1>2. \A q \in Paths : r[q] = IF q \in gone THEN Absent ELSE t[q]
  BY <1>1
<1>3. r \in [Paths -> Nodes]
  BY <1>1, TreeFacts DEF Nodes
<1>4. ASSUME NEW q \in Paths, r[q] # Absent, NEW a \in Above[q]
      PROVE  r[a] = Dir
  <2>1. q \notin gone /\ t[a] = Dir
    BY <1>2, <1>4, TreeFacts
  <2>2. a \notin gone
    BY <1>1, <1>4, <2>1 DEF Below
  <2> QED
    BY <1>2, <2>1, <2>2, AboveFacts
<1>5. \A q \in Paths : r[q] = Link => q \in Linkable
  BY <1>2, TreeFacts, DistinctNodes
<1> QED
  BY <1>1, <1>2, <1>3, <1>4, <1>5 DEF Tree

\* Whatever call fails: some of what is in the way is gone, or some of the
\* directories are made, and a tree is left.
LEMMA InterruptedFacts ==
    ASSUME NEW t \in Tree, NEW p \in Paths, NEW want, NEW have,
           NEW r \in Interrupted(t, p, want, have)
    PROVE  /\ r \in Tree
           /\ \A q \in Paths :
                \/ r[q] = t[q]
                \/ WrongKind(want, have) /\ p \in Lineage(q) /\ r[q] = Absent
                \/ want = Dir /\ q \in Lineage(p) /\ r[q] = Dir
<1> DEFINE base == Base(t, p, want, have)
<1>1. \/ r = t
      \/ WrongKind(want, have) /\ r \in Removals(t, p)
      \/ /\ want = Dir
         /\ \E a \in Lineage(p) : /\ \A c \in Lineage(a) : base[c] \in {Absent, Dir}
                                 /\ r = Mkdir(base, a)
  BY DEF Interrupted, Base
<1>2. CASE WrongKind(want, have) /\ r \in Removals(t, p)
  BY <1>2, RemovalsKeepTree
<1>3. ASSUME want = Dir, NEW a \in Lineage(p), \A c \in Lineage(a) : base[c] \in {Absent, Dir},
             r = Mkdir(base, a)
      PROVE  /\ r \in Tree
             /\ \A q \in Paths :
                  \/ r[q] = t[q]
                  \/ WrongKind(want, have) /\ p \in Lineage(q) /\ r[q] = Absent
                  \/ want = Dir /\ q \in Lineage(p) /\ r[q] = Dir
  <2>1. /\ base \in Tree /\ a \in Paths /\ Lineage(a) \subseteq Lineage(p)
        /\ \A q \in Paths : base[q] = IF WrongKind(want, have) /\ p \in Lineage(q)
                                       THEN Absent ELSE t[q]
    BY BaseKeepsTree, RemoveAllKeepsTree, AboveFacts DEF Base, Lineage
  <2>2. \A q \in Paths : r[q] = IF q \in Lineage(a) THEN Dir ELSE base[q]
    BY <1>3 DEF Mkdir
  <2> QED
    BY <1>3, <2>1, <2>2, MkdirKeepsTree
<1> QED
  BY <1>1, <1>2, <1>3

\* The ways in which Apply can end.
Results(s, t, p, want, have, r) ==
    LET base == Base(t, p, want, have)
    IN  \/ NotDir \in {want, have} /\ r = Outcome(t, FALSE)
        \/ want = Absent /\ r.tree = base /\ NotDir # have
        \/ want = Dir /\ have = Dir /\ r.tree = t
        \/ /\ want = Dir /\ have \notin {Dir, NotDir}
           /\ \A a \in Lineage(p) : base[a] \in {Absent, Dir}
           /\ r.tree = Mkdir(base, p)
        \/ /\ want \in Contents /\ have # NotDir
           /\ StatSource(s, p) \in Contents /\ CanHold(base, p) /\ base[p] # Dir
           /\ r.tree = [base EXCEPT ![p] = StatSource(s, p)]
        \/ NotDir \notin {want, have} /\ r = Outcome(base, FALSE)

LEMMA ApplyCases ==
    ASSUME NEW s, NEW t \in Tree, NEW p \in Paths,
           NEW want \in (Nodes \ {Link}) \cup {NotDir}, NEW have \in (Nodes \ {Link}) \cup {NotDir}
    PROVE  Results(s, t, p, want, have, Apply(s, t, p, want, have))
<1> DEFINE wrong == WrongKind(want, have)
           base  == Base(t, p, want, have)
           left  == IF wrong THEN Absent ELSE have
           body  == StatSource(s, p)
           r     == Apply(s, t, p, want, have)
<1> USE DEF Results
<1>1. CASE NotDir \in {want, have}
  <2>1. r = Outcome(t, FALSE)
    BY <1>1, DistinctNodes DEF Apply, WrongKind
  <2> QED
    BY <1>1, <2>1
<1>2. CASE want = Absent /\ have # NotDir
  <2>1. NotDir \notin {want, have} /\ want # Dir /\ want \notin Contents
    BY <1>2, DistinctNodes
  <2>2. r = IF wrong /\ \E a \in Above[p] : t[a] \in Contents
            THEN Outcome(base, FALSE)
            ELSE Outcome(base, TRUE)
    BY <1>2, <2>1 DEF Apply, Base
  <2> QED
    BY <1>2, <2>2 DEF Outcome
<1>3. CASE want = Dir /\ have = Dir
  <2>1. ~wrong
    BY <1>3 DEF WrongKind
  <2>2. NotDir \notin {want, have} /\ want # Absent /\ want \notin Contents
    BY <1>3, DistinctNodes
  <2>3. r = Outcome(t, TRUE)
    BY <1>3, <2>1, <2>2 DEF Apply
  <2> QED
    BY <1>3, <2>3 DEF Outcome
<1>4. CASE want = Dir /\ have \notin {Dir, NotDir}
  <2>1. NotDir \notin {want, have} /\ want # Absent /\ want \notin Contents
    BY <1>4, DistinctNodes
  <2>2. left = Absent
    BY <1>4, <2>1 DEF WrongKind
  <2>3. r = IF \A a \in Lineage(p) : base[a] \in {Absent, Dir}
            THEN Outcome(Mkdir(base, p), TRUE)
            ELSE Outcome(base, FALSE)
    BY <1>4, <2>1, <2>2 DEF Apply, Base
  <2> QED
    BY <1>4, <2>1, <2>3 DEF Outcome
<1>5. CASE want \in Contents /\ have # NotDir
  <2>1. want \notin {Absent, Dir, NotDir}
    BY <1>5, DistinctNodes
  <2>2. r = IF /\ body \in Contents
               /\ \A a \in Above[p] : base[a] = Dir
               /\ base[p] # Dir
               /\ left = want => base[p] \in Contents
            THEN Outcome([base EXCEPT ![p] = body], TRUE)
            ELSE Outcome(base, FALSE)
    BY <1>5, <2>1 DEF Apply, Base
  <2> QED
    BY <1>5, <2>1, <2>2 DEF Outcome, CanHold
<1> QED
  BY <1>1, <1>2, <1>3, <1>4, <1>5 DEF Nodes

\* What is left of each path, whatever Execute has read of its own and whatever call
\* of it fails.
Leaves(s, t, p, want, have, u, q) ==
    \/ u[q] = t[q]
    \/ WrongKind(want, have) /\ p \in Lineage(q) /\ u[q] = Absent
    \/ want = Dir /\ q \in Lineage(p) /\ u[q] = Dir
    \/ want \in Contents /\ q = p /\ u[q] = StatSource(s, p) /\ u[q] \in Contents

LEMMA LeavesTarget ==
    ASSUME NEW s \in Tree, NEW t \in TargetTree, NEW p \in Paths, NEW want, NEW have,
           NEW u \in Tree, \A q \in Paths : Leaves(s, t, p, want, have, u, q)
    PROVE  u \in TargetTree
BY DistinctNodes DEF Leaves, TargetTree

LEMMA ApplyLeaves ==
    ASSUME NEW s \in Tree, NEW t \in TargetTree, NEW p \in Paths,
           NEW want \in (Nodes \ {Link}) \cup {NotDir}, NEW have \in (Nodes \ {Link}) \cup {NotDir}
    PROVE  LET r == Apply(s, t, p, want, have)
           IN  /\ r.tree \in TargetTree
               /\ \A q \in Paths : Leaves(s, t, p, want, have, r.tree, q)
<1> DEFINE base == Base(t, p, want, have)
           r == Apply(s, t, p, want, have)
<1>1. t \in Tree /\ base \in Tree
  BY BaseKeepsTree DEF TargetTree
<1>2. \A q \in Paths :
        \/ base[q] = t[q]
        \/ WrongKind(want, have) /\ p \in Lineage(q) /\ base[q] = Absent
  BY <1>1, RemoveAllKeepsTree DEF Base
<1>3. Results(s, t, p, want, have, r)
  BY <1>1, ApplyCases
<1> SUFFICES r.tree \in TargetTree /\ \A q \in Paths : Leaves(s, t, p, want, have, r.tree, q)
  OBVIOUS
<1> HIDE DEF r
<1>4. \/ r.tree \in {base, t}
      \/ r \in {Outcome(base, FALSE), Outcome(t, FALSE)}
      \/ /\ want = Dir
         /\ \A a \in Lineage(p) : base[a] \in {Absent, Dir}
         /\ r.tree = Mkdir(base, p)
      \/ /\ want \in Contents
         /\ StatSource(s, p) \in Contents /\ CanHold(base, p) /\ base[p] # Dir
         /\ r.tree = [base EXCEPT ![p] = StatSource(s, p)]
  BY <1>3 DEF Results
<1> HIDE DEF base
<1>5. r.tree \in Tree /\ \A q \in Paths : Leaves(s, t, p, want, have, r.tree, q)
  <2>1. CASE r.tree \in {base, t}
    BY <1>1, <1>2, <2>1 DEF Leaves
  <2>2. CASE r \in {Outcome(base, FALSE), Outcome(t, FALSE)}
    BY <1>1, <1>2, <2>2 DEF Outcome, Leaves
  <2>3. CASE /\ want = Dir
             /\ \A a \in Lineage(p) : base[a] \in {Absent, Dir}
             /\ r.tree = Mkdir(base, p)
    <3>1. \A q \in Paths : r.tree[q] = IF q \in Lineage(p) THEN Dir ELSE base[q]
      BY <2>3 DEF Mkdir
    <3> QED
      BY <1>1, <1>2, <2>3, <3>1, MkdirKeepsTree DEF Leaves
  <2>4. CASE /\ want \in Contents
             /\ StatSource(s, p) \in Contents /\ CanHold(base, p) /\ base[p] # Dir
             /\ r.tree = [base EXCEPT ![p] = StatSource(s, p)]
    <3>1. r.tree \in Tree
      BY <1>1, <2>4, PutKeepsTree, NothingBelow, DistinctNodes DEF Nodes
    <3>2. \A q \in Paths : r.tree[q] = IF q = p THEN StatSource(s, p) ELSE base[q]
      BY <1>1, <2>4, TreeFacts
    <3> QED
      BY <1>1, <1>2, <2>4, <3>1, <3>2 DEF Leaves
  <2> QED
    BY <1>4, <2>1, <2>2, <2>3, <2>4
<1> QED
  BY <1>5, LeavesTarget

LEMMA InterruptedLeaves ==
    ASSUME NEW s \in Tree, NEW t \in TargetTree, NEW p \in Paths, NEW want, NEW have,
           NEW u \in Interrupted(t, p, want, have)
    PROVE  u \in TargetTree /\ \A q \in Paths : Leaves(s, t, p, want, have, u, q)
<1>1. u \in Tree /\ \A q \in Paths : Leaves(s, t, p, want, have, u, q)
  BY InterruptedFacts DEF Leaves, TargetTree
<1> QED
  BY <1>1, LeavesTarget

\* Execute without anybody in between: whatever becomes of it, no path is changed
\* but towards the source, and without an error its own path agrees.
LEMMA ApplyAtOnce ==
    ASSUME LeafLinks, NEW s \in Tree, NEW t \in TargetTree, NEW p \in Paths
    PROVE  LET r == Apply(s, t, p, StatSource(s, p), Lstat(t, p))
           IN  /\ r.tree \in Tree
               /\ \A q \in Paths : r.tree[q] \in {t[q], Wanted(s, q)}
               /\ r.ok => r.tree[p] = Wanted(s, p)
<1> DEFINE want  == StatSource(s, p)
           have  == Lstat(t, p)
           r     == Apply(s, t, p, want, have)
           base  == Base(t, p, want, have)
           Claim == r.tree \in Tree /\ (\A q \in Paths : r.tree[q] \in {t[q], Wanted(s, q)})
                    /\ (r.ok => r.tree[p] = Wanted(s, p))
<1> SUFFICES Claim
  OBVIOUS
<1>1. /\ want \in (Nodes \ {Link}) \cup {NotDir} /\ have \in (Nodes \ {Link}) \cup {NotDir}
      /\ want \in {Wanted(s, p), NotDir} /\ have \in {t[p], NotDir} /\ StatSource(s, p) = want
      /\ Wanted(s, p) # NotDir /\ t \in Tree
  BY LstatFacts, StatFacts, LstatOfTarget, WantedFacts, DistinctNodes
<1>2. Results(s, t, p, want, have, r)
  BY <1>1, ApplyCases
<1>3. base \in Tree
  BY <1>1, BaseKeepsTree
<1>4. base = IF WrongKind(want, have) THEN RemoveAll(t, p) ELSE t
  BY DEF Base
<1>5. ASSUME WrongKind(want, have)
      PROVE  /\ want = Wanted(s, p) /\ have = t[p] /\ t[p] # Absent /\ base[p] = Absent
             /\ \A q \in Paths : base[q] = IF p \in Lineage(q) THEN Absent ELSE t[q]
             /\ \A q \in Below(p) : t[q] = Absent \/ Wanted(s, q) = Absent
  <2>1. want = Wanted(s, p) /\ have = t[p] /\ t[p] # Absent /\ (want # Dir \/ t[p] # Dir)
    BY <1>1, <1>5 DEF WrongKind
  <2>2. \A q \in Paths : base[q] = IF p \in Lineage(q) THEN Absent ELSE t[q]
    BY <1>1, <1>5, RemoveAllKeepsTree DEF Base
  <2>3. \A q \in Below(p) : t[q] = Absent \/ Wanted(s, q) = Absent
    BY <1>1, <2>1, NothingBelow, WantedBelow DEF Below
  <2> QED
    BY <2>1, <2>2, <2>3 DEF Lineage
<1> HIDE DEF want, have, r, base
<1>6. \A q \in Paths \ {p} : base[q] \in {t[q], Wanted(s, q)}
  BY <1>4, <1>5 DEF Below, Lineage
<1>7. CASE NotDir \in {want, have} /\ r = Outcome(t, FALSE)
  BY <1>1, <1>7 DEF Outcome
<1>8. CASE want = Absent /\ r.tree = base /\ NotDir # have
  <2>1. want = Wanted(s, p) /\ have = t[p]
    BY <1>1, <1>8, DistinctNodes
  <2>2. base[p] = Wanted(s, p)
    BY <1>4, <1>5, <1>8, <2>1, DistinctNodes DEF WrongKind
  <2> QED
    BY <1>3, <1>6, <1>8, <2>2
<1>9. CASE want = Dir /\ have = Dir /\ r.tree = t
  BY <1>1, <1>9, DistinctNodes
<1>10. CASE /\ want = Dir /\ have \notin {Dir, NotDir}
            /\ \A a \in Lineage(p) : base[a] \in {Absent, Dir}
            /\ r.tree = Mkdir(base, p)
  <2>1. Wanted(s, p) = Dir
    BY <1>1, <1>10, DistinctNodes
  <2>2. \A q \in Lineage(p) : Wanted(s, q) = Dir
    BY <2>1, WantedAbove, DistinctNodes DEF Lineage
  <2>3. \A q \in Paths : r.tree[q] = IF q \in Lineage(p) THEN Dir ELSE base[q]
    BY <1>10 DEF Mkdir
  <2>4. r.tree \in Tree
    BY <1>3, <1>10, MkdirKeepsTree
  <2> QED
    BY <1>6, <2>1, <2>2, <2>3, <2>4 DEF Lineage
<1>11. CASE /\ want \in Contents /\ have # NotDir
            /\ StatSource(s, p) \in Contents /\ CanHold(base, p) /\ base[p] # Dir
            /\ r.tree = [base EXCEPT ![p] = StatSource(s, p)]
  <2>1. want = Wanted(s, p)
    BY <1>1, <1>11, DistinctNodes
  <2>2. \A q \in Paths : r.tree[q] = IF q = p THEN Wanted(s, p) ELSE base[q]
    BY <1>1, <1>3, <1>11, <2>1, TreeFacts
  <2>3. r.tree \in Tree
    BY <1>3, <1>11, PutKeepsTree, NothingBelow, DistinctNodes DEF Nodes
  <2> QED
    BY <1>6, <2>2, <2>3
<1>12. CASE NotDir \notin {want, have} /\ r = Outcome(base, FALSE)
  <2>1. CASE ~WrongKind(want, have)
    BY <1>1, <1>4, <1>12, <2>1 DEF Outcome
  <2>2. CASE WrongKind(want, have) /\ want = Absent
    BY <1>3, <1>5, <1>6, <1>12, <2>2 DEF Outcome
  <2>3. CASE WrongKind(want, have) /\ want # Absent
    <3>1. /\ \A a \in Above[p] : t[a] = Dir /\ base[a] = Dir
          /\ base[p] = Absent
      BY <1>1, <1>5, <2>3, TreeFacts, AboveFacts DEF Lineage
    <3>2. CASE want = Dir
      <4>1. \A a \in Lineage(p) : base[a] \in {Absent, Dir}
        BY <3>1 DEF Lineage
      <4>2. r = Outcome(Mkdir(base, p), TRUE)
        BY <1>12, <2>3, <3>2, <4>1, DistinctNodes DEF Apply, r, base, Base, want, have
      <4> QED
        BY <1>12, <4>2 DEF Outcome
    <3>3. CASE want \in Contents
      <4>1. r = Outcome([base EXCEPT ![p] = want], TRUE)
        BY <1>1, <1>12, <2>3, <3>1, <3>3, DistinctNodes DEF Apply, r, base, Base, want, have
      <4> QED
        BY <1>12, <4>1 DEF Outcome
    <3> QED
      BY <1>1, <1>12, <2>3, <3>2, <3>3 DEF Nodes
  <2> QED
    BY <2>1, <2>2, <2>3
<1> QED
  BY <1>2, <1>7, <1>8, <1>9, <1>10, <1>11, <1>12 DEF Results, base

\* Execute without anybody in between succeeds where the directories are.
LEMMA ApplySucceeds ==
    ASSUME LeafLinks, NEW s \in Tree, NEW t \in TargetTree, NEW p \in Paths,
           \A a \in Above[p] : t[a] = Dir /\ s[a] \notin Contents
    PROVE  Apply(s, t, p, StatSource(s, p), Lstat(t, p)).ok
<1> DEFINE want == StatSource(s, p)
           have == Lstat(t, p)
           base == Base(t, p, want, have)
<1>1. /\ want = Wanted(s, p) /\ have = t[p] /\ NotDir \notin {want, have}
      /\ {want, have} \subseteq Nodes \ {Link} /\ t \in Tree
  BY StatFacts, LstatOfTarget, WantedFacts, TreeFacts, DistinctNodes
<1>2. /\ \A a \in Above[p] : base[a] = Dir
      /\ base[p] = IF WrongKind(want, have) THEN Absent ELSE t[p]
  BY <1>1, RemoveAllKeepsTree, AboveFacts DEF Base, Lineage
<1>3. base = IF WrongKind(want, have) THEN RemoveAll(t, p) ELSE t
  BY DEF Base
<1> SUFFICES Apply(s, t, p, want, have).ok
  OBVIOUS
<1> HIDE DEF want, have, base
<1>4. CASE want = Absent
  <2>1. Apply(s, t, p, want, have) = Outcome(base, TRUE)
    <3>1. ~ \E a \in Above[p] : t[a] \in Contents
      BY DistinctNodes
    <3> QED
      BY <1>1, <1>3, <1>4, <3>1, DistinctNodes DEF Apply
  <2> QED
    BY <2>1 DEF Outcome
<1>5. CASE want = Dir
  <2>1. CASE have = Dir
    <3>1. Apply(s, t, p, want, have) = Outcome(t, TRUE)
      BY <1>1, <1>5, <2>1, DistinctNodes DEF Apply, WrongKind
    <3> QED
      BY <3>1 DEF Outcome
  <2>2. CASE have # Dir
    <3>1. \A a \in Lineage(p) : base[a] \in {Absent, Dir}
      BY <1>1, <1>2, <1>5, <2>2, DistinctNodes DEF WrongKind, Lineage
    <3>2. Apply(s, t, p, want, have) = Outcome(Mkdir(base, p), TRUE)
      BY <1>1, <1>3, <1>5, <2>2, <3>1, DistinctNodes DEF Apply, WrongKind
    <3> QED
      BY <3>2 DEF Outcome
  <2> QED
    BY <2>1, <2>2
<1>6. CASE want \in Contents
  <2>1. /\ StatSource(s, p) \in Contents /\ base[p] # Dir
        /\ WrongKind(want, have) \/ (have \in Contents => base[p] \in Contents)
        /\ want # Absent
    BY <1>1, <1>2, <1>6, DistinctNodes DEF WrongKind, want
  <2>2. Apply(s, t, p, want, have) = Outcome([base EXCEPT ![p] = StatSource(s, p)], TRUE)
    BY <1>1, <1>2, <1>3, <1>6, <2>1, DistinctNodes DEF Apply
  <2> QED
    BY <2>2 DEF Outcome
<1> QED
  BY <1>1, <1>4, <1>5, <1>6 DEF Nodes

-----------------------------------------------------------------------------
(* Changes by others.                                                      *)

LEMMA EditsFacts ==
    ASSUME NEW t \in Tree, NEW step \in Edits(t)
    PROVE  /\ step[1] \in Tree /\ step[2] \subseteq Paths
           /\ \A q \in Paths : step[1][q] # t[q] => q \in step[2]
<1>1. \A p \in step[2] : step[1][p] = Link => p \in Linkable
  BY DEF Edits
<1>2. ASSUME NEW p \in Paths, NEW n \in Nodes, step = <<[t EXCEPT ![p] = n], {p}>>,
             n # Absent => CanHold(t, p), n # Dir => \A q \in Below(p) : t[q] = Absent
      PROVE  /\ step[1] \in Tree /\ step[2] \subseteq Paths
             /\ \A q \in Paths : step[1][q] # t[q] => q \in step[2]
  <2>1. step[1] = [t EXCEPT ![p] = n] /\ step[2] = {p}
    BY <1>2
  <2>2. n = Link => p \in Linkable
    BY <1>1, <2>1, TreeFacts
  <2> QED
    BY <1>2, <2>1, <2>2, PutKeepsTree, TreeFacts
<1>3. CASE step \in Creates(t)
  <2>1. PICK p \in Vacant(t), n \in Nodes \ {Absent} : step = <<[t EXCEPT ![p] = n], {p}>>
    BY <1>3 DEF Creates
  <2>2. p \in Paths /\ t[p] = Absent /\ CanHold(t, p)
    BY <2>1 DEF Vacant
  <2> QED
    BY <1>2, <2>1, <2>2, NothingBelow, DistinctNodes
<1>4. CASE step \in Changes(t)
  <2>1. PICK p \in {q \in Paths : t[q] \in Contents}, c \in Contents :
               step = <<[t EXCEPT ![p] = c], {p}>>
    BY <1>4 DEF Changes
  <2>2. p \in Paths /\ t[p] # Absent /\ t[p] # Dir /\ c \in Nodes
    BY <2>1, DistinctNodes DEF Nodes
  <2>3. CanHold(t, p)
    BY <2>2, TreeFacts DEF CanHold
  <2> QED
    BY <1>2, <2>1, <2>2, <2>3, NothingBelow
<1>5. CASE step \in Unlinks(t)
  <2>1. PICK p \in Paths : /\ step = <<[t EXCEPT ![p] = Absent], {p}>>
                           /\ \A b \in Below(p) : t[b] = Absent
    BY <1>5 DEF Unlinks
  <2> QED
    BY <1>2, <2>1 DEF Nodes
<1>6. CASE step \in MoveIns(t)
  <2>1. PICK p \in Vacant(t) : \E n \in Branch(p) :
               step = <<[q \in Paths |-> IF p \in Lineage(q) THEN n[q] ELSE t[q]],
                        {q \in Paths : p \in Lineage(q) /\ n[q] # Absent}>>
    BY <1>6 DEF MoveIns
  <2>2. PICK n \in Branch(p) :
               step = <<[q \in Paths |-> IF p \in Lineage(q) THEN n[q] ELSE t[q]],
                        {q \in Paths : p \in Lineage(q) /\ n[q] # Absent}>>
    BY <2>1
  <2> DEFINE m == step[1]
  <2>3. /\ m = [q \in Paths |-> IF p \in Lineage(q) THEN n[q] ELSE t[q]]
        /\ step[2] = {q \in Paths : p \in Lineage(q) /\ n[q] # Absent}
    BY <2>2
  <2> HIDE DEF m
  <2>4. n \in Tree /\ p \in Paths /\ t[p] = Absent /\ CanHold(t, p)
    BY DEF Branch, Vacant
  <2>5. m \in [Paths -> Nodes]
    BY <2>3, <2>4, TreeFacts
  <2>6. \A q \in Paths : m[q] = IF p \in Lineage(q) THEN n[q] ELSE t[q]
    BY <2>3
  <2>7. ASSUME NEW q \in Paths, m[q] # Absent, NEW a \in Above[q]
        PROVE  m[a] = Dir
    <3>1. CASE p \in Lineage(q) /\ p \in Lineage(a)
      BY <2>4, <2>6, <2>7, <3>1, TreeFacts, AboveFacts
    <3>2. CASE p \in Lineage(q) /\ p \notin Lineage(a)
      <4>1. a \in Above[p]
        <5>1. CASE p = q
          BY <5>1
        <5>2. CASE p \in Above[q]
          <6>1. a \in Lineage(p) \/ p \in Above[a]
            BY <5>2
          <6> QED
            BY <3>2, <6>1 DEF Lineage
        <5> QED
          BY <3>2, <5>1, <5>2 DEF Lineage
      <4> QED
        BY <2>4, <2>6, <3>2, <4>1, AboveFacts DEF CanHold
    <3>3. CASE p \notin Lineage(q)
      <4>1. p \notin Lineage(a) /\ t[q] # Absent
        BY <2>6, <2>7, <3>3, AboveFacts
      <4> QED
        BY <2>6, <4>1, TreeFacts, AboveFacts
    <3> QED
      BY <3>1, <3>2, <3>3
  <2>8. \A q \in Paths : m[q] = Link => q \in Linkable
    BY <2>4, <2>6, TreeFacts
  <2>9. m \in Tree
    BY <2>5, <2>7, <2>8 DEF Tree
  <2>10. ASSUME NEW q \in Paths, m[q] # t[q]
         PROVE  q \in step[2]
    <3>1. p \in Lineage(q) /\ n[q] # t[q]
      BY <2>6, <2>10
    <3>2. t[q] = Absent
      BY <2>4, <3>1, TreeFacts, DistinctNodes DEF Lineage
    <3> QED
      BY <2>3, <3>1, <3>2
  <2> QED
    BY <2>3, <2>9, <2>10 DEF m
<1> QED
  BY <1>3, <1>4, <1>5, <1>6 DEF Edits

LEMMA MoveOutsFacts ==
    ASSUME NEW t \in Tree, NEW step \in MoveOuts(t)
    PROVE  \E p \in Paths :
             /\ t[p] = Dir
             /\ step[1] = RemoveAll(t, p) /\ step[2] = {p}
             /\ step[1] \in Tree
<1>1. PICK p \in Paths : t[p] = Dir /\ step = <<RemoveAll(t, p), {p}>>
  BY DEF MoveOuts
<1> QED
  BY <1>1, RemoveAllKeepsTree

\* A path of a tree changes with an event of its own, or goes with a directory; what
\* is wanted at it may besides change behind a link, of which the poller tells.
LEMMA SourceEdits ==
    ASSUME NEW t \in Tree, NEW step \in Edits(t) \cup MoveOuts(t)
    PROVE  LET told == step[2] \cup Linked(step[1], step[2])
           IN  /\ step[1] \in Tree /\ told \subseteq Paths
               /\ \A p \in Paths :
                    \/ step[1][p] = t[p]
                    \/ p \in told
                    \/ step[1][p] = Absent /\ \E a \in Above[p] \cap told : step[1][a] # Dir
               /\ \A p \in Paths :
                    \/ Wanted(step[1], p) = Wanted(t, p)
                    \/ p \in told
                    \/ /\ Wanted(step[1], p) = Absent
                       /\ \E a \in Above[p] \cap told : Wanted(step[1], a) # Dir
<1> DEFINE u == step[1]
           told == step[2] \cup Linked(step[1], step[2])
<1>1. /\ u \in Tree /\ step[2] \subseteq Paths
      /\ \A q \in Paths :
           \/ u[q] = t[q]
           \/ q \in step[2]
           \/ u[q] = Absent /\ \E a \in Above[q] \cap step[2] : u[a] # Dir
  <2>1. CASE step \in Edits(t)
    BY <2>1, EditsFacts
  <2>2. CASE step \in MoveOuts(t)
    <3>1. PICK b \in Paths : u = RemoveAll(t, b) /\ step[2] = {b} /\ u \in Tree
      BY <2>2, MoveOutsFacts
    <3>2. \A q \in Paths : u[q] = IF b \in Lineage(q) THEN Absent ELSE t[q]
      BY <3>1, RemoveAllKeepsTree
    <3> QED
      BY <3>1, <3>2, DistinctNodes DEF Lineage
  <2> QED
    BY <2>1, <2>2
<1>2. told \subseteq Paths /\ step[2] \subseteq told
  BY <1>1, LinksAssumption DEF Linked
<1>3. ASSUME NEW p \in Paths, p \notin told
      PROVE  \/ Wanted(u, p) = Wanted(t, p)
             \/ Wanted(u, p) = Absent /\ \E a \in Above[p] \cap told : Wanted(u, a) # Dir
  <2>1. CASE u[p] # t[p]
    <3>1. PICK a \in Above[p] \cap step[2] : u[p] = Absent /\ u[a] # Dir
      BY <1>1, <1>2, <1>3, <2>1
    <3> QED
      BY <1>1, <1>2, <3>1, WantedAbove, AboveFacts
  <2>2. CASE u[p] = t[p] /\ t[p] # Link
    BY <1>1, <2>2, WantedFacts
  <2>3. CASE u[p] = t[p] /\ t[p] = Link
    <3>1. /\ Wanted(t, p) = IF Behind[p] \in Paths /\ t[Behind[p]] \in Contents
                            THEN t[Behind[p]] ELSE Absent
          /\ Wanted(u, p) = IF Behind[p] \in Paths /\ u[Behind[p]] \in Contents
                            THEN u[Behind[p]] ELSE Absent
      BY <1>1, <2>3, WantedOfLink
    <3>2. CASE Behind[p] \in Paths /\ u[Behind[p]] # t[Behind[p]]
      <4>1. Lineage(Behind[p]) \cap step[2] # {}
        BY <1>1, <3>2 DEF Lineage
      <4>2. p \in Linked(u, step[2])
        BY <2>3, <4>1, TreeFacts DEF Linked
      <4> QED
        BY <1>3, <4>2
    <3>3. CASE ~(Behind[p] \in Paths /\ u[Behind[p]] # t[Behind[p]])
      BY <3>1, <3>3
    <3> QED
      BY <3>2, <3>3
  <2> QED
    BY <2>1, <2>2, <2>3
<1> HIDE DEF u
<1>4. \A q \in Paths :
        \/ u[q] = t[q]
        \/ q \in told
        \/ u[q] = Absent /\ \E a \in Above[q] \cap told : u[a] # Dir
  BY <1>1, <1>2
<1> QED
  BY <1>1, <1>2, <1>3, <1>4 DEF u
=============================================================================
