-------------------------- MODULE InitialSync_proofs --------------------------
(***************************************************************************)
(* What the first walk reconciles, what it removes and why it fails, on    *)
(* trees of any shape and depth without paths below a link, whatever is    *)
(* changed while it runs, between the calls of one Execute too.  Only that *)
(* nothing is left out needs what module InitialSync names as the limits   *)
(* of the environment: ~Swaps and ~TargetMoves.                            *)
(***************************************************************************)
EXTENDS InitialSync, Trees_proofs

USE RootAssumption, LimitsAssumption

-----------------------------------------------------------------------------
(* The inductive invariant.                                                *)

\* Links are followed by Stat of the source, and the target has none; what Execute
\* has read is forgotten when it returns.
Types == TypeOK /\ want # Link /\ have # Link /\ (pc \notin Calls => want = Absent)

\* The entries whose visit leads to a path: itself, what is above it, and the root.
Way(p) == {Root} \cup Lineage(p)

\* The path, or a directory above it, has an event.
Raced(p) == Lineage(p) \cap changed # {}

\* Directories are replaced in the source or moved out of the target: of what was in
\* them no event tells.
Lax == Swaps \/ TargetMoves

InSource == {"visit", "execute", "reconcile", "stat", "list"}
InTarget == {"look", "listTarget", "remove"}

\* Absent below a directory that went away.
Gone(p) == Wanted(source, p) = Absent /\ \E a \in Above[p] \cap changed : Wanted(source, a) # Dir

\* Not in need of the walk: the trees agree, or an event is going to see to it.
Settled(p) ==
    \/ Wanted(source, p) = target[p]
    \/ p \in changed
    \/ Gone(p)
    \/ Lax /\ Raced(p)

\* What Execute has read, and how far it can be from the trees by now.
CallKnown == want = StatSource(view, at)
ViewKept ==
    \A q \in Paths : Wanted(source, q) \in {Wanted(view, q), Absent} \/ q \in changed
MadeKept ==
    want = Dir =>
      \A q \in Lineage(at) :
        Wanted(source, q) = Dir \/ q \in changed \/ Gone(q) \/ (Lax /\ Raced(q))
HaveKept  == have # Dir => \A q \in Below(at) : target[q] = Absent \/ q \in changed
HaveFresh == have \in {target[at], NotDir} \/ at \in changed \/ (Lax /\ Raced(at))

CallInv == pc \in Calls => CallKnown /\ ViewKept /\ MadeKept /\ HaveKept /\ HaveFresh

\* The source walk is going to come by.
Coming(p) ==
    \/ Way(p) \cap todo # {}
    \/ pc \in {"execute", "reconcile"} /\ at \in Way(p)
    \/ pc \in {"stat", "list"} /\ at \in Way(p) \ {p}

\* The cleanup is going to come by, or to return.
Returning(p) ==
    \/ Way(p) \cap todo # {}
    \/ p \in open
    \/ pc = "listTarget" /\ at \in Way(p)
    \/ pc = "remove" /\ at = p

Ahead(p) ==
    /\ pc \notin {"failed", "faulted"}
    /\ pc # "done"
    /\ p \notin visited
    /\ pc \in InSource => Wanted(source, p) = Absent \/ Coming(p)
    /\ pc \in InTarget => Wanted(source, p) = Absent /\ Returning(p)

Inv ==
    /\ Types
    /\ CallInv
    /\ pc \notin {"failed", "faulted"} => \A p \in Covered : Settled(p) \/ Ahead(p)

-----------------------------------------------------------------------------
(* The shape of the trees.                                                 *)

LEMMA CoveredFacts ==
    ASSUME NEW p \in Covered
    PROVE  /\ p \in Paths /\ p # Root /\ p \notin Above[p]
           /\ Above[p] \subseteq Paths /\ Root \notin Above[p]
           /\ Way(p) \cap Ignored = {}
BY PathsAssumption DEF Covered, Lineage, Way

LEMMA TypeFacts ==
    ASSUME Types
    PROVE  /\ source \in Tree /\ target \in TargetTree /\ target \in Tree /\ view \in Tree
           /\ pc \in Steps \cup Ended /\ at \in Paths \cup {Root}
           /\ todo \subseteq Paths \cup {Root} /\ open \subseteq Paths \cup {Root}
           /\ visited \subseteq Paths \cup {Root} /\ changed \subseteq Paths
           /\ want \in (Nodes \ {Link}) \cup {NotDir} /\ have \in (Nodes \ {Link}) \cup {NotDir}
           /\ pc \in Calls => at \in Paths
BY DEF Types, TypeOK, TargetTree

\* The listing of an entry on the way to what exists leads on.
LEMMA ListingLeadsOn ==
    ASSUME NEW t \in Tree, NEW p \in Covered, t[p] # Absent, NEW q \in Way(p) \ {p}
    PROVE  /\ Way(p) \cap Entries(t, q) # {}
           /\ q # Root => t[q] = Dir
<1>1. p \in Paths /\ \A a \in Above[p] : t[a] = Dir /\ a # Root
  BY CoveredFacts, TreeFacts
<1>2. q = Root \/ q \in Above[p]
  BY DEF Way, Lineage
<1>3. PICK c \in Lineage(p) : c \in IF q = Root THEN Tops ELSE Children(q)
  BY <1>1, <1>2, PathsAssumption
<1>4. t[c] # Absent
  BY <1>1, DistinctNodes DEF Lineage
<1>5. c \in Entries(t, q) /\ c \in Way(p)
  BY <1>3, <1>4 DEF Entries, Way
<1> QED
  BY <1>1, <1>2, <1>5

\* What is read of a path, unless it is below a file.
LEMMA NodesRead ==
    ASSUME LeafLinks, Types, NEW p \in Paths
    PROVE  /\ StatSource(source, p) \in {Wanted(source, p), NotDir}
           /\ Lstat(target, p) \in {target[p], NotDir}
BY StatFacts, LstatOfTarget, TypeFacts

-----------------------------------------------------------------------------
(* Everybody else.                                                         *)

\* Others change a path with an event of its own, or with one of a directory above
\* it that they moved away; and what Swap rules out does not happen, unless Swaps.
LEMMA OthersFacts ==
    ASSUME Types, EditSource \/ DriftTarget
    PROVE  /\ UNCHANGED walk /\ UNCHANGED call /\ Types' /\ pc \notin Ended
           /\ changed \subseteq changed'
           /\ \A p \in Paths :
                \/ target'[p] = target[p]
                \/ p \in changed'
                \/ TargetMoves /\ target'[p] = Absent /\ Above[p] \cap changed' # {}
           /\ \A p \in Paths :
                \/ source'[p] = source[p]
                \/ p \in changed'
                \/ source'[p] = Absent /\ \E a \in Above[p] \cap changed' : source'[a] # Dir
           /\ \A p \in Paths :
                \/ Wanted(source', p) = Wanted(source, p)
                \/ p \in changed'
                \/ /\ Wanted(source', p) = Absent
                   /\ \E a \in Above[p] \cap changed' : Wanted(source', a) # Dir
           /\ ~Swaps => \A p \in Paths : p \notin changed =>
                \A a \in Above[p] \cap changed :
                  Wanted(source, a) # Dir /\ Wanted(source', a) = Dir => Made[p] = Absent
<1>1. /\ UNCHANGED walk /\ UNCHANGED call /\ source \in Tree /\ target \in TargetTree
      /\ target \in Tree /\ changed \subseteq Paths /\ pc \notin Ended
  BY TypeFacts DEF EditSource, DriftTarget
<1>2. source' \in Tree /\ target' \in TargetTree /\ changed' \subseteq Paths => Types'
  BY <1>1 DEF Types, TypeOK, walk, call
<1>3. CASE DriftTarget
  <2>1. PICK step \in Edits(target) \cup (IF TargetMoves THEN MoveOuts(target) ELSE {}) :
               /\ \A p \in step[2] : step[1][p] # Link
               /\ target' = step[1] /\ changed' = changed \cup step[2]
    BY <1>3 DEF DriftTarget
  <2>2. /\ target' \in Tree /\ step[2] \subseteq Paths /\ source' = source
        /\ \A p \in Paths :
             \/ target'[p] = target[p]
             \/ p \in step[2]
             \/ TargetMoves /\ target'[p] = Absent /\ Above[p] \cap step[2] # {}
    <3>1. CASE step \in Edits(target)
      BY <1>1, <1>3, <2>1, <3>1, EditsFacts DEF DriftTarget
    <3>2. CASE TargetMoves /\ step \in MoveOuts(target)
      <4>1. PICK b \in Paths : /\ step[1] = RemoveAll(target, b) /\ step[2] = {b}
                               /\ step[1] \in Tree
        BY <1>1, <3>2, MoveOutsFacts
      <4>2. \A q \in Paths : target'[q] = IF b \in Lineage(q) THEN Absent ELSE target[q]
        BY <1>1, <2>1, <4>1, RemoveAllKeepsTree
      <4> QED
        BY <1>3, <2>1, <3>2, <4>1, <4>2 DEF DriftTarget, Lineage
    <3> QED
      BY <2>1, <3>1, <3>2
  <2>3. target' \in TargetTree
    BY <1>1, <2>1, <2>2, DistinctNodes DEF TargetTree
  <2> QED
    BY <1>1, <1>2, <2>1, <2>2, <2>3
<1>4. CASE EditSource
  <2>1. PICK step \in Edits(source) \cup MoveOuts(source) :
               /\ Swaps \/ ~Swap(source, step[1], Made, changed, changed)
               /\ source' = step[1]
               /\ changed' = changed \cup step[2] \cup Linked(step[1], step[2])
    BY <1>4 DEF EditSource
  <2>2. /\ source' \in Tree /\ changed' \subseteq Paths /\ target' = target
        /\ changed \subseteq changed'
        /\ \A p \in Paths :
             \/ source'[p] = source[p]
             \/ p \in changed'
             \/ source'[p] = Absent /\ \E a \in Above[p] \cap changed' : source'[a] # Dir
        /\ \A p \in Paths :
             \/ Wanted(source', p) = Wanted(source, p)
             \/ p \in changed'
             \/ /\ Wanted(source', p) = Absent
                /\ \E a \in Above[p] \cap changed' : Wanted(source', a) # Dir
    BY <1>1, <1>4, <2>1, SourceEdits DEF EditSource
  <2>3. ASSUME ~Swaps, NEW p \in Paths, p \notin changed, NEW a \in Above[p] \cap changed,
               Wanted(source, a) # Dir, Wanted(source', a) = Dir
        PROVE  Made[p] = Absent
    <3>1. p \in Below(a) /\ source[a] # Dir /\ source'[a] = Dir
      BY <1>1, <2>2, <2>3, WantedAbove DEF Below
    <3> QED
      BY <2>1, <2>3, <3>1 DEF Swap
  <2> QED
    BY <1>1, <1>2, <2>2, <2>3
<1> QED
  BY <1>3, <1>4

\* What is made is there, or on its way.
LEMMA MadeFacts ==
    ASSUME Types, NEW p \in Paths
    PROVE  /\ Made[p] = Absent => target[p] = Absent
           /\ want = Dir /\ p \in Lineage(at) => Made[p] = Dir
BY DistinctNodes DEF Made, Mkdir

LEMMA ByOthers ==
    ASSUME Inv, EditSource \/ DriftTarget
    PROVE  Inv'
<1>1. /\ Types /\ UNCHANGED walk /\ UNCHANGED call /\ Types' /\ CallInv
      /\ at \in Paths \cup {Root} /\ (pc \in Calls => at \in Paths)
  BY OthersFacts, TypeFacts DEF Inv
<1>2. \A p \in Paths : Raced(p) => Raced(p)'
  BY <1>1, OthersFacts DEF Raced
\* A path that was gone below a directory has nothing left when that comes back.
<1>3. ASSUME NEW p \in Paths, Gone(p), Made[p] # Absent, Wanted(source', p) = Absent
      PROVE  p \in changed' \/ Gone(p)' \/ (Lax /\ Raced(p)')
  <2>1. PICK a \in Above[p] \cap changed : Wanted(source, a) # Dir
    BY <1>3 DEF Gone
  <2>2. a \in changed' /\ Raced(p)
    BY <1>1, <2>1, OthersFacts DEF Raced, Lineage
  <2>3. CASE Wanted(source', a) # Dir
    BY <1>3, <2>1, <2>2, <2>3 DEF Gone
  <2>4. CASE Wanted(source', a) = Dir
    BY <1>1, <1>2, <1>3, <2>1, <2>2, <2>4, OthersFacts DEF Lax
  <2> QED
    BY <2>3, <2>4
<1>4. ASSUME pc \in Calls
      PROVE  CallKnown' /\ ViewKept' /\ HaveKept' /\ HaveFresh'
  <2>1. CallKnown /\ ViewKept /\ HaveKept /\ HaveFresh /\ at \in Paths
    BY <1>1, <1>4 DEF CallInv
  <2>2. CallKnown'
    BY <1>1, <2>1 DEF CallKnown, walk, call
  <2>3. ViewKept'
    BY <1>1, <2>1, OthersFacts DEF ViewKept, call
  <2>4. HaveKept'
    BY <1>1, <2>1, OthersFacts DEF HaveKept, Below, walk, call
  <2>5. HaveFresh'
    <3>1. at' = at /\ have' = have
      BY <1>1 DEF walk, call
    <3>2. changed \subseteq changed'
      BY <1>1, OthersFacts
    <3>3. \/ target'[at] = target[at]
          \/ at \in changed'
          \/ Lax /\ Lineage(at) \cap changed' # {}
      BY <1>1, <2>1, OthersFacts DEF Lax, Lineage
    <3> QED
      BY <2>1, <3>1, <3>2, <3>3 DEF HaveFresh, Raced
  <2> QED
    BY <2>2, <2>3, <2>4, <2>5
<1>5. ASSUME pc \in Calls
      PROVE  MadeKept'
  <2> SUFFICES ASSUME want = Dir, NEW q \in Lineage(at),
                      q \notin changed', ~(Lax /\ Raced(q)'), ~Gone(q)'
               PROVE  Wanted(source', q) = Dir
    <3>1. at' = at /\ want' = want
      BY <1>1 DEF walk, call
    <3> QED
      BY <3>1 DEF MadeKept, Lax
  <2>1. q \in Paths /\ q \notin changed /\ ~(Lax /\ Raced(q))
    BY <1>1, <1>2, <1>5, OthersFacts, AboveFacts DEF Lineage
  <2>2. Wanted(source, q) = Dir \/ Gone(q)
    BY <1>1, <1>5, <2>1 DEF CallInv, MadeKept
  <2>3. Wanted(source', q) = Wanted(source, q)
    BY <1>1, <2>1, OthersFacts DEF Gone
  <2>4. CASE Gone(q)
    <3>1. Made[q] # Absent
      BY <1>1, <2>1, MadeFacts, DistinctNodes
    <3> QED
      BY <1>3, <2>1, <2>3, <2>4, <3>1 DEF Gone
  <2> QED
    BY <2>2, <2>3, <2>4
<1>6. ASSUME NEW p \in Covered, Settled(p) \/ Ahead(p), ~Settled(p)'
      PROVE  Ahead(p)'
  <2>1. /\ p \in Paths /\ p \notin changed /\ p \notin changed'
        /\ ~(Lax /\ Raced(p)) /\ ~(Lax /\ Raced(p)') /\ ~Gone(p)'
        /\ Wanted(source', p) # target'[p]
    BY <1>1, <1>2, <1>6, OthersFacts, CoveredFacts DEF Settled
  <2>2. target'[p] = target[p] /\ Wanted(source', p) = Wanted(source, p)
    BY <1>1, <2>1, OthersFacts DEF Gone, Lax, Raced, Lineage
  <2>3. ~Gone(p)
    BY <1>1, <1>3, <2>1, <2>2, MadeFacts DEF Gone
  <2>4. ~Settled(p)
    BY <2>1, <2>2, <2>3 DEF Settled
  <2> QED
    BY <1>1, <1>6, <2>2, <2>4 DEF Ahead, Coming, Returning, walk
<1> QED
  BY <1>1, <1>4, <1>5, <1>6 DEF Inv, CallInv, walk

-----------------------------------------------------------------------------
(* One Execute.                                                            *)

LEMMA StatsKnown ==
    ASSUME LeafLinks, Types, NEW p \in Paths, Stats(p), at' = p, UNCHANGED <<source, target, changed>>
    PROVE  /\ want' \in (Nodes \ {Link}) \cup {NotDir} /\ have' \in (Nodes \ {Link}) \cup {NotDir}
           /\ view' \in Tree
           /\ CallKnown' /\ ViewKept' /\ MadeKept' /\ HaveKept' /\ HaveFresh'
<1>1. /\ want' = StatSource(source, p) /\ have' = Lstat(target, p) /\ view' = source
      /\ source' = source /\ target' = target /\ at' = p
      /\ source \in Tree /\ target \in TargetTree /\ target \in Tree
  BY TypeFacts DEF Stats
<1>2. /\ want' \in (Nodes \ {Link}) \cup {NotDir} /\ have' \in (Nodes \ {Link}) \cup {NotDir}
  BY <1>1, LstatFacts, LstatOfTarget
<1>3. CallKnown' /\ ViewKept'
  BY <1>1 DEF CallKnown, ViewKept
<1>4. MadeKept'
  <2>1. ASSUME want' = Dir, NEW q \in Lineage(p)
        PROVE  Wanted(source, q) = Dir
    <3>1. Wanted(source, p) = Dir
      BY <1>1, <2>1, NodesRead, DistinctNodes
    <3> QED
      BY <1>1, <3>1, WantedAbove, DistinctNodes DEF Lineage
  <2> QED
    BY <1>1, <2>1 DEF MadeKept
<1>5. HaveKept'
  <2>1. have' # Dir => target[p] # Dir
    BY <1>1, LstatOfTarget, DistinctNodes
  <2>2. have' # Dir => \A q \in Below(p) : target[q] = Absent
    BY <1>1, <2>1, NothingBelow
  <2> QED
    BY <1>1, <2>2 DEF HaveKept
<1>6. HaveFresh'
  BY <1>1, LstatOfTarget DEF HaveFresh
<1> QED
  BY <1>1, <1>2, <1>3, <1>4, <1>5, <1>6

LEMMA CallFacts ==
    ASSUME Types, Reconcile \/ Removed \/ ExecuteFails
    PROVE  /\ at \in Paths /\ at' = at /\ UNCHANGED <<source, changed, todo, open>>
           /\ pc \in Calls /\ pc' \notin Calls /\ Types'
           /\ visited \subseteq visited' /\ visited' \subseteq visited \cup {at}
           /\ \A q \in Paths : Leaves(source, target, at, want, have, target', q)
<1>1. /\ at \in Paths /\ at' = at /\ UNCHANGED <<source, changed, todo, open>>
      /\ pc \in Calls /\ pc' \in (Steps \cup Ended) \ Calls
      /\ visited \subseteq visited' /\ visited' \subseteq visited \cup {at}
      /\ want' = Absent /\ have' = Absent /\ view' = Empty
      /\ target' = Result.tree \/ target' \in Interrupted(target, at, want, have)
  BY TypeFacts DEF Reconcile, Removed, ExecuteFails, Fail, Return, Calls, Steps, Ended
<1>2. target' \in TargetTree /\ \A q \in Paths : Leaves(source, target, at, want, have, target', q)
  <2>1. CASE target' = Result.tree
    BY <1>1, <2>1, TypeFacts, ApplyLeaves DEF Result
  <2>2. CASE target' \in Interrupted(target, at, want, have)
    BY <1>1, <2>2, TypeFacts, InterruptedLeaves
  <2> QED
    BY <1>1, <2>1, <2>2
<1>3. Empty \in Tree /\ Absent \in Nodes /\ Absent # Link
  BY DistinctNodes DEF Empty, Tree, Nodes
<1> QED
  BY <1>1, <1>2, <1>3 DEF Types, TypeOK

\* What a call without an error wrote is either right or an event is going to see to
\* it; the path of the call is.
LEMMA CallSettles ==
    ASSUME LeafLinks, Types, CallInv, Reconcile \/ Removed, pc' # "failed"
    PROVE  \A q \in Paths : (q # at /\ target'[q] = target[q]) \/ Settled(q)'
<1> SUFFICES ASSUME NEW q \in Paths, q = at \/ target'[q] # target[q]
             PROVE  Settled(q)'
  OBVIOUS
<1>1. /\ at \in Paths /\ source' = source /\ changed' = changed
      /\ source \in Tree /\ target \in Tree /\ view \in Tree
      /\ want \in (Nodes \ {Link}) \cup {NotDir} /\ have \in (Nodes \ {Link}) \cup {NotDir}
      /\ want = StatSource(view, at) /\ ViewKept /\ MadeKept /\ HaveKept /\ HaveFresh
      /\ Leaves(source, target, at, want, have, target', q)
  BY CallFacts, TypeFacts DEF CallInv, CallKnown
<1>2. Settled(q)' <=> \/ Wanted(source, q) = target'[q] \/ q \in changed
                      \/ Gone(q) \/ (Lax /\ Raced(q))
  BY <1>1 DEF Settled, Gone, Lax, Raced
<1>3. target' = Result.tree /\ Result.ok
  BY DEF Reconcile, Removed, Fail
<1>4. ASSUME want # NotDir
      PROVE  want = Wanted(view, at)
  BY <1>1, <1>4, StatFacts
<1>5. Wanted(source, q) = Wanted(view, q) \/ Wanted(source, q) = Absent \/ q \in changed
  BY <1>1 DEF ViewKept
<1>6. CASE target'[q] # target[q]
  <2>1. CASE WrongKind(want, have) /\ at \in Lineage(q) /\ target'[q] = Absent /\ q # at
    <3>1. q \in Below(at) /\ at \in Above[q] /\ want # NotDir
      BY <1>1, <2>1 DEF Below, Lineage, WrongKind
    <3>2. CASE have # Dir
      BY <1>1, <1>2, <1>6, <2>1, <3>1, <3>2 DEF HaveKept
    <3>3. CASE have = Dir
      <4>1. Wanted(view, at) # Dir
        BY <1>4, <2>1, <3>1, <3>3 DEF WrongKind
      <4>2. Wanted(view, q) = Absent
        BY <1>1, <3>1, <4>1, WantedBelow
      <4> QED
        BY <1>2, <1>5, <2>1, <4>2
    <3> QED
      BY <3>2, <3>3
  <2>2. CASE want = Dir /\ q \in Lineage(at) /\ target'[q] = Dir
    BY <1>1, <1>2, <2>2 DEF MadeKept
  <2>3. CASE q = at /\ target'[q] = StatSource(source, at) /\ target'[q] \in Contents
    BY <1>1, <1>2, <2>3, StatFacts
  <2>4. CASE q = at /\ target'[q] = Absent /\ WrongKind(want, have)
    <3>1. want = Absent
      <4> DEFINE base == Base(target, at, want, have)
                 r == Apply(source, target, at, want, have)
      <4>1. Results(source, target, at, want, have, r)
        BY <1>1, ApplyCases
      <4>2. r.ok /\ target' = r.tree /\ NotDir \notin {want, have} /\ (want # Dir \/ have # Dir)
        BY <1>3, <2>4 DEF Result, WrongKind
      <4>3. base \in Tree
        BY <1>1, BaseKeepsTree
      <4> HIDE DEF r, base
      <4>4. \/ want = Absent
            \/ r.tree = Mkdir(base, at)
            \/ /\ StatSource(source, at) \in Contents
               /\ r.tree = [base EXCEPT ![at] = StatSource(source, at)]
        BY <4>1, <4>2, DistinctNodes DEF Results, Outcome, base
      <4>5. r.tree # Mkdir(base, at)
        BY <1>1, <2>4, <4>2, DistinctNodes DEF Mkdir, Lineage
      <4>6. ~ /\ StatSource(source, at) \in Contents
              /\ r.tree = [base EXCEPT ![at] = StatSource(source, at)]
        BY <1>1, <2>4, <4>2, <4>3, TreeFacts, DistinctNodes
      <4> QED
        BY <4>4, <4>5, <4>6
    <3>2. Wanted(view, at) = Absent
      BY <1>4, <3>1, DistinctNodes
    <3> QED
      BY <1>2, <1>5, <2>4, <3>2
  <2> QED
    BY <1>1, <1>6, <2>1, <2>2, <2>3, <2>4 DEF Leaves
<1>7. CASE q = at /\ target'[q] = target[q]
  <2> DEFINE base == Base(target, at, want, have)
             r == Apply(source, target, at, want, have)
  <2>1. Results(source, target, at, want, have, r)
    BY <1>1, ApplyCases
  <2>2. r.ok /\ target' = r.tree /\ base \in Tree
    BY <1>1, <1>3, BaseKeepsTree DEF Result
  <2>3. \A p \in Paths : base[p] = IF WrongKind(want, have) /\ at \in Lineage(p)
                                   THEN Absent ELSE target[p]
    BY <1>1, RemoveAllKeepsTree DEF Base
  <2> HIDE DEF r
  <2>4. /\ NotDir \notin {want, have}
        /\ \/ want = Absent /\ target' = base
           \/ want = Dir /\ have = Dir /\ target' = target
           \/ want = Dir /\ target' = Mkdir(base, at)
           \/ StatSource(source, at) \in Contents /\ target' = [base EXCEPT ![at] = StatSource(source, at)]
    BY <2>1, <2>2, DistinctNodes DEF Results, Outcome
  <2> HIDE DEF base
  <2>5. want = Wanted(view, at) /\ have # NotDir
    BY <1>4, <2>4
  <2>6. have = target[at] \/ Settled(q)'
    BY <1>1, <1>2, <1>7, <2>5 DEF HaveFresh
  <2>7. CASE want = Absent /\ target' = base
    <3>1. WrongKind(want, have) \/ have = Absent
      BY <1>1, <2>4, <2>7, DistinctNodes DEF WrongKind
    <3>2. WrongKind(want, have) => target'[at] = Absent
      BY <1>1, <2>3, <2>7 DEF Lineage
    <3> QED
      BY <1>2, <1>5, <1>7, <2>5, <2>6, <2>7, <3>1, <3>2
  <2>8. CASE want = Dir /\ have = Dir /\ target' = target
    <3>1. Wanted(source, at) = Dir \/ Settled(q)'
      BY <1>1, <1>2, <1>7, <2>8 DEF MadeKept, Lineage
    <3> QED
      BY <1>2, <1>7, <2>6, <2>8, <3>1
  <2>9. CASE want = Dir /\ target' = Mkdir(base, at)
    <3>1. target'[at] = Dir
      BY <1>1, <2>9 DEF Mkdir, Lineage
    <3> QED
      BY <1>1, <1>2, <1>7, <2>9, <3>1 DEF MadeKept, Lineage
  <2>10. CASE StatSource(source, at) \in Contents /\ target' = [base EXCEPT ![at] = StatSource(source, at)]
    <3>1. target'[at] = StatSource(source, at)
      BY <1>1, <2>2, <2>10, TreeFacts
    <3> QED
      BY <1>1, <1>2, <1>7, <2>10, <3>1, StatFacts
  <2> QED
    BY <2>4, <2>7, <2>8, <2>9, <2>10
<1> QED
  BY <1>6, <1>7

-----------------------------------------------------------------------------
(* The walk.                                                               *)

\* The steps in which Execute does not write.
LEMMA NoCall ==
    ASSUME LeafLinks, Types, Agent, ~(Reconcile \/ Removed \/ ExecuteFails)
    PROVE  Types' /\ CallInv' /\ UNCHANGED <<source, target, changed>>
<1> USE DEF Calls, Steps, Ended
<1>0. \A t, q : Entries(t, q) \subseteq Paths
  BY DEF Entries, Tops, Children
<1>1. ASSUME NEW p \in Paths, Stats(p), at' = p, pc' \in Calls, UNCHANGED <<source, target, changed>>,
             {todo', open', visited'} \subseteq SUBSET (Paths \cup {Root})
      PROVE  Types' /\ CallInv'
  <2>1. /\ want' \in (Nodes \ {Link}) \cup {NotDir} /\ have' \in (Nodes \ {Link}) \cup {NotDir}
        /\ view' \in Tree
        /\ CallKnown' /\ ViewKept' /\ MadeKept' /\ HaveKept' /\ HaveFresh'
    BY <1>1, StatsKnown
  <2>2. Types'
    <3>1. source' \in Tree /\ target' \in TargetTree /\ changed' \subseteq Paths
      BY <1>1, TypeFacts
    <3>2. Link \notin (Nodes \ {Link}) \cup {NotDir}
      BY DistinctNodes DEF Nodes
    <3> QED
      BY <1>1, <2>1, <3>1, <3>2 DEF Types, TypeOK
  <2> QED
    BY <2>1, <2>2 DEF CallInv
<1>2. ASSUME UNCHANGED call, UNCHANGED <<source, target, changed>>,
             pc \notin Calls, pc' \in (Steps \cup Ended) \ Calls, at' \in Paths \cup {Root},
             {todo', open', visited'} \subseteq SUBSET (Paths \cup {Root})
      PROVE  Types' /\ CallInv'
  BY <1>2 DEF Types, TypeOK, CallInv, call
<1>3. /\ at \in Paths \cup {Root} /\ todo \subseteq Paths \cup {Root}
      /\ open \subseteq Paths \cup {Root} /\ visited \subseteq Paths \cup {Root}
  BY TypeFacts
<1>4. CASE Execute
  <2>1. CASE at = Root
    BY <1>2, <1>3, <1>4, <2>1 DEF Execute
  <2>2. CASE at # Root
    BY <1>1, <1>3, <1>4, <2>2 DEF Execute
  <2> QED
    BY <1>4, <2>1, <2>2 DEF Execute
<1>5. ASSUME NEW p \in Paths \cup {Root}, RemoveUnvisited(p)
      PROVE  Types' /\ CallInv' /\ UNCHANGED <<source, target, changed>>
  BY <1>1, <1>3, <1>5 DEF RemoveUnvisited
<1>6. ASSUME NEW p \in Paths \cup {Root}, KeepVisited(p)
      PROVE  Types' /\ CallInv' /\ UNCHANGED <<source, target, changed>>
  BY <1>2, <1>3, <1>6 DEF KeepVisited
<1>7. CASE Skip("visit") \/ Skip("look") \/ Visit \/ WalkDone
  BY <1>2, <1>3, <1>7 DEF Skip, Visit, WalkDone
<1>8. CASE StatAgain \/ ReadDir
  BY <1>0, <1>2, <1>3, <1>8 DEF StatAgain, ReadDir, Fail
<1>9. CASE Look \/ ReadTargetDir
  BY <1>0, <1>2, <1>3, <1>9 DEF Look, ReadTargetDir, Fail
<1>10. CASE CleanupDone \/ CallFails
  BY <1>2, <1>3, <1>10 DEF CleanupDone, CallFails
<1> QED
  BY <1>4, <1>5, <1>6, <1>7, <1>8, <1>9, <1>10 DEF Agent

LEMMA TypesByAgent ==
    ASSUME LeafLinks, Types, Agent
    PROVE  Types' /\ CallInv' /\ UNCHANGED <<source, changed>>
<1>1. CASE Reconcile \/ Removed \/ ExecuteFails
  BY <1>1, CallFacts DEF CallInv
<1> QED
  BY <1>1, NoCall

LEMMA BySourceWalk ==
    ASSUME LeafLinks, Inv,
           Skip("visit") \/ Visit \/ Execute \/ Reconcile \/ StatAgain \/ ReadDir,
           NEW p \in Covered, ~Settled(p), ~Settled(p)', pc' \notin {"failed", "faulted"}
    PROVE  Ahead(p)'
<1>1. pc \in InSource /\ UNCHANGED source
  BY DEF Skip, Visit, Execute, Reconcile, StatAgain, ReadDir, InSource
<1>2. /\ p \notin visited /\ (Wanted(source, p) = Absent \/ Coming(p))
      /\ source \in Tree /\ Types /\ CallInv
  BY <1>1, TypeFacts DEF Inv, Ahead, InSource
<1>3. pc' \in InSource \ InTarget /\ pc' # "done"
  BY DEF Skip, Visit, Execute, Reconcile, StatAgain, ReadDir, Fail, InSource, InTarget
<1>4. Reconcile => p # at
  BY <1>2, CallSettles, CoveredFacts
<1>5. p \notin visited'
  BY <1>2, <1>4, CoveredFacts DEF Skip, Visit, Execute, Reconcile, StatAgain, ReadDir, Fail
<1>6. ASSUME Wanted(source, p) # Absent
      PROVE  Coming(p)'
  <2>1. Coming(p) /\ p \in Paths /\ source[p] # Absent
    BY <1>2, <1>6, CoveredFacts, WantedAbove
  <2>2. CASE Skip("visit")
    BY <1>2, <2>1, <2>2, CoveredFacts DEF Skip, Coming
  <2>3. CASE Visit
    BY <1>2, <2>1, <2>3 DEF Visit, Coming
  <2>4. CASE Execute
    BY <2>1, <2>4, CoveredFacts DEF Execute, Coming
  <2>5. CASE Reconcile
    BY <1>4, <2>1, <2>5 DEF Reconcile, Fail, Coming
  <2>6. CASE StatAgain
    <3>1. CASE at \in Way(p) \ {p}
      <4>1. at # Root => source[at] = Dir /\ at \in Paths
        BY <1>2, <2>1, <3>1, ListingLeadsOn, TypeFacts
      <4>2. SourceNode(at) # NotDir
        BY <2>6 DEF StatAgain, Fail
      <4>3. SourceNode(at) = Dir
        BY <1>2, <4>1, <4>2, NodesRead, WantedAbove DEF SourceNode
      <4> QED
        BY <2>6, <3>1, <4>3 DEF StatAgain, Coming, Fail
    <3>2. CASE at \notin Way(p) \ {p}
      BY <2>1, <2>6, <3>2 DEF StatAgain, Coming, Fail
    <3> QED
      BY <3>1, <3>2
  <2>7. CASE ReadDir
    <3>1. todo' = todo \cup Entries(source, at)
      BY <2>7 DEF ReadDir, Fail
    <3>2. CASE at \in Way(p) \ {p}
      BY <1>2, <2>1, <3>1, <3>2, ListingLeadsOn DEF Coming
    <3>3. CASE at \notin Way(p) \ {p}
      BY <2>1, <2>7, <3>1, <3>3 DEF ReadDir, Coming
    <3> QED
      BY <3>2, <3>3
  <2> QED
    BY <2>2, <2>3, <2>4, <2>5, <2>6, <2>7
<1> QED
  BY <1>1, <1>3, <1>5, <1>6 DEF Ahead

LEMMA ByCleanup ==
    ASSUME LeafLinks, Inv, NEW p \in Covered, ~Settled(p), ~Settled(p)',
           pc' \notin {"failed", "faulted"},
           \/ Skip("look") \/ Look \/ ReadTargetDir \/ Removed
           \/ \E q \in Paths \cup {Root} : KeepVisited(q) \/ RemoveUnvisited(q)
    PROVE  Ahead(p)'
<1>1. pc \in InTarget /\ UNCHANGED <<source, visited>>
  BY DEF Skip, Look, ReadTargetDir, Removed, KeepVisited, RemoveUnvisited, Fail, InTarget
<1>2. /\ p \notin visited /\ Wanted(source, p) = Absent /\ target[p] # Absent /\ Returning(p)
      /\ target \in Tree /\ Types /\ CallInv /\ p \in Paths /\ p # Root
  BY <1>1, CoveredFacts, TypeFacts DEF Inv, Ahead, InTarget, Settled
<1>3. pc' \in InTarget \ InSource /\ pc' # "done"
  BY DEF Skip, Look, ReadTargetDir, Removed, KeepVisited, RemoveUnvisited, Fail, InSource, InTarget
<1>4. Returning(p)'
  <2>1. CASE Skip("look")
    BY <1>2, <2>1, CoveredFacts DEF Skip, Returning
  <2>2. CASE Look
    <3>1. PICK q \in todo \ Ignored :
            /\ at' = q
            /\ \/ /\ TargetNode(q) = NotDir
                  /\ pc' = "failed"
                  /\ UNCHANGED <<todo, open>>
               \/ /\ TargetNode(q) = Dir
                  /\ pc' = "listTarget"
                  /\ todo' = todo \ {q}
                  /\ UNCHANGED open
               \/ /\ TargetNode(q) \in Contents \cup {Absent}
                  /\ todo' = todo \ {q}
                  /\ open' = open \cup (IF TargetNode(q) = Absent THEN {} ELSE {q})
                  /\ UNCHANGED pc
      BY <2>2 DEF Look
    <3>2. pc = "look"
      BY <2>2 DEF Look
    <3>3. CASE q \notin Way(p)
      BY <1>2, <3>1, <3>2, <3>3 DEF Returning
    <3>4. CASE q \in Way(p) /\ TargetNode(q) = Dir /\ pc' = "listTarget"
      BY <3>1, <3>4 DEF Returning
    <3>5. CASE /\ q \in Way(p) /\ TargetNode(q) \in Contents \cup {Absent}
               /\ open' = open \cup (IF TargetNode(q) = Absent THEN {} ELSE {q})
      <4>1. TargetNode(q) \notin {Dir, NotDir}
        BY <3>5, DistinctNodes
      <4>2. q = p
        <5>1. q \in Way(p) \ {p} /\ q # Root => q \in Paths /\ target[q] = Dir
          BY <1>2, ListingLeadsOn, TypeFacts
        <5> QED
          BY <1>2, <3>5, <4>1, <5>1, NodesRead DEF TargetNode
      <4>3. TargetNode(q) = target[p]
        BY <1>2, <4>1, <4>2, NodesRead DEF TargetNode
      <4> QED
        BY <1>2, <3>5, <4>2, <4>3 DEF Returning
    <3> QED
      BY <3>1, <3>3, <3>4, <3>5
  <2>3. CASE ReadTargetDir
    <3>1. todo' = todo \cup Entries(target, at) /\ open' = open \cup {at}
      BY <2>3 DEF ReadTargetDir, Fail
    <3>2. CASE at \in Way(p) \ {p}
      BY <1>2, <3>1, <3>2, ListingLeadsOn DEF Returning
    <3>3. CASE at \notin Way(p) \ {p}
      BY <1>2, <2>3, <3>1, <3>3 DEF ReadTargetDir, Returning
    <3> QED
      BY <3>2, <3>3
  <2>4. ASSUME NEW q \in Paths \cup {Root}, KeepVisited(q)
        PROVE  Returning(p)'
    BY <1>2, <2>4 DEF KeepVisited, Returning
  <2>5. ASSUME NEW q \in Paths \cup {Root}, RemoveUnvisited(q)
        PROVE  Returning(p)'
    BY <1>2, <2>5 DEF RemoveUnvisited, Returning
  <2>6. CASE Removed
    <3>1. p # at
      BY <1>2, <2>6, CallSettles
    <3> QED
      BY <1>2, <2>6, <3>1 DEF Removed, Returning
  <2> QED
    BY <2>1, <2>2, <2>3, <2>4, <2>5, <2>6
<1> QED
  BY <1>1, <1>2, <1>3, <1>4 DEF Ahead

LEMMA ByAgent ==
    ASSUME LeafLinks, Inv, Agent
    PROVE  Inv'
<1>1. Types' /\ CallInv' /\ UNCHANGED <<source, changed>> /\ Types /\ CallInv
  BY TypesByAgent DEF Inv
<1> SUFFICES ASSUME NEW p \in Covered, ~Settled(p)', pc' \notin {"failed", "faulted"}
             PROVE  Ahead(p)'
  BY <1>1 DEF Inv
<1>2. ~Settled(p)
  <2>1. target'[p] = target[p]
    <3>1. CASE Reconcile \/ Removed
      BY <1>1, <3>1, CallSettles, CoveredFacts
    <3>2. ~ExecuteFails
      BY DEF ExecuteFails
    <3> QED
      BY <1>1, <3>1, <3>2, NoCall
  <2> QED
    BY <1>1, <2>1 DEF Settled, Gone, Lax, Raced
<1>3. CASE Skip("visit") \/ Visit \/ Execute \/ Reconcile \/ StatAgain \/ ReadDir
  BY <1>2, <1>3, BySourceWalk
<1>4. CASE WalkDone
  <2>1. /\ pc = "visit" /\ todo = {} /\ pc' = "look" /\ todo' = {Root}
        /\ UNCHANGED <<source, visited>>
    BY <1>4 DEF WalkDone
  <2>2. Ahead(p)
    BY <1>2, <2>1 DEF Inv
  <2> QED
    BY <2>1, <2>2 DEF Ahead, InSource, InTarget, Coming, Returning, Way
<1>5. CASE \/ Skip("look") \/ Look \/ ReadTargetDir \/ Removed
           \/ \E q \in Paths \cup {Root} : KeepVisited(q) \/ RemoveUnvisited(q)
  BY <1>2, <1>5, ByCleanup
<1>6. CASE CleanupDone
  <2>1. pc = "look" /\ todo = {} /\ open = {}
    BY <1>6 DEF CleanupDone
  <2>2. Ahead(p)
    BY <1>2, <2>1 DEF Inv
  <2> QED
    BY <2>1, <2>2 DEF Ahead, InTarget, Returning
<1>7. CASE CallFails \/ ExecuteFails
  BY <1>7 DEF CallFails, ExecuteFails
<1> QED
  BY <1>3, <1>4, <1>5, <1>6, <1>7 DEF Agent

LEMMA Invariance ==
    ASSUME LeafLinks
    PROVE  Spec => []Inv
<1>1. Init => Inv
  <2>1. Empty \in Tree /\ Absent \in Nodes /\ Absent # Link
    BY DistinctNodes DEF Empty, Tree, Nodes
  <2> QED
    BY <2>1 DEF Init, Inv, Types, TypeOK, CallInv, Calls, Steps, TargetTree, Ahead, Coming, Way,
                InSource, InTarget
<1>2. ASSUME Inv, UNCHANGED vars
      PROVE  Inv'
  <2>1. /\ UNCHANGED <<source, target, pc, at, todo, open, visited, changed>>
        /\ UNCHANGED <<want, have, view>>
    BY <1>2 DEF vars
  <2>2. Types' /\ (\A p \in Covered : Settled(p) => Settled(p)') /\ (\A p \in Covered : Ahead(p) => Ahead(p)')
    BY <1>2, <2>1 DEF Inv, Types, TypeOK, Settled, Gone, Lax, Raced, Ahead, Coming, Returning
  <2>3. CallInv'
    BY <1>2, <2>1 DEF Inv, CallInv, CallKnown, ViewKept, MadeKept, HaveKept, HaveFresh, Gone, Lax, Raced
  <2> QED
    BY <1>2, <2>1, <2>2, <2>3 DEF Inv
<1>3. Inv /\ [Next]_vars => Inv'
  BY <1>2, ByAgent, ByOthers DEF Next
<1> QED
  BY <1>1, <1>3, PTL DEF Spec

-----------------------------------------------------------------------------
(* What the walk achieves.                                                 *)

\* Both trees stay trees, and the target has no link, whatever is edited in between
\* (replaced and moved directories included) and whatever call fails.
THEOREM WalkTypes ==
    ASSUME LeafLinks
    PROVE  Spec => []TypeOK
<1>1. Inv => TypeOK
  BY DEF Inv, Types
<1> QED
  BY <1>1, Invariance, PTL

\* When the walk has succeeded, the trees agree but for what the events since the
\* start see to, whatever came, went or changed its kind between two looks at it or
\* between the calls of one Execute: where no path is below a link, no directory of
\* the source is replaced by another, and none of the target is moved out of it.
THEOREM WalkReconciles ==
    ASSUME LeafLinks, ~Swaps, ~TargetMoves
    PROVE  Spec => []Reconciled
<1>1. ASSUME Inv
      PROVE  Reconciled
  <2> SUFFICES ASSUME pc = "done", NEW p \in Differs(source, target)
               PROVE  SeenTo(source, changed, p)
    BY DEF Reconciled
  <2>1. p \in Covered /\ target[p] # Wanted(source, p)
    BY DEF Differs
  <2>2. Settled(p)
    BY <1>1, <2>1 DEF Inv, Ahead
  <2> QED
    BY <2>1, <2>2 DEF Settled, Gone, Lax, SeenTo
<1> QED
  BY <1>1, Invariance, PTL

\* The walk takes an entry away only if the source had none there when the Execute
\* that does it looked, or as an entry of the wrong kind: however long ago the source
\* was walked, whatever is edited since Execute looked, and in whatever call the walk
\* breaks off (unless somebody put another entry there since).
THEOREM RemovesOrphansOnly ==
    ASSUME LeafLinks
    PROVE  Spec => OnlyOrphansRemoved
<1> DEFINE Step ==
      walk' # walk /\ have = TargetNode(at) =>
          \A p \in Covered :
            target[p] # Absent /\ target'[p] = Absent =>
              \/ Wanted(view, p) = Absent
              \/ p = at /\ WrongKind(Wanted(view, p), have)
<1>1. ASSUME Inv, [Next]_vars
      PROVE  [Step]_target
  <2> SUFFICES ASSUME walk' # walk, have = TargetNode(at), NEW p \in Covered,
                      target[p] # Absent, target'[p] = Absent
               PROVE  \/ Wanted(view, p) = Absent
                      \/ p = at /\ WrongKind(Wanted(view, p), have)
    OBVIOUS
  <2>1. Agent /\ Types /\ CallInv /\ p \in Paths
    BY <1>1, CoveredFacts DEF Inv, Next, EditSource, DriftTarget, vars, walk
  <2>2. Reconcile \/ Removed \/ ExecuteFails
    BY <1>1, <2>1, NoCall
  <2>3. /\ at \in Paths /\ pc \in Calls /\ view \in Tree /\ target \in TargetTree /\ target \in Tree
        /\ Leaves(source, target, at, want, have, target', p)
        /\ want = StatSource(view, at)
    BY <2>1, <2>2, CallFacts, TypeFacts DEF CallInv, CallKnown
  <2>4. WrongKind(want, have) /\ at \in Lineage(p)
    BY <2>3, DistinctNodes DEF Leaves
  <2>5. want = Wanted(view, at) /\ want # NotDir /\ have # NotDir /\ (want # Dir \/ have # Dir)
    BY <2>3, <2>4, StatFacts DEF WrongKind
  <2>6. CASE at \in Above[p]
    <3>1. target[at] = Dir
      BY <2>1, <2>3, <2>6, TreeFacts
    <3>2. have = Dir
      BY <2>3, <2>5, <3>1, RootAssumption, LstatOfTarget DEF TargetNode
    <3> QED
      BY <2>1, <2>3, <2>5, <2>6, <3>2, WantedBelow
  <2> QED
    BY <2>4, <2>5, <2>6 DEF Lineage
<1> QED
  BY <1>1, Invariance, PTL DEF Spec, OnlyOrphansRemoved

-----------------------------------------------------------------------------
(* Why the walk fails.                                                     *)

\* The walk descends from what is not ignored only, and removes a directory last.
NotBelowIgnored ==
    /\ \A p \in (todo \cup open \cup {at}) \ {Root} : Above[p] \cap Ignored = {}
    /\ (open \cup {at}) \cap Ignored = {}
    /\ pc \in InSource => open = {}
    /\ pc = "remove" => Below(at) \cap (open \cup todo) = {}

\* What was listed is there, and so is in the target what is above it.
OnCourse(p) == source[p] # Absent /\ CanHold(target, p)

\* What Execute has read is what it would read now.
ReadNow == want = Wanted(source, at) /\ have = target[at]

OnCourseHere ==
    /\ pc = "execute" => OnCourse(at)
    /\ pc = "reconcile" => OnCourse(at) /\ ReadNow
    /\ pc = "remove" => /\ CanHold(target, at) /\ ReadNow
                        /\ \A a \in Above[at] : source[a] \notin Contents
    /\ pc = "stat"    => OnCourse(at) /\ target[at] = Wanted(source, at)
    /\ pc = "list"    => OnCourse(at) /\ target[at] = Dir /\ source[at] = Dir
    /\ pc = "listTarget" => target[at] = Dir

RaceInv ==
    /\ NotBelowIgnored
    /\ pc \in InSource => \A p \in todo \ {Root} : Raced(p) \/ OnCourse(p)
    /\ pc \in InTarget => \A p \in (todo \cup open) \ {Root} : Raced(p) \/ CanHold(target, p)
    /\ pc \in Steps /\ at # Root => Raced(at) \/ OnCourseHere
    /\ pc = "failed" => at # Root /\ Raced(at)

LEMMA LineageFacts ==
    ASSUME NEW p \in Paths
    PROVE  Lineage(p) \subseteq Paths /\ Root \notin Lineage(p) /\ p \notin Above[p]
BY PathsAssumption DEF Lineage

LEMMA ReadWhereHeld ==
    ASSUME Types, NEW p \in Paths
    PROVE  /\ CanHold(source, p) => /\ StatSource(source, p) = Wanted(source, p)
                                   /\ Wanted(source, p) # NotDir
           /\ CanHold(target, p) => Lstat(target, p) = target[p] /\ target[p] # NotDir
<1>1. source \in Tree /\ target \in TargetTree /\ target \in Tree
  BY TypeFacts
<1>2. CanHold(source, p) => StatSource(source, p) = Wanted(source, p)
  BY DEF CanHold, Wanted
<1>3. CanHold(target, p) => Lstat(target, p) = target[p]
  BY <1>1, LstatOfTarget, DistinctNodes DEF CanHold
<1> QED
  BY <1>1, <1>2, <1>3, WantedFacts, TreeFacts, DistinctNodes

\* The entries of a listing are below what was listed.
LEMMA ListingBelow ==
    ASSUME NEW t, NEW q \in Paths \cup {Root}, NEW c \in Entries(t, q)
    PROVE  /\ c \in Paths /\ c # Root /\ t[c] # Absent
           /\ q = Root => Above[c] = {}
           /\ q # Root => Above[c] = Lineage(q)
BY DEF Entries, Tops, Children

\* What is not raced is left alone by others.
LEMMA UnracedByOthers ==
    ASSUME Types, EditSource \/ DriftTarget, NEW p \in Paths, ~Raced(p)'
    PROVE  /\ ~Raced(p)
           /\ \A a \in Lineage(p) : /\ source'[a] = source[a] /\ target'[a] = target[a]
                                   /\ Wanted(source', a) = Wanted(source, a)
<1>1. ~Raced(p) /\ \A a \in Lineage(p) : a \in Paths /\ a \notin changed'
  BY OthersFacts, LineageFacts DEF Raced
<1>2. ASSUME NEW a \in Lineage(p), NEW b \in Above[a]
      PROVE  b \notin changed'
  BY <1>1, AboveFacts DEF Lineage, Raced
<1> QED
  BY <1>1, <1>2, OthersFacts

LEMMA RaceByOthers ==
    ASSUME Inv, RaceInv, EditSource \/ DriftTarget
    PROVE  RaceInv'
<1>1. Types /\ UNCHANGED <<pc, at, todo, open, visited, want, have>> /\ pc \in Steps
  BY OthersFacts, TypeFacts DEF Inv, walk, call
<1>2. ASSUME NEW p \in Paths, ~Raced(p)'
      PROVE  /\ ~Raced(p) /\ (OnCourse(p) => OnCourse(p)')
             /\ CanHold(target, p) => CanHold(target', p)
             /\ source'[p] = source[p] /\ target'[p] = target[p]
             /\ Wanted(source', p) = Wanted(source, p)
             /\ \A a \in Above[p] : source'[a] = source[a]
  BY <1>1, <1>2, UnracedByOthers DEF OnCourse, CanHold, Lineage
<1>3. \A p \in (todo \cup open \cup {at}) \ {Root} : p \in Paths
  BY <1>1, TypeFacts
<1>4. NotBelowIgnored'
  BY <1>1 DEF RaceInv, NotBelowIgnored
<1>5. pc \in InSource => \A p \in todo \ {Root} : Raced(p)' \/ OnCourse(p)'
  BY <1>2, <1>3 DEF RaceInv
<1>6. pc \in InTarget => \A p \in (todo \cup open) \ {Root} : Raced(p)' \/ CanHold(target', p)
  BY <1>2, <1>3 DEF RaceInv
<1>7. at # Root => Raced(at)' \/ OnCourseHere'
  BY <1>1, <1>2, <1>3 DEF RaceInv, OnCourseHere, ReadNow
<1>8. pc # "failed"
  BY <1>1 DEF Steps, Calls
<1> QED
  BY <1>1, <1>4, <1>5, <1>6, <1>7, <1>8 DEF RaceInv

\* A call that nobody raced with succeeds where the directories are.
LEMMA UnracedCall ==
    ASSUME LeafLinks, Types, at \in Paths, CanHold(target, at), ReadNow,
           \A a \in Above[at] : source[a] \notin Contents
    PROVE  Result.ok /\ Result.tree[at] = Wanted(source, at)
<1>1. source \in Tree /\ target \in TargetTree
  BY TypeFacts
<1>2. StatSource(source, at) = want /\ Lstat(target, at) = have
  BY <1>1, StatFacts, ReadWhereHeld DEF ReadNow
<1>3. Result = Apply(source, target, at, StatSource(source, at), Lstat(target, at))
  BY <1>2 DEF Result
<1>4. \A a \in Above[at] : target[a] = Dir /\ source[a] \notin Contents
  BY DEF CanHold
<1> QED
  BY <1>1, <1>3, <1>4, ApplySucceeds, ApplyAtOnce

LEMMA RaceBySourceWalk ==
    ASSUME LeafLinks, Inv, RaceInv,
           \/ Skip("visit") \/ Visit \/ Execute \/ Reconcile
           \/ StatAgain \/ ReadDir \/ WalkDone
    PROVE  RaceInv'
<1>1. /\ Types /\ pc \in InSource /\ open = {} /\ at \in Paths \cup {Root}
      /\ source \in Tree /\ target \in TargetTree /\ target \in Tree
      /\ todo \subseteq Paths \cup {Root}
      /\ changed' = changed /\ source' = source
  BY TypeFacts DEF Skip, Visit, Execute, Reconcile, StatAgain, ReadDir, WalkDone, InSource, RaceInv,
                   NotBelowIgnored, Inv
<1>2. CASE Skip("visit")
  BY <1>2 DEF Skip, RaceInv, NotBelowIgnored, InSource, InTarget, Raced, OnCourse, OnCourseHere
<1>3. CASE Visit
  <2>1. PICK p \in todo \ Ignored : at' = p /\ todo' = todo \ {p}
    BY <1>3 DEF Visit
  <2> QED
    BY <1>1, <1>3, <2>1 DEF Visit, RaceInv, NotBelowIgnored, InSource, InTarget, Raced, OnCourse,
                            OnCourseHere
<1>4. CASE Execute
  <2>1. /\ pc = "execute" /\ target' = target /\ at' = at /\ todo' = todo /\ open' = open
        /\ \/ at = Root /\ pc' = "stat"
           \/ at # Root /\ Stats(at) /\ pc' = "reconcile"
    BY <1>4 DEF Execute
  <2>2. CASE at = Root /\ pc' = "stat"
    BY <1>1, <2>1, <2>2 DEF RaceInv, NotBelowIgnored, InSource, InTarget, Raced, OnCourse
  <2>3. CASE at # Root /\ Stats(at) /\ pc' = "reconcile"
    <3>1. at \in Paths /\ (Raced(at) \/ OnCourse(at))
      BY <1>1, <2>1, <2>3 DEF RaceInv, OnCourseHere, Steps
    <3>2. OnCourse(at) => want' = Wanted(source, at) /\ have' = target[at]
      <4>1. OnCourse(at) => CanHold(source, at) /\ CanHold(target, at)
        BY <1>1, <3>1, TreeFacts DEF OnCourse, CanHold
      <4> QED
        BY <1>1, <2>3, <3>1, <4>1, ReadWhereHeld DEF Stats
    <3>3. OnCourse(at) => OnCourseHere'
      BY <1>1, <2>1, <2>3, <3>2 DEF OnCourseHere, OnCourse, ReadNow
    <3> QED
      BY <1>1, <2>1, <2>3, <3>1, <3>3 DEF RaceInv, NotBelowIgnored, InSource, InTarget, Raced, OnCourse
  <2> QED
    BY <2>1, <2>2, <2>3
<1>5. CASE Reconcile
  <2>1. /\ pc = "reconcile" /\ target' = Result.tree /\ at' = at /\ todo' = todo /\ open' = open
        /\ pc' = IF Result.ok THEN "stat" ELSE "failed"
        /\ at \in Paths /\ at # Root
        /\ \A q \in Paths : Leaves(source, target, at, want, have, target', q)
    <3>1. at \in Paths /\ \A q \in Paths : Leaves(source, target, at, want, have, target', q)
      BY <1>1, <1>5, CallFacts
    <3> QED
      BY <1>1, <1>5, <3>1 DEF Reconcile, Fail
  <2>2. Raced(at) \/ (OnCourse(at) /\ ReadNow)
    BY <1>1, <2>1 DEF RaceInv, OnCourseHere, Steps, Calls
  <2>3. Raced(at) \/ (OnCourse(at) /\ ReadNow /\ Result.ok /\ target'[at] = Wanted(source, at))
    <3>1. OnCourse(at) => CanHold(target, at) /\ \A a \in Above[at] : source[a] \notin Contents
      BY <1>1, <2>1, TreeFacts, DistinctNodes DEF OnCourse
    <3> QED
      BY <1>1, <2>1, <2>2, <3>1, UnracedCall
\* A path that is on course is below directories of both trees, which are kept.
  <2>4. ASSUME NEW p \in Paths, OnCourse(p), ~Raced(p)
        PROVE  OnCourse(p)'
    <3> SUFFICES ASSUME NEW a \in Above[p]
                 PROVE  target'[a] = Dir
      BY <1>1, <2>4 DEF OnCourse, CanHold
    <3>1. a \in Paths /\ target[a] = Dir /\ source[a] = Dir /\ Lineage(a) \subseteq Above[p]
      BY <1>1, <2>4, TreeFacts, AboveFacts DEF OnCourse, CanHold, Lineage
    <3>2. CASE at \in Lineage(a)
      <4>1. source[at] = Dir /\ target[at] = Dir /\ Lineage(at) \subseteq Lineage(p)
        BY <1>1, <2>1, <2>4, <3>1, <3>2, TreeFacts, AboveFacts DEF OnCourse, CanHold
      <4>2. ReadNow
        BY <2>2, <2>4, <4>1 DEF Raced
      <4>3. want = Dir /\ have = Dir
        BY <1>1, <2>1, <4>1, <4>2, WantedAbove DEF ReadNow
      <4> QED
        BY <2>1, <3>1, <4>3, DistinctNodes DEF Leaves, WrongKind
    <3>3. CASE at \notin Lineage(a)
      BY <2>1, <3>1, <3>3 DEF Leaves, Lineage
    <3> QED
      BY <3>2, <3>3
  <2>5. \A p \in todo \ {Root} : Raced(p) \/ OnCourse(p)'
    BY <1>1, <2>4 DEF RaceInv
  <2>6. CASE Result.ok /\ pc' = "stat"
    <3>1. Raced(at) \/ (OnCourse(at)' /\ target'[at] = Wanted(source, at))
      <4>1. OnCourse(at) /\ ~Raced(at) => CanHold(target', at)
        BY <2>1, <2>4 DEF OnCourse
      <4> QED
        BY <1>1, <2>1, <2>3, <4>1 DEF OnCourse
    <3> QED
      BY <1>1, <2>1, <2>5, <2>6, <3>1
         DEF RaceInv, NotBelowIgnored, InSource, InTarget, Raced, OnCourseHere
  <2>7. CASE ~Result.ok /\ pc' = "failed"
    <3>1. Raced(at)
      BY <2>3, <2>7
    <3> QED
      BY <1>1, <2>1, <2>7, <3>1 DEF RaceInv, NotBelowIgnored, InSource, InTarget, Raced, Steps, Calls
  <2> QED
    BY <2>1, <2>6, <2>7
<1>6. CASE StatAgain
  <2>1. /\ pc = "stat" /\ UNCHANGED <<target, at, todo, open>>
        /\ \/ SourceNode(at) = NotDir /\ pc' = "failed"
           \/ SourceNode(at) = Dir /\ pc' = "list"
           \/ pc' = "visit"
    BY <1>6 DEF StatAgain, Fail
  <2>2. ASSUME at # Root, ~Raced(at)
        PROVE  /\ OnCourse(at) /\ target[at] = Wanted(source, at)
               /\ SourceNode(at) = Wanted(source, at) /\ Wanted(source, at) # NotDir
               /\ Wanted(source, at) = Dir => source[at] = Dir
    <3>1. at \in Paths /\ OnCourse(at) /\ target[at] = Wanted(source, at)
      BY <1>1, <2>1, <2>2 DEF RaceInv, OnCourseHere, Steps
    <3>2. CanHold(source, at)
      BY <1>1, <3>1, TreeFacts DEF OnCourse, CanHold
    <3> QED
      BY <1>1, <2>2, <3>1, <3>2, ReadWhereHeld, WantedAbove DEF SourceNode
  <2>3. at = Root => SourceNode(at) # NotDir
    BY DistinctNodes DEF SourceNode
  <2> QED
    BY <1>1, <2>1, <2>2, <2>3
       DEF RaceInv, NotBelowIgnored, InSource, InTarget, Raced, OnCourse, OnCourseHere, Steps
<1>7. CASE ReadDir
  <2>1. /\ pc = "list" /\ UNCHANGED <<target, at, open>>
        /\ \/ SourceNode(at) = Dir /\ pc' = "visit" /\ todo' = todo \cup Entries(source, at)
           \/ SourceNode(at) # Dir /\ pc' = "failed" /\ todo' = todo
    BY <1>7 DEF ReadDir, Fail
  <2>2. at # Root /\ ~Raced(at) => OnCourse(at) /\ source[at] = Dir /\ target[at] = Dir
    BY <2>1 DEF RaceInv, OnCourseHere, Steps
  <2>3. CASE pc' = "failed" /\ SourceNode(at) # Dir
    <3>1. at # Root /\ at \in Paths
      BY <1>1, <2>3 DEF SourceNode
    <3>2. source[at] = Dir => SourceNode(at) = Dir
      BY <1>1, <3>1, TreeFacts, WantedAbove, ReadWhereHeld, DistinctNodes DEF SourceNode, CanHold
    <3> QED
      BY <1>1, <2>1, <2>2, <2>3, <3>1, <3>2
         DEF RaceInv, NotBelowIgnored, InSource, InTarget, Raced, Steps
  <2>4. CASE pc' = "visit" /\ todo' = todo \cup Entries(source, at)
    <3>1. ASSUME NEW c \in Entries(source, at)
          PROVE  /\ c # Root /\ Above[c] \cap Ignored = {}
                 /\ Raced(c) \/ OnCourse(c)
      <4>1. CASE at = Root
        BY <1>1, <4>1, ListingBelow DEF OnCourse, CanHold
      <4>2. CASE at # Root
        <5>1. c \in Paths /\ c # Root /\ source[c] # Absent /\ Above[c] = Lineage(at)
          BY <1>1, <4>2, ListingBelow
        <5>2. Raced(at) => Raced(c)
          BY <5>1 DEF Raced, Lineage
        <5>3. ~Raced(at) => OnCourse(c)
          BY <2>2, <4>2, <5>1 DEF OnCourse, CanHold, Lineage
        <5>4. Above[c] \cap Ignored = {}
          BY <4>2, <5>1 DEF RaceInv, NotBelowIgnored, Lineage
        <5> QED
          BY <5>1, <5>2, <5>3, <5>4
      <4> QED
        BY <4>1, <4>2
    <3>2. \A p : (OnCourse(p)' <=> OnCourse(p)) /\ (Raced(p)' <=> Raced(p))
      BY <1>1, <2>1 DEF OnCourse, Raced
    <3> QED
      BY <1>1, <2>1, <2>4, <3>1, <3>2
         DEF RaceInv, NotBelowIgnored, InSource, InTarget, OnCourseHere, Steps
  <2> QED
    BY <2>1, <2>3, <2>4
<1>8. CASE WalkDone
  BY <1>1, <1>8 DEF WalkDone, RaceInv, NotBelowIgnored, InSource, InTarget, OnCourseHere
<1> QED
  BY <1>2, <1>3, <1>4, <1>5, <1>6, <1>7, <1>8

LEMMA RaceByCleanup ==
    ASSUME LeafLinks, Inv, RaceInv,
           \/ Skip("look") \/ Look \/ ReadTargetDir \/ Removed \/ CleanupDone
           \/ \E q \in Paths \cup {Root} : KeepVisited(q) \/ RemoveUnvisited(q)
    PROVE  RaceInv'
<1>1. /\ Types /\ pc \in InTarget /\ at \in Paths \cup {Root}
      /\ source \in Tree /\ target \in TargetTree /\ target \in Tree
      /\ todo \subseteq Paths \cup {Root} /\ open \subseteq Paths \cup {Root}
      /\ changed' = changed /\ source' = source
  BY TypeFacts DEF Skip, Look, ReadTargetDir, CleanupDone, KeepVisited, RemoveUnvisited, Removed,
                   InTarget, Inv
<1>2. CASE Skip("look")
  BY <1>2 DEF Skip, RaceInv, NotBelowIgnored, InSource, InTarget, Raced, OnCourseHere
<1>3. CASE Look
  <2>1. /\ pc = "look" /\ target' = target
        /\ at' \in todo \ Ignored
        /\ \/ /\ TargetNode(at') = NotDir /\ pc' = "failed"
              /\ todo' = todo /\ open' = open
           \/ /\ TargetNode(at') = Dir /\ pc' = "listTarget"
              /\ todo' = todo \ {at'} /\ open' = open
           \/ /\ pc' = "look"
              /\ todo' = todo \ {at'} /\ open' \subseteq open \cup {at'}
    BY <1>3 DEF Look
  <2>2. /\ at' = Root => TargetNode(at') # NotDir
        /\ at' # Root /\ ~Raced(at') =>
             CanHold(target, at') /\ TargetNode(at') = target[at'] /\ target[at'] # NotDir
    <3>1. ASSUME at' # Root, ~Raced(at')
          PROVE  CanHold(target, at') /\ TargetNode(at') = target[at'] /\ target[at'] # NotDir
      <4>1. at' \in Paths /\ CanHold(target, at')
        BY <1>1, <2>1, <3>1 DEF RaceInv
      <4> QED
        BY <1>1, <3>1, <4>1, ReadWhereHeld DEF TargetNode
    <3> QED
      BY <3>1, DistinctNodes DEF TargetNode
  <2>3. NotBelowIgnored'
    BY <1>1, <2>1 DEF RaceInv, NotBelowIgnored, InSource
  <2>4. CASE pc' = "failed" /\ TargetNode(at') = NotDir
    BY <1>1, <2>1, <2>2, <2>3, <2>4 DEF RaceInv, InSource, InTarget, Raced, Steps
  <2>5. CASE pc' = "listTarget" /\ TargetNode(at') = Dir /\ todo' = todo \ {at'} /\ open' = open
    BY <1>1, <2>1, <2>2, <2>3, <2>5 DEF RaceInv, InSource, InTarget, Raced, OnCourseHere
  <2>6. CASE pc' = "look" /\ todo' = todo \ {at'} /\ open' \subseteq open \cup {at'}
    BY <1>1, <2>1, <2>3, <2>6 DEF RaceInv, InSource, InTarget, Raced, OnCourseHere
  <2> QED
    BY <2>1, <2>4, <2>5, <2>6
<1>4. CASE ReadTargetDir
  <2>1. /\ pc = "listTarget" /\ UNCHANGED <<target, at>>
        /\ \/ /\ TargetNode(at) = Dir /\ pc' = "look"
              /\ todo' = todo \cup Entries(target, at) /\ open' = open \cup {at}
           \/ /\ TargetNode(at) # Dir /\ pc' = "failed"
              /\ todo' = todo /\ open' = open
    BY <1>4 DEF ReadTargetDir, Fail
  <2>2. at # Root /\ ~Raced(at) => target[at] = Dir /\ CanHold(target, at)
    BY <1>1, <2>1, TreeFacts, DistinctNodes DEF RaceInv, OnCourseHere, Steps, CanHold
  <2>3. CASE pc' = "failed" /\ TargetNode(at) # Dir /\ todo' = todo /\ open' = open
    <3>1. at # Root /\ at \in Paths
      BY <1>1, <2>3 DEF TargetNode
    <3>2. Raced(at)
      BY <1>1, <2>2, <2>3, <3>1, ReadWhereHeld DEF TargetNode
    <3> QED
      BY <1>1, <2>1, <2>3, <3>1, <3>2
         DEF RaceInv, NotBelowIgnored, InSource, InTarget, Raced, Steps
  <2>4. CASE pc' = "look" /\ todo' = todo \cup Entries(target, at) /\ open' = open \cup {at}
    <3>1. ASSUME NEW c \in Entries(target, at)
          PROVE  /\ c # Root /\ Above[c] \cap Ignored = {}
                 /\ Raced(c) \/ CanHold(target, c)
      <4>1. CASE at = Root
        BY <1>1, <4>1, ListingBelow DEF CanHold
      <4>2. CASE at # Root
        <5>1. c \in Paths /\ c # Root /\ Above[c] = Lineage(at)
          BY <1>1, <4>2, ListingBelow
        <5>2. Raced(at) => Raced(c)
          BY <5>1 DEF Raced, Lineage
        <5>3. ~Raced(at) => CanHold(target, c)
          BY <2>2, <4>2, <5>1 DEF CanHold, Lineage
        <5>4. Above[c] \cap Ignored = {}
          BY <4>2, <5>1 DEF RaceInv, NotBelowIgnored, Lineage
        <5> QED
          BY <5>1, <5>2, <5>3, <5>4
      <4> QED
        BY <4>1, <4>2
    <3>2. at # Root => Raced(at) \/ CanHold(target, at)
      BY <2>2
    <3>3. NotBelowIgnored'
      BY <1>1, <2>1, <2>4, <3>1 DEF RaceInv, NotBelowIgnored, InSource
    <3> QED
      BY <1>1, <2>1, <2>4, <3>1, <3>2, <3>3 DEF RaceInv, InSource, InTarget, Raced, OnCourseHere
  <2> QED
    BY <2>1, <2>3, <2>4
<1>5. ASSUME NEW q \in Paths \cup {Root}, KeepVisited(q)
      PROVE  RaceInv'
  BY <1>1, <1>5 DEF KeepVisited, RaceInv, NotBelowIgnored, InSource, InTarget, Raced, OnCourseHere
<1>6. ASSUME NEW q \in Paths \cup {Root}, RemoveUnvisited(q)
      PROVE  RaceInv'
  <2>1. /\ pc = "look" /\ q \in open /\ q \in Paths /\ q # Root /\ at' = q
        /\ Below(q) \cap (open \cup todo) = {}
        /\ target' = target /\ todo' = todo /\ open' = open \ {q}
        /\ pc' = "remove" /\ Stats(q)
    BY <1>6 DEF RemoveUnvisited, Finished
  <2>2. NotBelowIgnored'
    BY <1>1, <2>1 DEF RaceInv, NotBelowIgnored, InSource
  <2>3. ASSUME ~Raced(q)
        PROVE  /\ CanHold(target, q) /\ \A a \in Above[q] : source[a] \notin Contents
               /\ want' = Wanted(source, q) /\ have' = target[q]
    <3>1. CanHold(target, q) /\ Above[q] \cap changed = {}
      BY <1>1, <2>1, <2>3 DEF RaceInv, Raced, Lineage
    <3>2. \A a \in Above[q] : /\ a \in Paths /\ target[a] = Dir /\ a \in Covered
                             /\ a \notin changed /\ ~Raced(a)
      <4>1. Above[q] \cap Ignored = {}
        BY <2>1 DEF RaceInv, NotBelowIgnored
      <4> QED
        BY <2>1, <2>3, <3>1, <4>1, AboveFacts DEF CanHold, Covered, Lineage, Raced
    <3>3. \A a \in Above[q] : Settled(a) \/ Wanted(source, a) = Absent
      BY <2>1, <3>2 DEF Inv, Ahead, InTarget
    <3>4. \A a \in Above[q] : source[a] \notin Contents
      BY <1>1, <3>2, <3>3, WantedFacts, DistinctNodes DEF Settled, Gone
    <3> QED
      BY <1>1, <2>1, <3>1, <3>4, StatFacts, ReadWhereHeld DEF Stats
  <2>4. Raced(q) \/ OnCourseHere'
    BY <1>1, <2>1, <2>3 DEF OnCourseHere, ReadNow, CanHold
  <2> QED
    BY <1>1, <2>1, <2>2, <2>4 DEF RaceInv, InSource, InTarget, Raced
<1>7. CASE Removed
  <2>1. /\ pc = "remove" /\ target' = Result.tree /\ at' = at /\ todo' = todo /\ open' = open
        /\ pc' = IF Result.ok THEN "look" ELSE "failed"
        /\ at \in Paths /\ at # Root
        /\ \A q \in Paths : Leaves(source, target, at, want, have, target', q)
    BY <1>1, <1>7, CallFacts DEF Removed
  <2>2. NotBelowIgnored'
    BY <1>1, <2>1 DEF RaceInv, NotBelowIgnored, InSource
  <2>3. CASE Result.ok
    <3>1. ASSUME NEW p \in (todo \cup open) \ {Root}, CanHold(target, p)
          PROVE  CanHold(target', p)
      <4>1. p \in Paths /\ \A a \in Above[p] : a \in Paths /\ target[a] = Dir
        BY <1>1, <3>1, TypeFacts, AboveFacts DEF CanHold
      <4>2. at \notin Above[p]
        BY <2>1, <3>1, <4>1 DEF Below, RaceInv, NotBelowIgnored
      <4>3. \A a \in Above[p] : at \notin Lineage(a)
        BY <4>1, <4>2, AboveFacts DEF Lineage
      <4>4. \A a \in Above[p] : target'[a] = Dir
        BY <2>1, <4>1, <4>3 DEF Leaves, Lineage
      <4> QED
        BY <4>4 DEF CanHold
    <3> QED
      BY <1>1, <2>1, <2>2, <2>3, <3>1 DEF RaceInv, InSource, InTarget, Raced, OnCourseHere
  <2>4. CASE ~Result.ok
    <3>1. Raced(at)
      <4>1. Raced(at) \/ OnCourseHere
        BY <2>1 DEF RaceInv, Steps, Calls
      <4> QED
        BY <1>1, <2>1, <2>4, <4>1, UnracedCall DEF OnCourseHere
    <3> QED
      BY <1>1, <2>1, <2>2, <2>4, <3>1 DEF RaceInv, InSource, InTarget, Raced, Steps, Calls
  <2> QED
    BY <2>3, <2>4
<1>8. CASE CleanupDone
  BY <1>1, <1>8 DEF CleanupDone, RaceInv, NotBelowIgnored, InSource, InTarget, Steps, Calls
<1> QED
  BY <1>2, <1>3, <1>4, <1>5, <1>6, <1>7, <1>8

\* The walk fails only for a change that has met it, of the path it is at or of a
\* directory above: what one of its looks or writes did never stops a later one.
THEOREM FailsForChangesOnly ==
    ASSUME LeafLinks
    PROVE  Spec => []FailsOnlyRaced
<1>1. Init => RaceInv
  BY PathsAssumption
     DEF Init, RaceInv, NotBelowIgnored, InSource, InTarget, OnCourseHere
<1>2. ASSUME Inv, RaceInv, [Next]_vars
      PROVE  RaceInv'
  <2>1. CASE CallFails
    BY <1>2, <2>1 DEF CallFails, RaceInv, NotBelowIgnored, InSource, InTarget, Steps, Calls
  <2>2. CASE ExecuteFails
    BY <1>2, <2>2 DEF ExecuteFails, RaceInv, NotBelowIgnored, InSource, InTarget, Steps, Calls
  <2>3. CASE UNCHANGED vars
    BY <1>2, <2>3 DEF vars, RaceInv, NotBelowIgnored, Raced, OnCourse, OnCourseHere, ReadNow, CanHold
  <2> QED
    BY <1>2, <2>1, <2>2, <2>3, RaceByOthers, RaceBySourceWalk, RaceByCleanup DEF Next, Agent
<1>3. RaceInv => FailsOnlyRaced
  BY DEF RaceInv, FailsOnlyRaced, Raced
<1>4. Inv /\ RaceInv /\ [Next]_vars => RaceInv'
  BY <1>2
<1> QED
  BY <1>1, <1>3, <1>4, Invariance, PTL DEF Spec

\* A walk that nobody disturbs makes the target the mirror of any source, whatever the
\* target held before: unless a call fails, it succeeds, and leaves no difference.
THEOREM UndisturbedWalkMirrors ==
    ASSUME LeafLinks
    PROVE  Spec => [](changed = {} => /\ pc # "failed"
                                      /\ pc = "done" => Differs(source, target) = {})
<1>1. Inv /\ FailsOnlyRaced =>
        (changed = {} => pc # "failed" /\ (pc = "done" => Differs(source, target) = {}))
  BY DEF Inv, Ahead, Settled, Gone, Raced, FailsOnlyRaced, Differs
<1> QED
  BY <1>1, Invariance, FailsForChangesOnly, PTL
=============================================================================
