--------------------------- MODULE Reflector_proofs ---------------------------
(***************************************************************************)
(* The safety of the agent on two trees of any shape and depth.  What the  *)
(* agent does to the target goes by what is wanted there where no path is  *)
(* below a link (LeafLinks).  That no difference is forgotten needs too    *)
(* what module Reflector names as the limits of the environment: ~Swaps    *)
(* and ~TargetMoves.                                                       *)
(***************************************************************************)
EXTENDS Reflector, Trees_proofs

USE EnvironmentAssumption

-----------------------------------------------------------------------------
(* The inductive invariant.                                                *)

\* A link is followed by the one Stat, and the target has none.
Types == TypeOK /\ want # Link /\ have # Link

\* Execute is for paths that are not ignored, and goes by what the source held
\* when it began.
CallKnown == at # Idle => at \notin Ignored /\ want = StatSource(view, at)

\* What Execute has read of its path is still so, unless the path is due again or
\* is a leftover of a directory above it that is due and went away.
Fresh ==
    at # Idle /\ at \notin pending =>
      \/ want \in {Wanted(source, at), NotDir} /\ have \in {target[at], NotDir}
      \/ /\ Wanted(source, at) = Absent
         /\ \/ target[at] = Absent
            \/ \E a \in Above[at] \cap pending : Wanted(source, a) # Dir

\* NoLostWork, path by path.
Seen ==
    \A p \in Covered :
      Wanted(source, p) # target[p] =>
        \/ p \in Due
        \/ Wanted(source, p) = Absent /\ \E a \in Above[p] \cap Due : Wanted(source, a) # Dir

Inv    == Types /\ CallKnown
DueInv == Inv /\ Fresh /\ Seen

-----------------------------------------------------------------------------
(* What the steps do.                                                      *)

\* What Reconcile and CallFails leave of each path.
Left(t, q) == Leaves(source, target, at, want, have, t, q)

LEMMA FinishFacts ==
    ASSUME Types, at # Idle, Reconcile \/ CallFails
    PROVE  /\ source' = source /\ target' \in TargetTree
           /\ at' = Idle /\ want' = Absent /\ have' = Absent /\ view' = Empty
           /\ pending' \subseteq Paths /\ pending \subseteq pending'
           /\ \A q \in Paths : target'[q] # target[q] => q \in pending'
           /\ \A q \in Paths : Left(target', q)
           /\ \/ at \in pending'
              \/ Reconcile /\ LET r == Apply(source, target, at, want, have)
                              IN  target' = r.tree /\ r.ok
<1> DEFINE r == Apply(source, target, at, want, have)
<1>1. /\ at \in Paths /\ target \in TargetTree /\ target \in Tree /\ source \in Tree
      /\ want \in (Nodes \ {Link}) \cup {NotDir} /\ have \in (Nodes \ {Link}) \cup {NotDir}
  BY DEF Types, TypeOK, TargetTree
<1>2. CASE Reconcile
  <2>1. Finish(r)
    BY <1>2 DEF Reconcile
  <2>2. r.tree \in TargetTree /\ \A q \in Paths : Left(r.tree, q)
    BY <1>1, ApplyLeaves DEF Left
  <2> QED
    BY <1>1, <1>2, <2>1, <2>2 DEF Finish, Return, Types, TypeOK
<1>3. CASE CallFails
  <2>1. PICK t \in Interrupted(target, at, want, have) : Finish(Outcome(t, FALSE))
    BY <1>3 DEF CallFails
  <2>2. t \in TargetTree /\ \A q \in Paths : Left(t, q)
    BY <1>1, InterruptedLeaves DEF Left
  <2> QED
    BY <1>1, <2>1, <2>2 DEF Finish, Return, Outcome, Types, TypeOK
<1> QED
  BY <1>2, <1>3

\* What is wanted at a path changes with an event of its own, or goes with a directory,
\* or is behind a link of which the poller tells.
LEMMA EditSourceFacts ==
    ASSUME Types, EditSource
    PROVE  /\ source' \in Tree /\ UNCHANGED <<target, call>>
           /\ pending' \subseteq Paths /\ pending \subseteq pending'
           /\ \A p \in Paths :
                \/ Wanted(source', p) = Wanted(source, p)
                \/ p \in pending'
                \/ /\ Wanted(source', p) = Absent
                   /\ \E a \in Above[p] \cap pending' : Wanted(source', a) # Dir
           /\ Swaps \/ ~Swap(source, source', target, Due, pending)
<1>1. PICK step \in Edits(source) \cup MoveOuts(source) :
             /\ Swaps \/ ~Swap(source, step[1], target, Due, pending)
             /\ source' = step[1]
             /\ pending' = pending \cup step[2] \cup Linked(step[1], step[2])
  BY DEF EditSource
<1>2. source \in Tree /\ pending \subseteq Paths /\ UNCHANGED <<target, call>>
  BY DEF EditSource, Types, TypeOK
<1> QED
  BY <1>1, <1>2, SourceEdits

LEMMA DriftTargetFacts ==
    ASSUME Types, DriftTarget
    PROVE  /\ target' \in TargetTree /\ UNCHANGED <<source, call>>
           /\ pending' \subseteq Paths /\ pending \subseteq pending'
           /\ \A p \in Paths : target'[p] # target[p] => p \in pending' \/ TargetMoves
<1>1. PICK step \in Edits(target) \cup (IF TargetMoves THEN MoveOuts(target) ELSE {}) :
             /\ \A p \in step[2] : step[1][p] # Link
             /\ target' = step[1] /\ pending' = pending \cup step[2]
  BY DEF DriftTarget
<1>2. target \in Tree /\ pending \subseteq Paths /\ \A p \in Paths : target[p] # Link
  BY DEF Types, TypeOK, TargetTree
<1>3. CASE step \in Edits(target)
  <2>1. /\ target' \in Tree /\ step[2] \subseteq Paths
        /\ \A p \in Paths : target'[p] # target[p] => p \in step[2]
    BY <1>1, <1>2, <1>3, EditsFacts
  <2> QED
    BY <1>1, <1>2, <2>1 DEF DriftTarget, TargetTree
<1>4. CASE TargetMoves /\ step \in MoveOuts(target)
  <2>1. PICK b \in Paths : /\ step[1] = RemoveAll(target, b) /\ step[2] = {b}
                           /\ step[1] \in Tree
    BY <1>2, <1>4, MoveOutsFacts
  <2>2. \A q \in Paths : target'[q] # Link
    BY <1>1, <1>2, <2>1, RemoveAllKeepsTree, DistinctNodes
  <2> QED
    BY <1>1, <1>2, <1>4, <2>1, <2>2 DEF DriftTarget, TargetTree
<1> QED
  BY <1>1, <1>3, <1>4

LEMMA ExecuteFacts ==
    ASSUME Types, NEW p \in Paths, Execute(p)
    PROVE  /\ at = Idle /\ p \in pending /\ p \notin Ignored
           /\ pending' = pending \ {p} /\ at' = p /\ at' # Idle /\ view' = source
           /\ UNCHANGED <<source, target>>
           /\ want' = StatSource(source, p) /\ have' = Lstat(target, p)
           /\ have' \in {target[p], NotDir}
           /\ want' \in (Nodes \cup {NotDir}) \ {Link}
           /\ have' \in (Nodes \cup {NotDir}) \ {Link}
BY LstatFacts, LstatOfTarget, DistinctNodes DEF Execute, Types, TypeOK

-----------------------------------------------------------------------------
(* The types, and what Execute has read.                                   *)

LEMMA NothingRead == Empty \in Tree /\ Absent \in (Nodes \cup {NotDir}) \ {Link}
BY DistinctNodes DEF Empty, Tree, Nodes

LEMMA InvInit ==
    ASSUME Init
    PROVE  Inv
BY NothingRead, TreeFacts DEF Init, Inv, Types, TypeOK, CallKnown, Walked, Covered, TargetTree

LEMMA InvStep ==
    ASSUME Inv, [Next]_vars
    PROVE  Inv'
<1> USE DEF Inv
<1>1. Types
  OBVIOUS
<1>2. CASE UNCHANGED vars
  BY <1>2 DEF vars, call, Types, TypeOK, CallKnown
<1>3. CASE Reconcile \/ CallFails
  <2>1. at # Idle
    BY <1>3 DEF Reconcile, CallFails
  <2>2. Types'
    BY <1>1, <1>3, <2>1, FinishFacts, NothingRead DEF Types, TypeOK
  <2> QED
    BY <1>1, <1>3, <2>1, <2>2, FinishFacts DEF CallKnown
<1>4. ASSUME NEW p \in Paths, Execute(p)
      PROVE  Inv'
  BY <1>1, <1>4, ExecuteFacts DEF Types, TypeOK, CallKnown
<1>5. ASSUME NEW p \in Paths, ExecuteIgnored(p)
      PROVE  Inv'
  BY <1>5 DEF ExecuteIgnored, call, Types, TypeOK, CallKnown
<1>6. CASE EditSource
  BY <1>1, <1>6, EditSourceFacts DEF call, Types, TypeOK, CallKnown
<1>7. CASE DriftTarget
  BY <1>1, <1>7, DriftTargetFacts DEF call, Types, TypeOK, CallKnown
<1>8. CASE Restart
  BY <1>8, NothingRead DEF Restart, Return, Walked, Covered, Types, TypeOK, CallKnown
<1>9. ASSUME NEW p \in Paths, Repeat(p)
      PROVE  Inv'
  BY <1>9 DEF Repeat, call, Types, TypeOK, CallKnown
<1> QED
  BY <1>2, <1>3, <1>4, <1>5, <1>6, <1>7, <1>8, <1>9 DEF Next, Agent, Environment

LEMMA Invariance == Spec => []Inv
<1>1. Init => Inv
  BY InvInit
<1>2. Inv /\ [Next]_vars => Inv'
  BY InvStep
<1> QED
  BY <1>1, <1>2, PTL DEF Spec

\* Whatever is called, edited or killed in between, both trees stay trees: no
\* entry without the directories above it, and no link in the target.
THEOREM TypeCorrect == Spec => []TypeOK
<1>1. Inv => TypeOK
  BY DEF Inv, Types
<1> QED
  BY <1>1, Invariance, PTL

-----------------------------------------------------------------------------
(* What the agent may do to the target.                                    *)

\* The steps in which Execute ends.
LEMMA CallEnds ==
    ASSUME Inv, [Next]_vars, at # Idle, at' = Idle, target' # target
    PROVE  Reconcile \/ CallFails
<1>1. ASSUME NEW p \in Paths, Execute(p) \/ ExecuteIgnored(p)
      PROVE  FALSE
  BY <1>1 DEF Execute, ExecuteIgnored
<1>2. ~ UNCHANGED vars
  BY DEF vars
<1>3. ~ EditSource /\ ~ Restart
  BY DEF EditSource, Restart
<1>4. ~ DriftTarget /\ \A p \in Paths : ~ Repeat(p)
  BY DEF DriftTarget, Repeat, call
<1> QED
  BY <1>1, <1>2, <1>3, <1>4 DEF Next, Agent, Environment

\* A read that did not fail is what was wanted.
LEMMA WantIsView ==
    ASSUME LeafLinks, Inv, at # Idle, want # NotDir
    PROVE  /\ at \in Paths /\ at \notin Ignored /\ view \in Tree /\ source \in Tree
           /\ want = Wanted(view, at)
BY StatFacts DEF Inv, Types, TypeOK, CallKnown

\* For the path or for others, what Execute writes or removes is what the source
\* asked for when it began or now, or an entry of the wrong kind to be replaced.
THEOREM Repairs ==
    ASSUME LeafLinks
    PROVE  Spec => OnlyRepairs
<1> DEFINE Step ==
      at # Idle /\ at' = Idle /\ have = Lstat(target, at) =>
          \A p \in Covered :
            target'[p] # target[p] =>
              \/ target'[p] \in {Wanted(view, p), Wanted(source, p)}
              \/ target'[p] = Absent /\ p = at /\ WrongKind(Wanted(view, p), have)
<1>1. ASSUME Inv, [Next]_vars
      PROVE  [Step]_<<target, at>>
  <2> SUFFICES ASSUME at # Idle, at' = Idle, have = Lstat(target, at),
                      NEW p \in Covered, target'[p] # target[p]
               PROVE  \/ target'[p] \in {Wanted(view, p), Wanted(source, p)}
                      \/ target'[p] = Absent /\ p = at /\ WrongKind(Wanted(view, p), have)
    OBVIOUS
  <2>1. Types /\ at \in Paths /\ p \in Paths /\ target \in Tree /\ target \in TargetTree
    BY <1>1 DEF Inv, Types, TypeOK, TargetTree, Covered
  <2>2. Reconcile \/ CallFails
    BY <1>1, CallEnds
  <2>3. Left(target', p)
    BY <2>1, <2>2, FinishFacts
  <2>4. CASE WrongKind(want, have) /\ at \in Lineage(p) /\ target'[p] = Absent
    <3>1. want # NotDir /\ have # NotDir /\ (want # Dir \/ have # Dir)
      BY <2>4 DEF WrongKind
    <3>2. CASE p = at
      BY <1>1, <2>4, <3>1, <3>2, WantIsView
    <3>3. CASE at \in Above[p]
      <4>1. target[at] = Dir
        BY <2>1, <2>4, <3>3, TreeFacts
      <4>2. have = Dir
        BY <2>1, <3>1, <4>1, LstatOfTarget
      <4>3. view \in Tree /\ Wanted(view, at) # Dir
        BY <1>1, <3>1, <4>2, WantIsView
      <4>4. Wanted(view, p) = Absent
        BY <2>1, <3>3, <4>3, WantedBelow
      <4> QED
        BY <2>4, <4>4
    <3> QED
      BY <2>4, <3>2, <3>3 DEF Lineage
  <2>5. CASE want = Dir /\ p \in Lineage(at) /\ target'[p] = Dir
    <3>1. Wanted(view, at) = Dir /\ view \in Tree
      BY <1>1, <2>5, WantIsView, DistinctNodes
    <3>2. Wanted(view, p) = Dir
      BY <2>1, <2>5, <3>1, WantedAbove, DistinctNodes DEF Lineage
    <3> QED
      BY <2>5, <3>2
  <2>6. CASE p = at /\ target'[p] = StatSource(source, at) /\ target'[p] \in Contents
    <3>1. StatSource(source, at) = Wanted(source, at)
      BY <2>1, <2>6, StatFacts DEF Types, TypeOK
    <3> QED
      BY <2>6, <3>1
  <2> QED
    BY <2>3, <2>4, <2>5, <2>6 DEF Left, Leaves
<1> QED
  BY <1>1, Invariance, PTL DEF Spec, OnlyRepairs

\* An ignored entry of the target goes with a directory above it only, and comes
\* as the directory of an entry that is not ignored.
THEOREM SparesIgnored ==
    ASSUME LeafLinks
    PROVE  Spec => IgnoredSpared
<1> DEFINE Step ==
      at # Idle /\ at' = Idle =>
          \A p \in Ignored :
            target'[p] # target[p] =>
              \/ target'[p] = Absent /\ at \in Above[p] /\ WrongKind(Wanted(view, at), have)
              \/ target'[p] = Dir /\ p \in Above[at] /\ Wanted(view, at) = Dir
<1>1. ASSUME Inv, [Next]_vars
      PROVE  [Step]_<<target, at>>
  <2> SUFFICES ASSUME at # Idle, at' = Idle, NEW p \in Ignored, target'[p] # target[p]
               PROVE  \/ /\ target'[p] = Absent /\ at \in Above[p]
                         /\ WrongKind(Wanted(view, at), have)
                      \/ target'[p] = Dir /\ p \in Above[at] /\ Wanted(view, at) = Dir
    OBVIOUS
  <2>1. Types /\ at \in Paths /\ p \in Paths /\ p # at
    BY <1>1, PathsAssumption DEF Inv, Types, TypeOK, CallKnown
  <2>2. Reconcile \/ CallFails
    BY <1>1, CallEnds
  <2>3. Left(target', p)
    BY <2>1, <2>2, FinishFacts
  <2>4. CASE WrongKind(want, have) /\ at \in Lineage(p) /\ target'[p] = Absent
    BY <1>1, <2>1, <2>4, WantIsView DEF WrongKind, Lineage
  <2>5. CASE want = Dir /\ p \in Lineage(at) /\ target'[p] = Dir
    BY <1>1, <2>1, <2>5, WantIsView, DistinctNodes DEF Lineage, Nodes
  <2> QED
    BY <2>1, <2>3, <2>4, <2>5 DEF Left, Leaves
<1> QED
  BY <1>1, Invariance, PTL DEF Spec, IgnoredSpared

-----------------------------------------------------------------------------
(* No difference is forgotten.                                             *)

LEMMA SeenIsNoLostWork == Seen <=> NoLostWork
BY DEF Seen, NoLostWork, Differs, SeenTo

\* Both parts speak of differences that are due: more paths due, and no new
\* difference, keep them.
LEMMA DueOfPaths ==
    ASSUME Inv
    PROVE  Due \subseteq Paths /\ pending \subseteq Due /\ (at # Idle => at \in Due)
BY DEF Due, Inv, Types, TypeOK

LEMMA DueInvInit ==
    ASSUME Init
    PROVE  DueInv
<1>1. Inv
  BY InvInit
<1>2. Fresh
  BY DEF Fresh, Init
<1>3. ASSUME NEW p \in Covered, Wanted(source, p) # target[p]
      PROVE  p \in Due
  <2>1. source \in Tree /\ p \in Paths /\ source[p] = Absent
    BY <1>1 DEF Inv, Types, TypeOK, Covered, Init, Empty
  <2> QED
    BY <1>3, <2>1, WantedAbove DEF Init, Walked, Due
<1> QED
  BY <1>1, <1>2, <1>3 DEF DueInv, Seen

LEMMA SeenByFinish ==
    ASSUME LeafLinks, DueInv, at # Idle, Reconcile \/ CallFails
    PROVE  Seen'
<1> SUFFICES ASSUME NEW p \in Covered, Wanted(source, p) # target'[p]
             PROVE  \/ p \in pending'
                    \/ Wanted(source, p) = Absent /\ \E a \in Above[p] \cap pending' : Wanted(source, a) # Dir
  BY FinishFacts, DueOfPaths DEF DueInv, Inv, Seen, Due
<1>1. /\ Inv /\ Types /\ Fresh /\ Seen /\ p \in Paths /\ at \in Paths
      /\ source \in Tree /\ target \in Tree
      /\ want \in (Nodes \ {Link}) \cup {NotDir} /\ have \in (Nodes \ {Link}) \cup {NotDir}
  BY DEF DueInv, Inv, Types, TypeOK, TargetTree, Covered
<1>2. pending \subseteq pending' /\ (target'[p] # target[p] => p \in pending')
  BY <1>1, FinishFacts
<1>3. CASE p \in pending' \/ at \in pending'
  BY <1>1, <1>2, <1>3 DEF Seen, Due
<1>4. CASE p \notin pending' /\ at \notin pending'
  <2> DEFINE r == Apply(source, target, at, want, have)
             base == Base(target, at, want, have)
  <2>1. Reconcile /\ target' = r.tree /\ r.ok
    BY <1>1, <1>4, FinishFacts
  <2>2. Wanted(source, p) # target[p] /\ at \notin pending
    BY <1>2, <1>4
  <2> HIDE DEF r, base
  <2>3. /\ NotDir \notin {want, have}
        /\ \/ want = Absent /\ target' = base
           \/ want = Dir /\ have = Dir
           \/ want = Dir /\ target' = Mkdir(base, at)
           \/ /\ want \in Contents /\ StatSource(source, at) \in Contents
              /\ base \in Tree /\ target' = [base EXCEPT ![at] = StatSource(source, at)]
    <3>1. Results(source, target, at, want, have, r)
      BY <1>1, ApplyCases DEF r
    <3>2. base \in Tree
      BY <1>1, BaseKeepsTree DEF base
    <3> QED
      BY <2>1, <3>1, <3>2, DistinctNodes DEF Results, Outcome, base
  <2>4. \A q \in Paths : base[q] = IF WrongKind(want, have) /\ at \in Lineage(q)
                                   THEN Absent ELSE target[q]
    BY <1>1, RemoveAllKeepsTree DEF base, Base
  <2>5. CASE /\ Wanted(source, at) = Absent
             /\ target[at] = Absent \/ \E a \in Above[at] \cap pending : Wanted(source, a) # Dir
    <3>1. CASE p = at
      <4>1. CASE target[at] = Absent
        BY <2>2, <2>5, <3>1, <4>1
      <4> QED
        BY <1>2, <2>5, <3>1, <4>1
    <3>2. CASE p # at /\ Wanted(source, p) = Absent /\ at \in Above[p]
      <4>1. target[at] = Dir
        BY <1>1, <2>2, <3>2, TreeFacts
      <4>2. PICK a \in Above[at] \cap pending : Wanted(source, a) # Dir
        BY <2>5, <4>1, DistinctNodes
      <4> QED
        BY <1>1, <1>2, <3>2, <4>2, AboveFacts
    <3>3. CASE p # at /\ Wanted(source, p) = Absent /\ \E a \in Above[p] \cap pending : Wanted(source, a) # Dir
      BY <1>2, <3>3
    <3> QED
      BY <1>1, <1>2, <1>4, <2>2, <3>1, <3>2, <3>3 DEF Seen, Due
  <2>6. CASE want = Wanted(source, at) /\ have = target[at]
    <3>1. CASE p = at
      <4>1. target'[at] # want /\ have # want
        BY <1>2, <1>4, <2>2, <2>6, <3>1
      <4>2. CASE want = Absent /\ target' = base
        <5>1. WrongKind(want, have)
          BY <2>3, <4>1, <4>2, DistinctNodes DEF WrongKind
        <5> QED
          BY <1>1, <2>4, <4>1, <4>2, <5>1 DEF Lineage
      <4>3. CASE want = Dir /\ target' = Mkdir(base, at)
        BY <1>1, <4>1, <4>3 DEF Mkdir, Lineage
      <4>4. CASE /\ want \in Contents /\ StatSource(source, at) \in Contents
                 /\ base \in Tree /\ target' = [base EXCEPT ![at] = StatSource(source, at)]
        <5>1. StatSource(source, at) = Wanted(source, at)
          BY <1>1, <4>4, StatFacts
        <5> QED
          BY <1>1, <2>6, <4>1, <4>4, <5>1, TreeFacts
      <4> QED
        BY <2>3, <4>1, <4>2, <4>3, <4>4
    <3>2. CASE p # at /\ Wanted(source, p) = Absent /\ at \in Above[p] /\ Wanted(source, at) # Dir
      <4>1. have = Dir /\ want # Dir /\ want # NotDir
        BY <1>1, <2>2, <2>3, <2>6, <3>2, TreeFacts
      <4>2. WrongKind(want, have)
        BY <4>1, DistinctNodes DEF WrongKind
      <4>3. base[p] = Absent
        BY <1>1, <2>4, <3>2, <4>2 DEF Lineage
      <4>4. target'[p] = base[p]
        BY <1>1, <2>3, <3>2, <4>1, TreeFacts
      <4> QED
        BY <3>2, <4>3, <4>4
    <3>3. CASE p # at /\ Wanted(source, p) = Absent /\ \E a \in Above[p] \cap pending : Wanted(source, a) # Dir
      BY <1>2, <3>3
    <3> QED
      BY <1>1, <1>2, <1>4, <2>2, <3>1, <3>2, <3>3 DEF Seen, Due
  <2> QED
    BY <1>1, <2>2, <2>3, <2>5, <2>6 DEF Fresh
<1> QED
  BY <1>3, <1>4

LEMMA DueByExecute ==
    ASSUME LeafLinks, DueInv, NEW p \in Paths, Execute(p) \/ ExecuteIgnored(p)
    PROVE  Fresh' /\ Seen'
<1>1. at = Idle /\ Types /\ Seen
  BY DEF Execute, ExecuteIgnored, DueInv, Inv
<1>2. CASE Execute(p)
  <2>1. Due' = Due
    BY <1>1, <1>2, ExecuteFacts DEF Due
  <2>2. want' \in {Wanted(source, p), NotDir}
    BY <1>1, <1>2, ExecuteFacts, StatFacts DEF Types, TypeOK
  <2> QED
    BY <1>1, <1>2, <2>1, <2>2, ExecuteFacts DEF Fresh, Seen
<1>3. CASE ExecuteIgnored(p)
  <2>1. /\ at' = Idle /\ p \in Ignored /\ UNCHANGED <<source, target>>
        /\ Due \subseteq Due' \cup {p}
    BY <1>1, <1>3 DEF ExecuteIgnored, call, Due
  <2>2. \A q \in Covered : p \notin Lineage(q)
    BY <2>1 DEF Covered
  <2> QED
    BY <1>1, <2>1, <2>2 DEF Fresh, Seen, Lineage
<1> QED
  BY <1>2, <1>3

LEMMA DueByEdit ==
    ASSUME ~Swaps, DueInv, EditSource
    PROVE  Fresh' /\ Seen'
<1>1. /\ Types /\ Fresh /\ Seen /\ at \in Paths \cup {Idle}
      /\ at' = at /\ want' = want /\ have' = have /\ target' = target
      /\ pending \subseteq pending' /\ Due \subseteq Due' /\ Due \subseteq Paths
      /\ pending' \subseteq Due' /\ source \in Tree /\ source' \in Tree /\ target \in Tree
  BY EditSourceFacts DEF call, Due, DueInv, Inv, Types, TypeOK, TargetTree
<1>2. \A p \in Paths :
        \/ Wanted(source', p) = Wanted(source, p)
        \/ p \in pending'
        \/ Wanted(source', p) = Absent /\ \E a \in Above[p] \cap pending' : Wanted(source', a) # Dir
  BY <1>1, EditSourceFacts
\* A directory that is due and went away comes back only where nothing is left of it.
<1>3. ASSUME NEW p \in Paths, p \notin pending', NEW a \in Above[p] \cap Due,
             Wanted(source, a) # Dir, Wanted(source', a) = Dir
      PROVE  target[p] = Absent
  <2>1. ~Swap(source, source', target, Due, pending)
    BY <1>1, EditSourceFacts
  <2>2. p \in Below(a) /\ p \notin pending
    BY <1>1, <1>3 DEF Below
  <2>3. source[a] # Dir /\ source'[a] = Dir /\ a \in Due
    BY <1>1, <1>3, WantedAbove
  <2> QED
    BY <2>1, <2>2, <2>3 DEF Swap
<1>4. Fresh'
  <2> SUFFICES ASSUME at # Idle, at \notin pending'
               PROVE  \/ want \in {Wanted(source', at), NotDir} /\ have \in {target[at], NotDir}
                      \/ /\ Wanted(source', at) = Absent
                         /\ \/ target[at] = Absent
                            \/ \E a \in Above[at] \cap pending' : Wanted(source', a) # Dir
    BY <1>1 DEF Fresh
  <2>1. at \in Paths /\ at \notin pending
    BY <1>1
  <2>2. CASE Wanted(source', at) # Wanted(source, at)
    BY <1>2, <2>1, <2>2
  <2>3. CASE Wanted(source', at) = Wanted(source, at)
    <3>1. CASE \E a \in Above[at] \cap pending : Wanted(source, a) # Dir
      BY <1>1, <1>3, <2>1, <2>3, <3>1 DEF Fresh, Due
    <3>2. CASE ~ \E a \in Above[at] \cap pending : Wanted(source, a) # Dir
      BY <2>1, <2>3, <3>2, <1>1 DEF Fresh
    <3> QED
      BY <3>1, <3>2
  <2> QED
    BY <2>2, <2>3
<1>5. Seen'
  <2> SUFFICES ASSUME NEW p \in Covered, Wanted(source', p) # target[p], p \notin pending', p \notin Due
               PROVE  Wanted(source', p) = Absent /\ \E a \in Above[p] \cap Due' : Wanted(source', a) # Dir
    BY <1>1 DEF Seen
  <2>1. p \in Paths
    BY DEF Covered
  <2>2. CASE Wanted(source', p) # Wanted(source, p)
    BY <1>1, <1>2, <2>1, <2>2
  <2>3. CASE Wanted(source', p) = Wanted(source, p)
    <3>1. PICK a \in Above[p] \cap Due : Wanted(source, p) = Absent /\ Wanted(source, a) # Dir
      BY <1>1, <2>3 DEF Seen
    <3>2. Wanted(source', a) # Dir
      BY <1>3, <2>1, <2>3, <3>1
    <3> QED
      BY <1>1, <2>3, <3>1, <3>2
  <2> QED
    BY <2>2, <2>3
<1> QED
  BY <1>4, <1>5

LEMMA DueByDrift ==
    ASSUME ~TargetMoves, DueInv, DriftTarget
    PROVE  Fresh' /\ Seen'
<1>1. /\ Fresh /\ Seen /\ at \in Paths \cup {Idle}
      /\ at' = at /\ want' = want /\ have' = have /\ source' = source
      /\ pending \subseteq pending' /\ Due \subseteq Due' /\ pending' \subseteq Due'
      /\ \A p \in Paths : target'[p] # target[p] => p \in pending'
  BY DriftTargetFacts DEF call, Due, DueInv, Inv, Types, TypeOK
<1>2. Fresh'
  BY <1>1 DEF Fresh
<1>3. Seen'
  BY <1>1 DEF Seen, Covered
<1> QED
  BY <1>2, <1>3

LEMMA DueInvStep ==
    ASSUME LeafLinks, ~Swaps, ~TargetMoves, DueInv, [Next]_vars
    PROVE  DueInv'
<1>1. Inv' /\ Types
  BY InvStep DEF DueInv, Inv
<1>2. CASE UNCHANGED vars
  BY <1>1, <1>2 DEF vars, call, DueInv, Fresh, Seen, Due
<1>3. CASE Reconcile \/ CallFails
  <2>1. at # Idle
    BY <1>3 DEF Reconcile, CallFails
  <2>2. at' = Idle
    BY <1>1, <1>3, <2>1, FinishFacts
  <2> QED
    BY <1>1, <1>3, <2>1, <2>2, SeenByFinish DEF DueInv, Fresh
<1>4. ASSUME NEW p \in Paths, Execute(p) \/ ExecuteIgnored(p)
      PROVE  DueInv'
  BY <1>1, <1>4, DueByExecute DEF DueInv
<1>5. CASE EditSource
  BY <1>1, <1>5, DueByEdit DEF DueInv
<1>6. CASE DriftTarget
  BY <1>1, <1>6, DueByDrift DEF DueInv
<1>7. CASE Restart
  <2>1. /\ at' = Idle /\ UNCHANGED <<source, target>>
        /\ Due' = Walked(source, target)
    BY <1>7 DEF Restart, Return, Due
  <2>2. Seen'
    BY <1>1, <2>1, WantedAbove DEF Seen, Walked, Covered, Types, TypeOK
  <2> QED
    BY <1>1, <2>1, <2>2 DEF DueInv, Fresh
<1>8. ASSUME NEW p \in Paths, Repeat(p)
      PROVE  DueInv'
  <2>1. /\ UNCHANGED <<source, target, call>>
        /\ pending \subseteq pending' /\ Due \subseteq Due'
    BY <1>8 DEF Repeat, call, Due
  <2> QED
    BY <1>1, <2>1 DEF call, DueInv, Fresh, Seen
<1> QED
  BY <1>2, <1>3, <1>4, <1>5, <1>6, <1>7, <1>8 DEF Next, Agent, Environment

\* Every difference between the trees is due, or lies below a path that is due and
\* no directory any more: whatever the order in which events are served, whatever
\* changes while Execute runs, whatever call fails, and through a restart.
THEOREM NothingForgotten ==
    ASSUME LeafLinks, ~Swaps, ~TargetMoves
    PROVE  Spec => []NoLostWork
<1>1. Init => DueInv
  BY DueInvInit
<1>2. DueInv /\ [Next]_vars => DueInv'
  BY DueInvStep
<1>3. DueInv => NoLostWork
  BY SeenIsNoLostWork DEF DueInv, Inv
<1> QED
  BY <1>1, <1>2, <1>3, PTL DEF Spec

\* An agent with nothing to do has nothing to repair.
THEOREM RestIsMirrored ==
    ASSUME LeafLinks, ~Swaps, ~TargetMoves
    PROVE  Spec => [](Due = {} => Mirrors)
<1>1. NoLostWork /\ Due = {} => Mirrors
  BY DEF NoLostWork, SeenTo, Mirrors
<1> QED
  BY <1>1, NothingForgotten, PTL

-----------------------------------------------------------------------------
(* The agent finds rest.                                                   *)

\* Neither the path of the call nor a directory above it is due again.
Alone == at # Idle /\ Lineage(at) \cap pending = {}

\* What the call has read is what it would read now.
Unraced ==
    Alone => want \in {Wanted(source, at), NotDir} /\ have \in {target[at], NotDir}

LEMMA UnracedStep ==
    ASSUME LeafLinks, ~TargetMoves, Inv, Unraced, [Next]_vars
    PROVE  Unraced'
<1> USE DEF Inv, Lineage
<1>1. CASE UNCHANGED vars
  BY <1>1 DEF vars, call, Unraced, Alone
<1>2. CASE Reconcile \/ CallFails \/ Restart \/ \E p \in Paths : ExecuteIgnored(p)
  <2>1. at' = Idle
    BY <1>2, FinishFacts DEF Reconcile, CallFails, Restart, Return, ExecuteIgnored, call
  <2> QED
    BY <2>1 DEF Unraced, Alone
<1>3. ASSUME NEW p \in Paths, Execute(p)
      PROVE  Unraced'
  <2>1. want' \in {Wanted(source', at'), NotDir}
    BY <1>3, ExecuteFacts, StatFacts DEF Types, TypeOK
  <2> QED
    BY <1>3, <2>1, ExecuteFacts DEF Unraced
<1>4. CASE EditSource
  <2> SUFFICES ASSUME Alone'
               PROVE  /\ want' \in {Wanted(source', at'), NotDir}
                      /\ have' \in {target'[at'], NotDir}
    BY DEF Unraced
  <2>1. /\ at' = at /\ want' = want /\ have' = have /\ target' = target
        /\ pending \subseteq pending' /\ at \in Paths
    BY <1>4, EditSourceFacts DEF call, Types, TypeOK, Alone
  <2>2. Alone /\ at \notin pending' /\ Above[at] \cap pending' = {}
    BY <2>1 DEF Alone
  <2>3. Wanted(source', at) = Wanted(source, at)
    BY <1>4, <2>1, <2>2, EditSourceFacts
  <2> QED
    BY <2>1, <2>2, <2>3 DEF Unraced
<1>5. CASE DriftTarget
  <2> SUFFICES ASSUME Alone'
               PROVE  /\ want' \in {Wanted(source', at'), NotDir}
                      /\ have' \in {target'[at'], NotDir}
    BY DEF Unraced
  <2>1. /\ at' = at /\ want' = want /\ have' = have /\ source' = source
        /\ pending \subseteq pending' /\ at \in Paths
    BY <1>5, DriftTargetFacts DEF call, Types, TypeOK, Alone
  <2>2. Alone /\ target'[at] = target[at]
    BY <1>5, <2>1, DriftTargetFacts DEF Alone
  <2> QED
    BY <2>1, <2>2 DEF Unraced
<1>6. ASSUME NEW p \in Paths, Repeat(p)
      PROVE  Unraced'
  BY <1>6 DEF Repeat, call, Unraced, Alone
<1> QED
  BY <1>1, <1>2, <1>3, <1>4, <1>5, <1>6 DEF Next, Agent, Environment

\* Between trees that agree, a call that nobody raced with has nothing to do.
LEMMA NothingToDo ==
    ASSUME Inv, Unraced, Alone, Mirrors, at \in Covered, Reconcile
    PROVE  /\ target' = target
           /\ at \in pending' => NotDir \in {want, have}
<1> DEFINE r == Apply(source, target, at, want, have)
<1>1. /\ at \in Paths /\ at \notin pending /\ source \in Tree /\ target \in Tree
      /\ want \in {Wanted(source, at), NotDir} /\ have \in {target[at], NotDir}
      /\ target[at] = Wanted(source, at) /\ want # Link
  BY DEF Inv, Types, TypeOK, TargetTree, Unraced, Alone, Lineage, Mirrors, Differs, Covered
<1>2. Finish(r)
  BY DEF Reconcile
<1>3. CASE NotDir \in {want, have}
  <2>1. r = Outcome(target, FALSE)
    BY <1>1, <1>3, DistinctNodes DEF Apply, WrongKind
  <2> QED
    BY <1>2, <1>3, <2>1 DEF Finish, Outcome
<1>4. CASE want = have /\ want = target[at] /\ want = Wanted(source, at) /\ want # NotDir
  <2>1. ~ WrongKind(want, have)
    BY <1>1, <1>4, TreeFacts DEF WrongKind, Nodes
  <2>2. r = Outcome(target, TRUE)
    <3>1. CASE want = Absent \/ want = Dir
      BY <1>4, <2>1, <3>1, DistinctNodes DEF Apply
    <3>2. CASE want \in Contents
      <4>1. \A a \in Above[at] : target[a] = Dir
        BY <1>1, <1>4, <3>2, TreeFacts, DistinctNodes
      <4>2. StatSource(source, at) = want
        BY <1>4, <3>2, DistinctNodes DEF Wanted
      <4>3. [target EXCEPT ![at] = want] = target
        BY <1>1, <1>4, TreeFacts
      <4> QED
        BY <1>4, <2>1, <3>2, <4>1, <4>2, <4>3, DistinctNodes DEF Apply
    <3> QED
      BY <1>1, <1>4, <3>1, <3>2, TreeFacts DEF Nodes
  <2>3. target' = target /\ pending' = pending
    BY <1>2, <2>2 DEF Finish, Outcome
  <2> QED
    BY <1>1, <2>3
<1> QED
  BY <1>1, <1>3, <1>4

\* The agent's own echo dies: once the trees agree, serving a path writes nothing and
\* does not make the path due again, unless somebody has changed it, or a directory
\* above it, meanwhile, or a regular file stands in its way.
THEOREM EchoDies ==
    ASSUME LeafLinks, ~TargetMoves
    PROVE  Spec => [][Reconcile /\ Mirrors /\ at \in Covered /\ Lineage(at) \cap pending = {}
                        => /\ target' = target
                           /\ at \in pending' => NotDir \in {want, have}]_vars
<1> DEFINE Quiet == Reconcile /\ Mirrors /\ at \in Covered /\ Lineage(at) \cap pending = {}
                      => /\ target' = target
                         /\ at \in pending' => NotDir \in {want, have}
<1>1. Init => Unraced
  BY DEF Init, Unraced, Alone
<1>2. Inv /\ Unraced /\ [Next]_vars => Unraced'
  BY UnracedStep
<1>3. Inv /\ Unraced => Quiet
  BY NothingToDo DEF Alone, Reconcile
<1> QED
  BY <1>1, <1>2, <1>3, Invariance, PTL DEF Spec
=============================================================================
