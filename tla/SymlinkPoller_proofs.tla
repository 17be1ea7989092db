------------------------- MODULE SymlinkPoller_proofs -------------------------
(***************************************************************************)
(* A sweep of the symlink poller is complete, on trees of any shape and    *)
(* depth, with links anywhere.                                             *)
(***************************************************************************)
EXTENDS SymlinkPoller, Trees_proofs

USE PollerAssumption

\* The directories whose visit leads to a path.
Roots(p) == {Root} \cup Above[p]

\* A link that stays where it is has been sent, is listed, or is below a directory
\* that is listed, and that the sweep has not given up.
Reachable(p) ==
    \/ p \in named
    \/ Roots(p) \cap blind # {}
    \/ <<p, Link>> \in todo
    \/ \E a \in Roots(p) : <<a, Dir>> \in todo

Inv ==
    /\ source \in Tree /\ steady \subseteq Links(source)
    /\ pc = "sweeping" /\ ~cancelled => \A p \in steady \cap Covered : Reachable(p)

LEMMA CoveredFacts ==
    ASSUME NEW p \in Covered
    PROVE  /\ p \in Paths /\ p # Root /\ p \notin Ignored
           /\ Root \notin Ignored /\ Root \notin Above[p]
           /\ \A a \in Roots(p) : a \notin Ignored /\ (a # Root => a \in Paths)
BY PathsAssumption DEF Covered, Lineage, Roots

LEMMA AboveSteady ==
    ASSUME Inv, NEW p \in steady
    PROVE  p \in Paths /\ source[p] = Link /\ \A a \in Above[p] : source[a] = Dir
BY TreeFacts, DistinctNodes DEF Inv, Links

LEMMA StaysListed ==
    ASSUME NEW entry, todo' = todo \ {entry}
    PROVE  \A a, n : <<a, n>> \in todo /\ (a # entry[1] \/ n # entry[2]) => <<a, n>> \in todo'
OBVIOUS

\* A visit that removes no link from the list, and neither the root nor a directory
\* that leads to a link, leaves everything in reach.
LEMMA OthersVisited ==
    ASSUME Inv, NEW p \in steady \cap Covered, pc = "sweeping", ~cancelled,
           NEW entry, todo' = todo \ {entry}, UNCHANGED <<blind, named>>,
           entry[1] \in Roots(p) => entry[2] # Dir,
           entry[1] = p => entry[2] # Link
    PROVE  Reachable(p)'
<1>1. Reachable(p) /\ p \notin Roots(p)
  BY CoveredFacts, PathsAssumption DEF Inv, Roots
<1>2. ASSUME NEW a \in Roots(p), <<a, Dir>> \in todo
      PROVE  <<a, Dir>> \in todo'
  BY <1>2, StaysListed
<1>3. <<p, Link>> \in todo => <<p, Link>> \in todo'
  BY StaysListed
<1> QED
  BY <1>1, <1>2, <1>3 DEF Reachable

LEMMA DescendReaches ==
    ASSUME Inv, NEW p \in steady \cap Covered, Descend, ~cancelled
    PROVE  Reachable(p)'
<1>1. PICK entry \in todo :
        LET q == entry[1]
            children == IF q = Root THEN Tops ELSE Children(q)
        IN  /\ q \notin Ignored /\ entry[2] = Dir
            /\ q # Root => source[q] = Dir
            /\ todo' = (todo \ {entry})
                       \cup {<<c, source[c]>> : c \in {b \in children : source[b] # Absent}}
  BY DEF Descend
<1> DEFINE q == entry[1]
           children == IF q = Root THEN Tops ELSE Children(q)
<1>2. UNCHANGED <<blind, named>> /\ Reachable(p) /\ Dir # Link /\ Absent \notin {Dir, Link}
  BY DistinctNodes DEF Descend, history, Inv
<1>3. /\ p \in Paths /\ p # Root /\ source[p] = Link
      /\ \A a \in Above[p] : a # Root /\ source[a] = Dir
  BY AboveSteady, CoveredFacts
<1>4. CASE q \in Roots(p)
  <2>1. PICK c \in Lineage(p) : c \in children
    BY <1>3, <1>4, PathsAssumption DEF Roots
  <2>2. c = p \/ c \in Above[p]
    BY DEF Lineage
  <2>3. source[c] # Absent /\ source[c] = IF c = p THEN Link ELSE Dir
    BY <1>2, <1>3, <2>2
  <2>4. <<c, source[c]>> \in todo'
    BY <1>1, <2>1, <2>3
  <2> QED
    BY <2>2, <2>3, <2>4 DEF Reachable, Roots
<1>5. CASE q \notin Roots(p)
  <2>1. \A n \in {Dir, Link} : \A a \in Roots(p) \cup {p} :
          <<a, n>> \in todo /\ (a = p => n = Link) => <<a, n>> \in todo'
    BY <1>1, <1>2, <1>5
  <2>2. p \notin Roots(p)
    BY <1>3, PathsAssumption DEF Roots
  <2> QED
    BY <1>2, <2>1, <2>2 DEF Reachable, Roots
<1> QED
  BY <1>4, <1>5

LEMMA InvStep ==
    ASSUME Inv, [Next]_vars
    PROVE  Inv'
<1>1. CASE EditSource
  <2>1. PICK step \in Edits(source) \cup MoveOuts(source) :
               source' = step[1] /\ steady' = steady \cap Links(step[1])
    BY <1>1 DEF EditSource
  <2>2. source' \in Tree
    BY <2>1, EditsFacts, MoveOutsFacts DEF Inv
  <2> QED
    BY <1>1, <2>1, <2>2 DEF EditSource, Inv, Reachable, Links
<1>2. CASE StartSweep
  BY <1>2 DEF StartSweep, world, Inv, Reachable, Roots, Links
<1>3. CASE Cancel \/ Close \/ EndSweep \/ StopSending
  BY <1>3 DEF Cancel, Close, EndSweep, StopSending, world, history, Inv, Links
<1>4. CASE Tick \/ ChangeBehind \/ UNCHANGED vars
  BY <1>4 DEF Tick, ChangeBehind, vars, world, history, Inv, Links, Reachable
<1>5. CASE Pass \/ Descend \/ SkipVanished \/ SkipUnreadable \/ SendLink
  <2>1. /\ UNCHANGED <<source, steady, pc, cancelled>> /\ pc = "sweeping"
    BY <1>5 DEF Pass, Descend, SkipVanished, SkipUnreadable, SendLink, world, history
  <2> SUFFICES ASSUME ~cancelled, NEW p \in steady \cap Covered
               PROVE  Reachable(p)'
    BY <2>1 DEF Inv, Links
  <2>2. Reachable(p) /\ Dir # Link
    BY <2>1, DistinctNodes DEF Inv
  <2>3. CASE Pass
    <3>1. PICK entry \in todo : /\ entry[1] \in Ignored \/ entry[2] \notin {Dir, Link}
                                /\ todo' = todo \ {entry}
      BY <2>3 DEF Pass
    <3> QED
      BY <2>1, <2>3, <3>1, CoveredFacts, OthersVisited DEF Pass, history
  <2>4. CASE Descend
    BY <2>4, DescendReaches
  <2>5. CASE SkipVanished
    <3>1. PICK entry \in todo : /\ entry[1] \in Paths \ Ignored /\ entry[2] = Dir
                                /\ source[entry[1]] # Dir
                                /\ todo' = todo \ {entry}
      BY <2>5 DEF SkipVanished
    <3>2. entry[1] \notin Roots(p)
      BY <3>1, AboveSteady DEF Roots
    <3> QED
      BY <2>1, <2>2, <2>5, <3>1, <3>2, OthersVisited DEF SkipVanished, history
  <2>6. CASE SkipUnreadable
    <3>1. PICK entry \in todo : /\ entry[2] = Dir
                                /\ todo' = todo \ {entry}
                                /\ blind' = blind \cup {entry[1]}
      BY <2>6 DEF SkipUnreadable
    <3>2. CASE entry[1] \in Roots(p)
      BY <3>1, <3>2 DEF Reachable, Roots
    <3>3. CASE entry[1] \notin Roots(p)
      <4>1. /\ <<p, Link>> \in todo => <<p, Link>> \in todo'
            /\ \A a \in Roots(p) : <<a, Dir>> \in todo => <<a, Dir>> \in todo'
        BY <2>2, <3>1, <3>3, StaysListed
      <4>2. named' = named /\ blind \subseteq blind'
        BY <2>6, <3>1 DEF SkipUnreadable
      <4> QED
        BY <2>2, <4>1, <4>2 DEF Reachable, Roots
    <3> QED
      BY <3>2, <3>3
  <2>7. CASE SendLink
    <3>1. PICK entry \in todo : /\ entry[2] = Link
                                /\ todo' = todo \ {entry}
                                /\ named' = named \cup {entry[1]}
      BY <2>7 DEF SendLink
    <3> QED
      BY <2>2, <2>7, <3>1 DEF SendLink, Reachable, Roots
  <2> QED
    BY <1>5, <2>3, <2>4, <2>5, <2>6, <2>7
<1> QED
  BY <1>1, <1>2, <1>3, <1>4, <1>5 DEF Next, Walk

\* A sweep names every link that was there all through it, whatever came, went and
\* changed while it walked, except below a directory that could not be listed.
THEOREM SweepMissesNothing == Spec => []SweepComplete
<1>1. Init => Inv
  BY DEF Init, Inv
<1>2. Inv /\ [Next]_vars => Inv'
  BY InvStep
<1>3. Inv => SweepComplete
  BY DEF Inv, SweepComplete, Reachable, Roots
<1> QED
  BY <1>1, <1>2, <1>3, PTL DEF Spec
=============================================================================
