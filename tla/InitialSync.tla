---------------------------- MODULE InitialSync ----------------------------
(***************************************************************************)
(* The reconciliation at start-up: a top-down walk of the source, then a   *)
(* bottom-up walk of the target, while users and others go on changing     *)
(* both.  A path is looked at up to three times (Execute, Stat, ReadDir),  *)
(* what a listing named is visited later, and what Execute has read of     *)
(* both sides is old when it writes.                                       *)
(*                                                                         *)
(* Siblings are visited in any order.  The watches are installed before,   *)
(* so every change from here on has its event, and the poller runs.        *)
(***************************************************************************)
EXTENDS Trees

CONSTANTS
    Root,         \* the watched root, the empty relative path
    Faults,       \* the calls can fail for reasons of their own
    Swaps,        \* users put a directory where another was just moved away
    TargetMoves   \* somebody moves directories of the target away

ASSUME RootAssumption == Root \notin Paths
ASSUME LimitsAssumption ==
    Faults \in BOOLEAN /\ Swaps \in BOOLEAN /\ TargetMoves \in BOOLEAN

VARIABLES
    source, target,
    pc,       \* what the walk does next with the path it is at; in the end "done",
              \* "failed" for what it found, or "faulted" because a call failed
    at,
    todo,     \* the paths listed and not visited yet
    open,     \* cleanupTarget: the paths it returns to after their children
    visited,  \* walkSource: the paths that were reconciled
    changed,  \* the paths with events since the start; not the agent's own writes
    want,     \* SyncPath.Execute: what Stat of the source reported of the path
    have,     \* SyncPath.Execute: what Stat of the target reported of it
    view      \* the source when Execute began; read by properties only

walk == <<pc, at, todo, open, visited>>
call == <<want, have, view>>
vars == <<source, target, pc, at, todo, open, visited, changed, want, have, view>>

Calls == {"reconcile", "remove"}
Steps == {"visit", "execute", "stat", "list", "look", "listTarget"} \cup Calls
Ended == {"done", "failed", "faulted"}

TypeOK ==
    /\ source \in Tree /\ target \in TargetTree
    /\ pc \in Steps \cup Ended
    /\ at \in Paths \cup {Root}
    /\ todo \subseteq Paths \cup {Root}
    /\ open \subseteq Paths \cup {Root}
    /\ visited \subseteq Paths \cup {Root}
    /\ changed \subseteq Paths
    /\ pc \in Calls => at # Root
    /\ want \in Nodes \cup {NotDir} /\ have \in Nodes \cup {NotDir}
    /\ view \in Tree

\* A start after a crash finds the target in any state.
Init ==
    /\ source \in Tree /\ target \in TargetTree
    /\ pc = "visit" /\ at = Root
    /\ todo = {Root} /\ open = {} /\ visited = {}
    /\ changed = {}
    /\ want = Absent /\ have = Absent /\ view = Empty

Entries(t, p) == {q \in IF p = Root THEN Tops ELSE Children(p) : t[q] # Absent}

Fail == pc' = "failed" /\ UNCHANGED <<at, todo, open, visited>>

(***************************************************************************)
(* SyncPath.Execute: what it reads of both sides, and what it makes of     *)
(* that on the trees as they are by then.                                  *)
(***************************************************************************)
Stats(p) ==
    /\ want' = StatSource(source, p)
    /\ have' = Lstat(target, p)
    /\ view' = source

Result == Apply(source, target, at, want, have)

Return == want' = Absent /\ have' = Absent /\ view' = Empty

\* The root is always there.
SourceNode(p) == IF p = Root THEN Dir ELSE StatSource(source, p)
TargetNode(p) == IF p = Root THEN Dir ELSE Lstat(target, p)

(***************************************************************************)
(* walkSource.                                                             *)
(***************************************************************************)
Skip(next) ==
    /\ pc = next
    /\ \E p \in todo \cap Ignored : todo' = todo \ {p}
    /\ UNCHANGED <<source, target, pc, at, open, visited, changed, call>>

Visit ==
    /\ pc = "visit"
    /\ \E p \in todo \ Ignored :
         /\ at' = p
         /\ todo' = todo \ {p}
    /\ pc' = "execute"
    /\ UNCHANGED <<source, target, open, visited, changed, call>>

\* The root is never reconciled.
Execute ==
    /\ pc = "execute"
    /\ \/ /\ at = Root
          /\ visited' = visited \cup {Root}
          /\ pc' = "stat"
          /\ UNCHANGED call
       \/ /\ at # Root
          /\ Stats(at)
          /\ pc' = "reconcile"
          /\ UNCHANGED visited
    /\ UNCHANGED <<source, target, at, todo, open, changed>>

Reconcile ==
    /\ pc = "reconcile"
    /\ target' = Result.tree
    /\ Return
    /\ \/ /\ Result.ok
          /\ visited' = visited \cup {at}
          /\ pc' = "stat"
          /\ UNCHANGED <<at, todo, open>>
       \/ ~Result.ok /\ Fail
    /\ UNCHANGED <<source, changed>>

\* Slip: everything is taken for a directory.
StatAgainUnasked ==
    /\ pc = "stat"
    /\ pc' = "list"
    /\ UNCHANGED <<source, target, at, todo, open, visited, changed, call>>

StatAgain ==
    /\ pc = "stat"
    /\ \/ SourceNode(at) = NotDir /\ Fail
       \/ /\ SourceNode(at) # NotDir
          /\ pc' = IF SourceNode(at) = Dir THEN "list" ELSE "visit"
          /\ UNCHANGED <<at, todo, open, visited>>
    /\ UNCHANGED <<source, target, changed, call>>

\* Slip: the entries of the root only.
ReadDirOnce ==
    /\ pc = "list"
    /\ todo' = todo \cup (IF at = Root THEN Entries(source, at) ELSE {})
    /\ pc' = "visit"
    /\ UNCHANGED <<source, target, at, open, visited, changed, call>>

\* The directory may be gone, or another entry, since Stat.
ReadDir ==
    /\ pc = "list"
    /\ \/ /\ SourceNode(at) = Dir
          /\ todo' = todo \cup Entries(source, at)
          /\ pc' = "visit"
          /\ UNCHANGED <<at, open, visited>>
       \/ SourceNode(at) # Dir /\ Fail
    /\ UNCHANGED <<source, target, changed, call>>

WalkDone ==
    /\ pc = "visit" /\ todo = {}
    /\ pc' = "look"
    /\ todo' = {Root}
    /\ UNCHANGED <<source, target, at, open, visited, changed, call>>

(***************************************************************************)
(* cleanupTarget.                                                          *)
(***************************************************************************)
Look ==
    /\ pc = "look"
    /\ \E p \in todo \ Ignored :
         /\ at' = p
         /\ \/ /\ TargetNode(p) = NotDir
               /\ pc' = "failed"
               /\ UNCHANGED <<todo, open>>
            \/ /\ TargetNode(p) = Dir
               /\ pc' = "listTarget"
               /\ todo' = todo \ {p}
               /\ UNCHANGED open
            \/ /\ TargetNode(p) \in Contents \cup {Absent}
               /\ todo' = todo \ {p}
               /\ open' = open \cup (IF TargetNode(p) = Absent THEN {} ELSE {p})
               /\ UNCHANGED pc
    /\ UNCHANGED <<source, target, visited, changed, call>>

\* Slip: an entry of the target is put back until it is gone.
ReadTargetDirAgain ==
    /\ pc = "listTarget"
    /\ \/ /\ TargetNode(at) = Dir
          /\ todo' = todo \cup Entries(target, at) \cup ({at} \ visited)
          /\ open' = open \cup {at}
          /\ pc' = "look"
          /\ UNCHANGED <<at, visited>>
       \/ TargetNode(at) # Dir /\ Fail
    /\ UNCHANGED <<source, target, changed, call>>

ReadTargetDir ==
    /\ pc = "listTarget"
    /\ \/ /\ TargetNode(at) = Dir
          /\ todo' = todo \cup Entries(target, at)
          /\ open' = open \cup {at}
          /\ pc' = "look"
          /\ UNCHANGED <<at, visited>>
       \/ TargetNode(at) # Dir /\ Fail
    /\ UNCHANGED <<source, target, changed, call>>

\* Everything below p has been dealt with.
Finished(p) ==
    /\ p \in open
    /\ (IF p = Root THEN Paths ELSE Below(p)) \cap (open \cup todo) = {}

KeepVisited(p) ==
    /\ pc = "look" /\ Finished(p)
    /\ p \in visited
    /\ open' = open \ {p}
    /\ UNCHANGED <<source, target, pc, at, todo, visited, changed, call>>

\* Slip: what the source walk did not see is removed without asking again.
RemoveUnvisitedUnasked(p) ==
    /\ pc = "look" /\ Finished(p)
    /\ p \in Paths \ visited
    /\ at' = p
    /\ open' = open \ {p}
    /\ pc' = "remove"
    /\ want' = Absent /\ have' = Lstat(target, p) /\ view' = source
    /\ UNCHANGED <<source, target, todo, visited, changed>>

RemoveUnvisited(p) ==
    /\ pc = "look" /\ Finished(p)
    /\ p \in Paths \ visited
    /\ at' = p
    /\ open' = open \ {p}
    /\ pc' = "remove"
    /\ Stats(p)
    /\ UNCHANGED <<source, target, todo, visited, changed>>

Removed ==
    /\ pc = "remove"
    /\ target' = Result.tree
    /\ Return
    /\ pc' = IF Result.ok THEN "look" ELSE "failed"
    /\ UNCHANGED <<source, at, todo, open, visited, changed>>

CleanupDone ==
    /\ pc = "look" /\ todo \cup open = {}
    /\ pc' = "done"
    /\ UNCHANGED <<source, target, at, todo, open, visited, changed, call>>

CallFails ==
    /\ Faults /\ pc \in Steps \ ({"visit"} \cup Calls)
    /\ pc' = "faulted"
    /\ UNCHANGED <<source, target, at, todo, open, visited, changed, call>>

\* A call of Execute fails with a part of its work done.
ExecuteFails ==
    /\ Faults /\ pc \in Calls
    /\ target' \in Interrupted(target, at, want, have)
    /\ Return
    /\ pc' = "faulted"
    /\ UNCHANGED <<source, at, todo, open, visited, changed>>

Agent ==
    \/ Skip("visit") \/ Visit \/ Execute \/ Reconcile \/ StatAgain \/ ReadDir \/ WalkDone
    \/ Skip("look") \/ Look \/ ReadTargetDir
    \/ \E p \in Paths \cup {Root} : KeepVisited(p) \/ RemoveUnvisited(p)
    \/ Removed \/ CleanupDone \/ CallFails \/ ExecuteFails

(***************************************************************************)
(* Everybody else, until the walk has ended.                               *)
(***************************************************************************)
\* The target, with the directories that a running Execute is going to make.
Made == IF want = Dir THEN Mkdir(target, at) ELSE target

EditSource ==
    /\ pc \notin Ended
    /\ \E step \in Edits(source) \cup MoveOuts(source) :
         /\ Swaps \/ ~Swap(source, step[1], Made, changed, changed)
         /\ source' = step[1]
         /\ changed' = changed \cup step[2] \cup Linked(step[1], step[2])
    /\ UNCHANGED <<target, walk, call>>

DriftTarget ==
    /\ pc \notin Ended
    /\ \E step \in Edits(target) \cup (IF TargetMoves THEN MoveOuts(target) ELSE {}) :
         /\ \A p \in step[2] : step[1][p] # Link
         /\ target' = step[1]
         /\ changed' = changed \cup step[2]
    /\ UNCHANGED <<source, walk, call>>

Next == Agent \/ EditSource \/ DriftTarget

Spec == Init /\ [][Next]_vars /\ WF_vars(Agent)

(***************************************************************************)
(* Properties.                                                             *)
(***************************************************************************)

\* When the walk has succeeded, the trees agree but for what the events since
\* the start are going to see to: no path is skipped because it came, went or
\* changed its kind between the looks at it.
Reconciled ==
    pc = "done" => \A p \in Differs(source, target) : SeenTo(source, changed, p)

\* The walk takes an entry away only if the source had none there when Execute
\* looked, however long ago the source was walked and in whatever call the walk
\* breaks off, or as an entry of the wrong kind that is to be replaced (unless
\* somebody put another entry there since Execute looked).
OnlyOrphansRemoved ==
    [][ walk' # walk /\ have = TargetNode(at) =>
          \A p \in Covered :
            target[p] # Absent /\ target'[p] = Absent =>
              \/ Wanted(view, p) = Absent
              \/ p = at /\ WrongKind(Wanted(view, p), have) ]_target

\* However much is changed meanwhile, the walk comes to an end: what is put back
\* behind it is not walked again.  A tree that somebody makes deeper and deeper in
\* front of it would keep it busy; here the depth is that of Paths.
Ends == <>(pc \in Ended)

\* The walk fails only for a change that has met it: of the path it was at, or of
\* a directory above. What one of its looks or writes did never stops a later one.
FailsOnlyRaced == pc = "failed" => Lineage(at) \cap changed # {}
=============================================================================
