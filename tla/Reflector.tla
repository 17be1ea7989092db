----------------------------- MODULE Reflector -----------------------------
(***************************************************************************)
(* The agent at work on two trees: users change the source, somebody else  *)
(* changes the target, events name the paths to reconcile, and the only    *)
(* consumer executes them one at a time, between steps of everybody else.  *)
(*                                                                         *)
(* Composed of what the other modules establish about their parts: every   *)
(* change of an entry is reported (Fsnotify, SymlinkPoller), the reported  *)
(* and failed paths are a work list, served in any order (WorkList, which  *)
(* Watcher implements; pending is its due, and no queue overflows), and    *)
(* Execute of one path is Apply of module Trees (SyncPath).                *)
(***************************************************************************)
EXTENDS Trees

CONSTANTS
    Swaps,        \* users put a directory where another was just moved away
    TargetMoves   \* somebody moves directories of the target away

VARIABLES
    source,   \* the source tree
    target,   \* the target tree
    pending,  \* the paths with an event or a retry on its way
    at,       \* the path Execute works on
    want,     \* what Stat of the source reported of it
    have,     \* what Stat of the target reported of it
    view      \* the source when Execute began; read by properties only

call == <<at, want, have, view>>
vars == <<source, target, pending, at, want, have, view>>

Idle == "idle"

ASSUME EnvironmentAssumption ==
    Swaps \in BOOLEAN /\ TargetMoves \in BOOLEAN /\ Idle \notin Paths

\* What the agent is going to look at, or is looking at.
Due == pending \cup ({at} \ {Idle})

TypeOK ==
    /\ source \in Tree
    /\ target \in TargetTree
    /\ pending \subseteq Paths
    /\ at \in Paths \cup {Idle}
    /\ want \in Nodes \cup {NotDir} /\ have \in Nodes \cup {NotDir}
    /\ view \in Tree

\* What the first walk reconciles: all that either tree holds and is not ignored.
Walked(s, t) == {p \in Covered : s[p] # Absent \/ t[p] # Absent}

Init ==
    /\ source = Empty
    /\ target \in TargetTree
    /\ pending = Walked(source, target)
    /\ at = Idle /\ want = Absent /\ have = Absent
    /\ view = Empty

(***************************************************************************)
(* The agent.                                                              *)
(***************************************************************************)
ExecuteIgnored(p) ==
    /\ at = Idle /\ p \in pending \cap Ignored
    /\ pending' = pending \ {p}
    /\ UNCHANGED <<source, target, call>>

\* Slip: the matcher is not asked.
ExecuteUnmatched(p) ==
    /\ at = Idle /\ p \in pending
    /\ pending' = pending \ {p}
    /\ at' = p
    /\ want' = StatSource(source, p)
    /\ have' = Lstat(target, p)
    /\ view' = source
    /\ UNCHANGED <<source, target>>

\* Slip: an error of the source's Stat is taken for an absent path.
ExecuteErrorIsAbsence(p) ==
    /\ at = Idle /\ p \in pending \ Ignored
    /\ pending' = pending \ {p}
    /\ at' = p
    /\ want' \in {StatSource(source, p), Absent}
    /\ have' = Lstat(target, p)
    /\ view' = source
    /\ UNCHANGED <<source, target>>

\* Slip: a missing entry is an error of Stat like any other.
ExecuteMissingIsError(p) ==
    /\ at = Idle /\ p \in pending \ Ignored
    /\ pending' = pending \ {p}
    /\ at' = p
    /\ want' = IF StatSource(source, p) = Absent THEN NotDir ELSE StatSource(source, p)
    /\ have' = Lstat(target, p)
    /\ view' = source
    /\ UNCHANGED <<source, target>>

Execute(p) ==
    /\ at = Idle /\ p \in pending \ Ignored
    /\ pending' = pending \ {p}
    /\ at' = p
    /\ want' = StatSource(source, p)
    /\ have' = Lstat(target, p)
    /\ view' = source
    /\ UNCHANGED <<source, target>>

Return ==
    /\ at' = Idle
    /\ want' = Absent /\ have' = Absent /\ view' = Empty

\* The watch on the target reports what the agent itself changes there, and
\* an error has the path retried.
Finish(result) ==
    /\ target' = result.tree
    /\ pending' = pending \cup {q \in Paths : target[q] # result.tree[q]}
                          \cup (IF result.ok THEN {} ELSE {at})
    /\ Return
    /\ UNCHANGED source

Reconcile ==
    /\ at # Idle
    /\ Finish(Apply(source, target, at, want, have))

\* A call fails: before it did anything, after the entry of the wrong kind was
\* removed, or half-way through a removal or through the making of directories.
CallFails ==
    /\ at # Idle
    /\ \E t \in Interrupted(target, at, want, have) : Finish(Outcome(t, FALSE))

\* Slip: the first walk covers the source only.
RestartForgetsTarget ==
    /\ pending' = Walked(source, source)
    /\ Return
    /\ UNCHANGED <<source, target>>

\* The process dies and is started again: the first walk covers both trees.
Restart ==
    /\ pending' = Walked(source, target)
    /\ Return
    /\ UNCHANGED <<source, target>>

Agent == Reconcile \/ \E p \in Paths : Execute(p) \/ ExecuteIgnored(p)

(***************************************************************************)
(* Everybody else.                                                         *)
(***************************************************************************)
EditSource ==
    /\ \E step \in Edits(source) \cup MoveOuts(source) :
         /\ Swaps \/ ~Swap(source, step[1], target, Due, pending)
         /\ source' = step[1]
         /\ pending' = pending \cup step[2] \cup Linked(step[1], step[2])
    /\ UNCHANGED <<target, call>>

DriftTarget ==
    /\ \E step \in Edits(target) \cup (IF TargetMoves THEN MoveOuts(target) ELSE {}) :
         /\ \A p \in step[2] : step[1][p] # Link
         /\ target' = step[1]
         /\ pending' = pending \cup step[2]
    /\ UNCHANGED <<source, call>>

\* A path is reported though nothing has changed: by the poller's next sweep, or
\* because it waited in two places when it was served.
Repeat(p) ==
    /\ pending' = pending \cup {p}
    /\ UNCHANGED <<source, target, call>>

Environment ==
    EditSource \/ DriftTarget \/ CallFails \/ Restart \/ \E p \in Paths : Repeat(p)

Next == Agent \/ Environment

\* Whatever else is queued, a path that keeps being due has its turn.
Fairness == WF_vars(Reconcile) /\ \A p \in Paths : SF_vars(Execute(p) \/ ExecuteIgnored(p))

Spec == Init /\ [][Next]_vars /\ Fairness

(***************************************************************************)
(* Properties.                                                             *)
(***************************************************************************)
Mirrors == Differs(source, target) = {}

\* No difference between the trees is forgotten: not by the order in which the
\* events of a directory and its content are served, nor by a change that meets
\* a running Execute, an error, or the removal of a directory as a whole.
NoLostWork == \A p \in Differs(source, target) : SeenTo(source, Due, p)

\* The agent changes the target only towards the source: what it writes or
\* removes, for the path or for others, is what the source asked for when
\* Execute began or now, or an entry of the wrong kind that is to be replaced
\* (unless somebody put another entry there since Stat).
OnlyRepairs ==
    [][ at # Idle /\ at' = Idle /\ have = Lstat(target, at) =>
          \A p \in Covered :
            target'[p] # target[p] =>
              \/ target'[p] \in {Wanted(view, p), Wanted(source, p)}
              \/ target'[p] = Absent /\ p = at /\ WrongKind(Wanted(view, p), have) ]_<<target, at>>

\* When only the agent acts any more, the target becomes the source's mirror.
Converges == (<>[][Agent]_vars) => <>[]Mirrors

\* ... and the agent finds rest, but for retries of paths below a regular file.
Quiesces ==
    (<>[][Agent]_vars) =>
      <>[](\A p \in Due : NotDir \in {Lstat(source, p), Lstat(target, p)})

\* An ignored entry of the target is never touched for its own sake: it goes with
\* a directory above it that the source no longer has, and as a directory it is
\* made for an entry below it that is not ignored.
IgnoredSpared ==
    [][ at # Idle /\ at' = Idle =>
          \A p \in Ignored :
            target'[p] # target[p] =>
              \/ target'[p] = Absent /\ at \in Above[p] /\ WrongKind(Wanted(view, at), have)
              \/ target'[p] = Dir /\ p \in Above[at] /\ Wanted(view, at) = Dir ]_<<target, at>>

\* The README's "An ignored path is never created, modified, nor deleted."  The two
\* exceptions of IgnoredSpared are breaches of it.
NeverTouched ==
    [][ at # Idle /\ at' = Idle => \A p \in Ignored : target'[p] = target[p] ]_<<target, at>>
=============================================================================
