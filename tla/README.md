# file-reflector in TLA+

TLA+ modules, TLC configurations and TLAPS proofs for file-reflector, the
agent that keeps a target directory a mirror of a source directory. The
modules are translated from the Go code under `src/`; `PROJECT.json` maps
every definition to the lines it stands for and lists the runs, the hazards,
the findings and the theorems.

1. [The system](#1-the-system)
2. [The modules](#2-the-modules)
3. [The runs](#3-the-runs)
4. [Fairness](#4-fairness)
5. [The proofs](#5-the-proofs)
6. [Where the code and its documents disagree](#6-where-the-code-and-its-documents-disagree)
7. [What is outside the models](#7-what-is-outside-the-models)
8. [The plan](#8-the-plan)

## 1. The system

One process, one consumer goroutine that reconciles path after path, and a few
goroutines that tell it which.

| Component | State | Operations | Talks to |
|---|---|---|---|
| `SyncPath` (`usecase/sync_path.go`) | none between calls; the locals of `Execute` | `Execute(relPath)`: stat both sides, then the least write that makes them agree | the readers and writers below, through ports |
| `InitialSync` (`usecase/initial_sync.go`) | the set of visited paths | walk the source top-down through `SyncPath`, then remove from the target, bottom-up, what the walk has not visited | `SyncPath`, the readers, the remover, the matcher |
| `Watcher` (`presentation/watcher`) | the derived context, the merged stream, the retries channel, timers | `Run`, `drain`, `drainUntilClosed`, `handle`, `merge` | event sources (channels), `InitialSync`, `SyncPath` |
| `Fsnotify` (`infrastructure/eventsource`) | the set of watched directories, a channel of 128 | `Run`, `addRecursive`, `loop`, `handleEvent`, `emitInitial` | inotify; the watcher. One instance per tree |
| `SymlinkPoller` | an unbuffered channel, a ticker | `Run`, `sweep`: report every symlink of the source at each tick | the source tree; the watcher |
| Content writer | temporary files in the target | `WriteAtomic`, `Mkdir` | the file system |
| Metadata writer, entry remover | none | `Chmod`, `Chown`, `Remove` (recursive, idempotent) | the file system |
| Metadata reader, content reader, content hasher | none | `Stat` (with and without following links), `ReadDir`, `Open`, `Hash` | the file system |
| Glob matcher | its patterns | `NewGlob`, `Matches` | `SyncPath`, `InitialSync`, the poller |
| Configuration (`cmd/config`) | none | `Parse`: defaults, the order of the checks, modes and owners | `main` |
| `main` and the container (`infrastructure/di`) | the signal context, the cached roots and ports | `run`, the lazy getters, `Close`, the exit code | everything, once |

State is shared in three ways. The two trees belong to everybody: users edit
the source, anybody may write into the target, and the agent's own writes come
back to it as events of the target watch. The channels belong to the watcher:
source channel, forwarder, merged stream, and retries. The watch set of a tree
belongs to the goroutine of its source.

What makes this hard, and what each component has to get right:

* **A stat is stale when it is used.** `Execute` makes up to seven calls, and
  both sides can change between any two. *A nil return that nobody raced with
  has mirrored the path; one that was raced with has left a reason to come
  back; nothing is removed because of an error.* (`SuccessMirrors`,
  `NoLostWork`, `RemovalJustified`)
* **The agent hears itself.** *Reconciling a path that is in sync writes
  nothing, so its own events die out.* (`Idempotent`, `Settles`)
* **A write can be interrupted anywhere**, by an error, a kill or a power
  loss. *A reader of the target finds a whole version with its final
  attributes, and the temporary files go away.* (`ReplacesAtomically`,
  `LitterTracked`, `LitterGoes`)
* **A reason to reconcile passes through five queues** and a timer. *It reaches
  the consumer or was dropped by a queue that was full.* (`Accounted`,
  `Served`)
* **Everyone may be blocked when the signal comes.** *Run returns, not before
  every source has let go of the roots, and starts at most one more
  reconciliation.* (`Stops`, `CleanShutdown`, `NoLateWork`)
* **inotify is not recursive**, so the watch set always lags behind the tree.
  *When the source is quiet, everything that exists and has changed has been
  reported and every directory is watched.* (`NothingMissed`, `WatchesAll`,
  `Emitted`)
* **Paths are reconciled one at a time, trees are not.** Events of a directory
  and of its content come in any order, a removal takes a subtree along, a
  write makes the directories above it. *No difference between the trees is
  forgotten, the agent only repairs, what is ignored is not touched for its own
  sake, and the trees agree in the end.* (Reflector's `NoLostWork`, `OnlyRepairs`,
  `IgnoredSpared`, `Converges`, `Quiesces`)
* **The first walk races with everybody.** It looks at a path up to three
  times, visits what was listed before, and writes what it read before. *What
  it leaves out of step has its event; it removes only what the source did not
  have, or had as another kind, when `Execute` looked; it fails only for a
  change that met it; it ends.* (`Reconciled`, `OnlyOrphansRemoved`, `FailsOnlyRaced`, `Ends`)
* **Links are polled**, by sweeps of a tree that changes under them. *A sweep
  passes by no link, a change behind a link is told, the channel is closed.*
  (`SweepComplete`, `ChangesNamed`, `Closes`)
* **The process starts and stops in many steps that can fail.** *Every root is
  closed, on every way out; everybody works on the same root; the exit code
  tells; what the command line promises is enforced, zero included.*
  (`ReleasesAll`, `RunsAsConfigured`, `ExitTells`, `Enforced`,
  `PruningIsIgnoring`, `PlumbingIgnored`)

`PROJECT.json` lists the hazards behind these at the lines where they bite,
and those no property covers yet, with the reason.

## 2. The modules

```
FileNodes  <-- SyncPath <-- MCSyncPath            SyncPath_proofs
AtomicFile <-- ContentWriter <-- MCContentWriter  ContentWriter_proofs
WorkList   <-- Watcher <-- MCWatcher              Agent_proofs
               Fsnotify <-- MCFsnotify            Fsnotify_proofs
Trees <-- Reflector <-- MCReflector               Trees_proofs, Reflector_proofs
Trees <-- InitialSync <-- MCInitialSync           InitialSync_proofs
Trees <-- SymlinkPoller <-- MCSymlinkPoller       SymlinkPoller_proofs
Overrides, Glob <-- Process                       Agent_proofs
```

The modules meet where one takes as a step, or as an assumption about its
environment, what another shows in detail:

* `SyncPath` takes `WriteAtomic` as one step, and `ContentWriter` shows call by
  call that this is what a reader sees.
* `SyncPath` has one flag `pending`, "the watcher holds a reason to reconcile
  this path". `Watcher` shows what that flag stands for: its `owed` path is
  `Held` by some queue, unless a full queue has dropped it. `WorkList` says this
  without queues, and `Watcher` implements it. `Fsnotify` and `SymlinkPoller`
  show when the kernel's events and the sweeps set it. A drop, or a deletion
  below a directory that is not watched yet, is the case in which the assumption
  fails until the path's next event or a restart.
* `Reflector` is the composition: trees on both sides, the set of due paths of
  `WorkList` in place of the queues (as long as none overflows), and one
  `Execute` in two steps: what the two `Stat` calls saw, then the rest as one
  operator, `Apply`. `SyncPath` has the calls between them one by one.
* `InitialSync` walks the same trees with the same two steps of `Execute`.
  `Watcher` has its place in the start-up.
* `Process` treats the watcher as a step that returns; `Watcher` says how.

### FileNodes

The entries of a tree, `NodeOf` (what `Lstat` says of one), `StatSource` (the
source's reader, which follows a link), `apply` (the configured mode and
owner), and `Wanted`: what the target must look like for a given source.
Contents are opaque values with a size; sizes matter because equal sizes are
what makes the code hash.

### SyncPath

`Execute` on one path. `pc` is the next port call, `src`, `old`, `srcHash` and
`body` are the locals; `source` and `tgt` are the two sides. One action per
port call, with the branch that follows it:

| Action | Code |
|---|---|
| `Execute`, `StatSourcePath`, `StatTargetPath` with `Decide` | `Execute` |
| `ReconcileAbsent`, `CoerceTargetKind` | `reconcileAbsent`, `coerceTargetKind` |
| `ReconcileKind`, `HashSource`, `HashTarget`, `OpenSource`, `WriteAtomic` | `reconcileFile`, `fileNeedsRewrite`, `contentIdentical`, `writeFile` |
| `MkdirCreate`, `MkdirExists`, `MkdirChmod`, `MkdirChown` | `makeDir`, `OSFS.Mkdir` |
| `MetadataChmod`, `MetadataChown` with `SyncMetadata`, `AfterMode` | `syncMetadata` |
| `CallFails` | the error return of each call |
| `EditSource`, `DriftTarget` | users, other writers |

An edit during `WriteAtomic` may deliver any content: a file that is rewritten
while it is copied can arrive as a mix of its versions. A symlink that drift
left in the target is followed by chmod, chown and open, as `os.Root` does.

### AtomicFile and ContentWriter

`AtomicFile` is the promise: the file at the path changes in one step, from
one whole version to another, and a failed write changes nothing.
`ContentWriter` is `OSFS.WriteAtomic` with one action per system call
(`CreateTemp`, `CopyChunk`, `CopyEnd`, `Sync`, `Close`, `Chmod`, `Chown`,
`Rename`), the deferred `Cleanup`, `Kill` and `PowerLoss` at any point, and the two
ways in which a leftover temporary file is found: by its event
(`SyncTempPath`) and by the first pass of the next start (`Restart`).
`Visible` is the refinement mapping: durability is not something a reader sees.

`base` is the version a power loss falls back to. The file system is external:
synced data survives, unsynced data may be cut at any point, and the rename
may or may not have reached the disk.

### Watcher

`Watcher.Run` and its goroutines. `run` is the program counter of the
consumer, `status`, `forwarder` and `merged` are the life of the goroutines,
`kernel`, `offer`, `channel`, `hand` and `retries` the places a path can be
in. One action per blocking operation:

| Goroutine | Actions |
|---|---|
| `Run`, `drain`, `handle` | `StartSource`, `StartFails`, `Visit`, `Visited`, `WalkFails`, `Merge`, `ReceiveEvent`, `ReceiveRetry`, `SeeCancellation`, `StreamClosed`, `Discard`, `Check`, `Skip`, `Reconcile`, `Reconciled`, `ReconcileFails` |
| an event source | `TakeUp` or `Sweep`, `Send`, `Stop` |
| a forwarder of `merge` | `Forward`, `Rendezvous` (for the poller's unbuffered channel), `ForwarderEnds` |
| the goroutine that closes the merged stream | `CloseMerged` |
| a retry timer | `TimerFires` |
| users, the kernel, the signal | `Change`, `Cancel` |

The check of `ctx.Err()` in `handle` and the call that follows it are two
steps, because the signal can come between them. `InitialSync` does not look
at the context, so `Visit` has no such guard. Retries of one path are not
merged: `timers` counts them. The order in which the sources are started is left
open. With a zero poll interval the container builds no poller, which is an
instance with one source less.

### WorkList

What all of this promises to the trees: a set `due`, and a consumer that serves
one due path at a time, in any order. A change or a failure makes a path due
(`Change`, `Fail`) or has it `dropped` by a full queue; `Drop` is a retry that
finds no room; a path that waits in two places stays due when it is served
(`Serve`); only an agent that stops throws anything away (`Discard`). In
`Watcher`, `ServesWorkList` maps `due` to the `Waiting` paths, those `Held`
somewhere, and `at` to the path whose reconciliation has begun: every hand-over
between goroutines is a stutter.

### Fsnotify

The recursive watch of one tree. `exists` is the tree, `watched` the watch
set, `kernel` the events inotify has queued. `adding` and `listing` are where
the walk of `addRecursive` is, `emitting` and `reading` where the walks of
`emitInitial` are (one goroutine per created directory, all of them together).
`Add`, `List`, `PassOver`, `AddVanished` and `AddRefused` are the outcomes of
one callback of the walk; `Take`, `Send` and `Extended` are `handleEvent`.
Users make, modify, unlink, move in and move out between any two of them.

`owed` and `shown` are history: what has changed since it was last reported,
and what a handler that looks at each reported path believes to exist.
External: the kernel reports an entry to the watch of its directory, and an
entry that goes away takes its watch along.

### Trees

Two directory trees as functions from paths to nodes: absent, a directory, a
link, or the content of a file. `Lstat` and `StatSource` are the reader's `Stat`
on both sides, with what is above the path: a link there is followed, a regular
file there is the error `NotDir`, which the code does not take for absence.
`Apply` is the rest of `SyncPath.Execute` after the two `Stat` calls,
branch by branch: `reconcileAbsent`, `coerceTargetKind` with its recursive
removal, `reconcileDir` with `Mkdir`'s missing parents, `reconcileFile` with
the content read at the time of the write (of the target, too, if the two stats
were of files of one size: with one content per size, of equal contents). Attributes are `SyncPath`'s
matter. `Interrupted` is what a failing call leaves instead: the tree as it was,
a removal at any point of its way (`Removals`: content goes before the directory
it is in), or only some of the directories that `Mkdir` makes from the top down.
`Linked` is what the poller adds: the links that lead to a changed path, or below
one. `Edits`, `MoveIns` and `MoveOuts` are what others do to a tree, each
with the paths the kernel reports for it.

### Reflector

`pending` holds the due paths; `Execute` takes one and reads both sides;
`Reconcile` applies what was read to the trees as they are by then; `CallFails`
leaves one of the `Interrupted` trees; `Restart` is a crash and the
first walk of the next start; `Repeat` makes a path due although nothing has
changed, as the poller does at every tick. `EditSource` adds the poller's naming
of links (`Linked`). Two constants limit the environment: `Swaps` (a directory takes
the place of another whose removal is still due) and `TargetMoves` (a
directory of the target is moved away); section 6 says what happens with them.

### InitialSync

`walkSource` and `cleanupTarget` with their recursion as a set `todo` of paths
listed and not visited, and `open`, the directories of the target to be returned
to after their content. One action per call of the code (`StatAgain`, `ReadDir`,
`Look`, `ReadTargetDir`), and two for each `SyncPath.Execute`, as in `Reflector`:
`Execute` and `RemoveUnvisited` keep what the two `Stat` calls saw in `want` and
`have`, `Reconcile` and `Removed` apply that to the trees as they are by then, so
that edits fall between any two. `view` is the source at the time of the stats;
only properties read it. `ExecuteFails` is a `SyncPath` that breaks off half-way,
which ends the walk. `changed` is history: the paths with an event since the
start, the links the poller will name included, which the watcher serves after
the walk.

An entry that the source gains after `Execute` has looked and before it removes
the mirror is removed all the same. `OnlyOrphansRemoved` is therefore about
`view`, and it is `Reconciled` that says that such a path has its event.

The environment has the same two limits as in `Reflector`, as constants: `Swaps`
(a directory of the source comes where another was moved away, while the target
has something below that no event names, or a running `Execute` is about to make
it) and `TargetMoves` (a directory of the target is moved away). The passing run has both FALSE, and so has the theorem
about `Reconciled`; section 6 says what happens with them. The other properties
do not depend on them.

### SymlinkPoller

`Run` with its ticker and `sweep` as a walk of entries listed with the kind
they had then. `SkipVanished` and `SkipUnreadable` are the error path of
the walk function, `SendLink` the rendezvous with the watcher, `StopSending`
the give-up after a cancellation. `dirty`, `steady`, `blind` and `named` are
history.

### Overrides, Glob and Process

`Overrides` follows a mode or an owner from the command line through `Parse`,
the container and `apply` to chmod and chown, with what those two keep of a
number. `Glob` has `NewGlob` and `Matches`; patterns and names are sequences of
characters, because the rules about slashes are. `filepath.Match` is external,
with `*` and `?` and the error of an open class. `Process` is `run` in `main`
with the getters of the container in the order in which `GetWatcher` comes
upon them: `Wiring` is that order, `GetRoot` opens a root once and hands the
same descriptor to every later user, `WiringFails` can happen at every getter.

## 3. The runs

| Run | Instance | Shows | Distinct states |
|---|---|---|---|
| `syncpath` | 8 source states, 5 target states, 3 contents (two of one size), `--file-mode` and `--owner`, links to a file and to a directory | `SuccessMirrors`, `NoLostWork`, `Idempotent`, `RemovalJustified`, `IndInv` (types in it), `Settles` | 127 461 |
| `contentwriter` | files of up to 2 pieces, 2 temporary names | `ReplacesAtomically` (refinement), `LitterTracked`, `LitterGoes`, `IndInv` | 89 976 |
| `watcher` | one fsnotify source, the poller, 2 paths, 2 changes, all other bounds 1 | `ServesWorkList` (refinement), `Accounted`, `CleanShutdown`, `NoLateWork`, `IndInv`, `Served`, `Stops` | 104 408 |
| `fsnotify` | a directory, its two subdirectories, a file in one; 3 watches for 4 directories; 3 changes | `NothingMissed`, `WatchesAll`, `Emitted`, types | 109 189 |
| `fsnotify_deep`, `fsnotify_deleted` | enough watches; 2 and 4 changes | counterexamples of `DeepEventsSeen` and `DeletionsSeen` | |
| `reflector` | a directory, an entry that can be a link to the file beside it, and that file's path, which is ignored | `NoLostWork`, `OnlyRepairs`, `IgnoredSpared`, `Converges`, `Quiesces`, types | 32 568 |
| `reflector_drift` | a directory and its entry, `TargetMoves` | a counterexample of `Converges` | |
| `reflector_ignored` | as `reflector` | a counterexample of `NeverTouched` | |
| `initialsync` | a directory, an ignored entry and an entry that can be a link to it, failing calls | `Reconciled`, `FailsOnlyRaced`, `OnlyOrphansRemoved`, `Ends` | 182 438 |
| `symlinkpoller` | a directory with an entry and an entry beside it; both entries can be links | `SweepComplete`, `ChangesNamed`, `Closes` | 14 414 |
| `process` | all combinations of the flags that stop or shape the start; modes below 2 and ids below 3 are valid, 3 and less are given; patterns of up to 3 characters of `a . * ? / [` against paths of 2 names of up to 3 characters | `ReleasesAll`, `RunsAsConfigured`, `ExitTells`, `Enforced`, `PruningIsIgnoring`, `PlumbingIgnored` | 20 777 |

Why the bounds are enough:

* In `SyncPath` edits, drift and failures are not bounded. The source states
  hold every kind, two files of one size, a file of another, a link to a file,
  to a directory and a broken one; the target states every kind with
  attributes that differ from the source in mode, uid or gid.
* In `ContentWriter` two pieces make a torn file possible and two names make
  a collision with a leftover possible. Writes, faults, kills and power losses
  are not bounded.
* In `Watcher` a queue of one element is full or empty; every drop happens.
  `MaxChanges` bounds the changes of the trees, `MaxTimers` the timers of one
  path, which nothing bounds in the code. The capacities (128 in the code) are
  constants, and the proofs hold for all of them. Safety was also explored with
  a kernel queue of 2, 3 changes and 2 timers (466 thousand states).
* In `Fsnotify` one watch is missing for the largest tree, so `AddRefused`
  happens; three changes are enough for a tree to be moved in, changed while
  it is walked, and partly removed.
* `Reflector`, `InitialSync` and `SymlinkPoller` bound only the shape of the
  trees: edits, drift, faults and restarts come without end. Two levels are the
  least at which an event of a directory and one of its content can overtake
  each other; what happens on deeper ones is the business of the proofs.
  `Reflector` was explored with a third level below the entry too (232 thousand
  states), and the safety of `InitialSync` with a third level (48 thousand,
  without links and ignored paths), with two contents (809 thousand), with
  `Swaps` and with `TargetMoves` (189 and 196 thousand: all but `Reconciled` hold).
* In `Process` a mode is too large, the largest valid one, or zero; an id is
  too large, the one that means "keep" to chown, an ordinary one, or zero.
  `MaxRoots` is one more descriptor per side than a correct start opens.

Deadlock is checked except in `initialsync` and `process`, where the walk and
the process end. `Terminated` of `Watcher` and `Waiting` of `Fsnotify` are the
states in which the process has ended or the loop has nothing to do; there is
no other stop.

Every property of a passing run has a slip: an operator beside the definition
it changes (`FailWithoutRetry`, `SyncSkipped`, `ForwarderLeaves`,
`ExtendedOnly`, ...), which is the code with one plausible mistake and
violates the property. `PROJECT.json` lists the pairs under "mutants".

## 4. Fairness

* `SyncPath`: weak fairness of `Step`. The consumer goroutine keeps running
  and a call returns. Faults, edits and drift are not fair; `Settles` assumes
  that they end (`<>[][Step]_vars`), nothing else.
* `ContentWriter`: weak fairness of the calls and of `Restart` (a supervisor
  starts the agent again), strong fairness of `SyncTempPath`: the event of a
  temporary name waits in a queue that the consumer serves between writes.
* `Watcher`: weak fairness per goroutine and per timer. Strong fairness of
  `ReceiveEvent`, `ReceiveRetry` and `SeeCancellation`: they are cases of one
  `select`, and Go picks among the ready cases at random. Strong fairness of
  `Sweep`, since a ticker and the walk get to every symlink again and again.
  `Cancel`, changes and failures are not fair.
* `Fsnotify`: weak fairness of the event loop and of the emitters. That
  somebody receives from the channel is what `Watcher` shows.

* `Reflector`: weak fairness of `Reconcile`, as in `SyncPath`; strong fairness
  of serving each due path, because a queue serves what waits in it although
  the path may become due again and again. `Converges` and `Quiesces` assume
  that everybody but the agent stops (`<>[][Agent]_vars`).
* `InitialSync`: weak fairness of the walk, which is one goroutine. `Ends` does
  not need the changes to stop, but it does need the trees to be of bounded
  depth, as those over a finite set of paths are: somebody who makes directories
  faster than the walk descends would keep it busy.
* `SymlinkPoller`: weak fairness of the ticker and of the walk, and of a send as
  long as nothing is cancelled (the watcher receives; afterwards it may be
  gone); strong fairness of `Close`, a case of the `select` that is ready each
  time the poller comes back from a sweep. `ChangesNamed` assumes that
  directories do not stay unreadable for ever.
* `Process`: none, its properties are invariants.

## 5. The proofs

`tlapm` checks the eight `_proofs` modules without a gap. They hold for every
value of the constants under the named assumptions of the modules: sets of
contents, modes, ids and paths of any size, any overrides, any number of
sources, any capacities, trees of any shape and depth.

| Theorem | States | Under |
|---|---|---|
| `SyncPath_proofs!TypeCorrect` | `Spec => []TypeOK` | |
| `SyncPath_proofs!SafetyInvariant` | `Spec => []IndInv` | |
| `SyncPath_proofs!ExecuteMirrors` | `Spec => []SuccessMirrors` | |
| `SyncPath_proofs!NothingForgotten` | `Spec => []NoLostWork` | |
| `SyncPath_proofs!NoSelfWakeup` | `Spec => []Idempotent` | |
| `SyncPath_proofs!RemovalsJustified` | `Spec => RemovalJustified` | |
| `ContentWriter_proofs!WriterInvariant` | `Spec => []IndInv` | |
| `ContentWriter_proofs!WriterRefines` | `Spec => ReplacesAtomically` | |
| `ContentWriter_proofs!LitterHasEvents` | `Spec => []LitterTracked` | |
| `Agent_proofs!WatcherInvariant` | `Spec => []IndInv` | |
| `Agent_proofs!TypeCorrect` | `Spec => []TypeOK` | |
| `Agent_proofs!NothingGoesAstray` | `Spec => []Accounted` | |
| `Agent_proofs!ShutdownJoins` | `Spec => []CleanShutdown` | |
| `Agent_proofs!OneLateCall` | `Spec => []NoLateWork` | |
| `Agent_proofs!NilMeansCancelled` | `Spec => [](run = "returned" /\ ~err => cancelled)` | some source |
| `Agent_proofs!WatcherServes` | `Spec => ServesWorkList` | |
| `Agent_proofs!ContainerInvariant` | `ProcessSpec => []ProcessInv` | |
| `Agent_proofs!DescriptorsReleased` | `ProcessSpec => []ReleasesAll` | |
| `Agent_proofs!WatcherConfigured` | `ProcessSpec => []RunsAsConfigured` | |
| `Agent_proofs!ExitCodesTell` | `ProcessSpec => []ExitTells` | |
| `Agent_proofs!FlagsEnforced` | `ProcessSpec => []Enforced` | |
| `Agent_proofs!PrunedIsIgnored` | `ProcessSpec => []PruningIsIgnoring` | |
| `Agent_proofs!PlumbingAlwaysIgnored` | `ProcessSpec => []PlumbingIgnored` | |
| `Fsnotify_proofs!TypeCorrect` | `Spec => []TypeOK` | |
| `Fsnotify_proofs!MissesNothing` | `Spec => []NothingMissed` | |
| `Fsnotify_proofs!CoversDirectories` | `Spec => []WatchesAll` | |
| `Reflector_proofs!TypeCorrect` | `Spec => []TypeOK` | |
| `Reflector_proofs!Repairs` | `Spec => OnlyRepairs` | `LeafLinks` |
| `Reflector_proofs!SparesIgnored` | `Spec => IgnoredSpared` | `LeafLinks` |
| `Reflector_proofs!NothingForgotten` | `Spec => []NoLostWork` | `LeafLinks`, `~Swaps`, `~TargetMoves` |
| `Reflector_proofs!RestIsMirrored` | `Spec => [](Due = {} => Mirrors)` | the same |
| `Reflector_proofs!EchoDies` | once the trees agree, a `Reconcile` that nobody raced with writes nothing and makes nothing due | `LeafLinks`, `~TargetMoves` |
| `InitialSync_proofs!WalkTypes` | `Spec => []TypeOK` | `LeafLinks` |
| `InitialSync_proofs!WalkReconciles` | `Spec => []Reconciled` | `LeafLinks`, `~Swaps`, `~TargetMoves` |
| `InitialSync_proofs!RemovesOrphansOnly` | `Spec => OnlyOrphansRemoved` | `LeafLinks` |
| `InitialSync_proofs!FailsForChangesOnly` | `Spec => []FailsOnlyRaced` | `LeafLinks` |
| `InitialSync_proofs!UndisturbedWalkMirrors` | with nothing `changed`, the walk does not fail by itself and leaves no difference | `LeafLinks` |
| `SymlinkPoller_proofs!SweepMissesNothing` | `Spec => []SweepComplete` | |

*SyncPath.* `SuccessMirrors` speaks of the end of a call only, so the invariant
says what each call relies on. `LocalsAgree` is what the locals say whatever
has happened since (a path that is written is a file in the source as far as
`Execute` knows). `Fresh` is what they say of the two sides as long as nobody
interfered. `Accounted` is why nothing is forgotten: a call that was
interfered with, or failed, has set `pending`. `StaysClean` is why a path in
sync is not written: only reading calls are made for it. `SeenAgrees` ties a
removal to a kind the source has really had. The lemmas `DecideFacts`,
`ReconcileKindFacts` and `SyncMetadataFacts` say which call the decisions of
the code lead to, and each action's step cites them.

*ContentWriter.* `TempAgrees` says how far each call has brought the temporary
file (the data delivered so far, then synced, then with its mode, then with its
owner), so that `Rename` installs a whole version; `PathDurable` that
only synced files are ever at the path, so that a power loss cannot cut one.
`AbstractStep` maps each action to a step of `AtomicFile` or a stutter.
`LitterInv` adds which temporary name is in use, whose event need not have come.

*Watcher.* `Phases` says which goroutines exist at each point of `Run`, `Joins`
that what is joined has ended and left nothing behind, `LastCall` that no
call has begun after the signal unless it was already decided on.
`Accounted` is inductive given these: every action that takes a path out of
one place puts it into the next, or into `lost`. `DoneStays` is the part of it
about a source that has closed. For the refinement, `MovesKeepHeld` says that
the steps that hand a path on keep what is `Held`, and each other step is one
action of `WorkList`: `ChangeIsChange` needs `Phases` (a source that is not
running has not started, and then everything is still to be visited, or the
context is done), `BeginsService` and `EndsService` that `at` is set exactly
while a path is in work, `StopDiscards` that whatever throws a path away runs
under a context that is done. `NilMeansCancelled` is what `Process` assumes of
the watcher in `WatcherStops`.

*Process.* It shares its proof module with the orchestrator, hence `ProcessInit`
and `ProcessSpec`. `ProcessInv` is its type, `OneRoot` (every use of a side is of
its cached root, and no other descriptor was opened), `Pristine` (nothing is
built before the wiring) and `Built`: what the getters called so far have built
and those still to be called add up to `Wiring`, so that the watcher runs with
all of it. `Enforced` does not depend on the state: `ModeFacts` and `OwnerFacts`
say what an accepted flag becomes, `AppliedIsPromised` that chmod and chown
make it so, and `SyncIsIdempotent` that a second reconciliation finds nothing to
do, for every width of modes and ids. The pattern properties rest on `SubPath`
(the path cut off after some name) and `PlumbingMatches`, with patterns and names
up to any `MaxName` and `MaxDepth`; `Match` quantifies over the ways to cut a
name, and a witness is enough.

*Fsnotify.* At rest nothing is under way, so the invariant says what is under
way for whatever is not watched or not reported yet. `WatchedSoon`: every
directory has a watch, or something above it is about to be visited or listed
by the walk, or has its create event queued. `OwedReported`: every change of
what exists has its event queued or being handled, or something above it is
about to be emitted or listed by an emitter, or has its create event queued.
`Closed`, that what exists is below what exists, is why an unlink disturbs
neither. Both stop at a walk that gave up, as the two properties do.

*Trees.* `Trees_proofs` has lemmas only. `StatFacts` and `WantedFacts` say what
is read through links, `SourceEdits` that an edit of the source names every path
at which something else is wanted now, itself or by a directory above it that went
away. `ApplyCases` lists the ways in which `Apply` can end, `ApplyAtOnce` says
what it leaves of each path when nothing has come between reading and writing,
`ApplySucceeds` when it cannot fail, `InterruptedFacts` what a failing call leaves.
`Leaves` is what a path can be after an `Execute` that others came between, and
`ApplyLeaves` and `InterruptedLeaves` say that it is: `Reflector` and `InitialSync`
both rest on them. `EditsFacts` bounds what others do.

`LeafLinks` says that no path is below one where the source can have a link: links
to files, broken links, and links to directories that are not entered. It is the
limit of the code and not of the prover: below a path that can be a link to a
directory, a write of the agent goes by what is read through the link, and section 6
says how `Converges` and `Quiesces` fail there. Types hold without it.

*Reflector.* `CallKnown` (what `Execute` has read of the source is what the
source held when it began) suffices for `OnlyRepairs` and `IgnoredSpared`. For
`NoLostWork` there is `Fresh`: what was read of a path still holds, or the path
is due again, or it is a leftover of a directory above it that is due and is no
directory any more. The last case is where events of a directory stand in for
those of its content, and the one that `Swaps` would break. `EchoDies` is the
safety half of `Quiesces`: a call with no path due at or above its own has read
what holds now (`Unraced`), so that between trees that agree it has nothing to do.

*InitialSync.* `Settled` is a path that agrees or has an event to see to it (or
was met by a change in an instance with `Swaps` or `TargetMoves`, where that is
all there is to say),
`Ahead` one the walk is still going to meet: during the source walk because
something on the way to it is listed or at work, during the cleanup because it
is open or listed. Each step keeps every path in one of the two; at the end
nothing is ahead. `CallInv` is what the two looks of a running `Execute` still
mean when it writes: what was read of the source is what `view` has, the directories
it is going to make are accounted for (`MadeKept`), and what was read of a path
holds unless an event has come for it (`ViewKept`, `HaveKept`, `HaveFresh`).
`CallSettles` draws from it what the write leaves. For `FailsOnlyRaced` `OnCourse`
says that, unless a change has met the path, what was listed is there and the
directories above it are there in the target, so that neither a read nor `Apply`
fails.

*SymlinkPoller.* `Reachable`: a link that stays where it is has been named, is
listed, is below something listed as a directory, or below one that could not
be listed.

Model-checked only:

* the liveness properties (`Settles`, `LitterGoes`, `Served`, `Stops`,
  `Emitted`, `Converges`, `Quiesces`, `Ends`, `ChangesNamed`, `Closes`), which
  are beyond the prover. Every safety property of a passing run is a theorem.

Not shown either way: `Reflector` and `InitialSync` with paths below a path that
can be a link (without `LeafLinks`), beyond their types.

## 6. Where the code and its documents disagree

* `fsnotify_deep`. New directories are watched "so events deep in the tree are
  not missed", and an entry that vanishes during the walk is "a normal race
  [...] not a failure". `addRecursive` tolerates it when `WalkDir` reports it,
  but not when `fsw.Add` does: a listed subdirectory that vanishes ends the
  walk, and its remaining siblings stay unwatched. `emitInitial` still reports
  what is in them then, but not what changes later.
* `fsnotify_deleted`. DESIGN.md says that a change made while the trees are
  walked is "captured and replayed afterwards rather than lost". A directory
  that appears after the first `addRecursive` listed its parent is copied by
  the initial reconciliation, but has no watch until `handleEvent` has sent
  its event and walked it. What is removed from it before that is reported by
  nobody.

* `reflector_drift`. README.md says that manual drift in the target "is
  corrected back to the source". A directory that is moved out of the target
  reports itself and none of its entries; `emitInitial` walks it in the target,
  where it is gone. `Execute` puts an empty directory there, and its content
  stays away until its next event in the source or a restart.
* `reflector_ignored`. README.md says that an ignored path "is never created,
  modified, nor deleted". It goes with a directory above it that the source no
  longer has, because `Remove` is recursive; this is the run's counterexample.
  And a pattern with a slash matches a directory and not what is below it, so
  that `Mkdir` makes the ignored directory for an event of its content.
  `IgnoredSpared` says that these two are all, and `PruningIsIgnoring` which
  paths the second is about.

`NothingMissed` and `WatchesAll` are what is left: they hold for everything
that still exists, unless a walk has given up.

Other limits of the code met while modelling, each where a property had to
name it:

* A directory of the source that is moved away and replaced by another one
  before its event is served: the first one's content was never reported, the
  path is a directory again when `Execute` looks, and the leftovers of the first
  stay in the target. With `Swaps` TRUE the trees need not converge, and
  `NoLostWork` fails; the passing run and the proof have it FALSE. The first walk
  does not make up for it: when `d` and `d/x` have been visited, `d` is moved out and
  a new `d` without `x` comes, `d/x` is in `visited`, is kept, and no event names
  it, although DESIGN.md:72 has what changes during the walk "captured and
  replayed afterwards rather than lost". With `Swaps` TRUE `Reconciled` fails in
  `InitialSync` in this way, and with `TargetMoves` TRUE in that of
  `reflector_drift`: a visited directory of the target is moved out of it.
* The comment of `Run` (watcher.go:86) says "On return every source goroutine has
  stopped". That holds for a nil return (`CleanShutdown`). When a source fails to
  start or the initial sync fails, `Run` returns without joining the sources it
  has started; the deferred `cancel` only asks them to stop, and the caller may
  close the roots under them meanwhile. `Stops` says that they do stop.
* A directory of the source that was replaced by a link to a directory: `Stat` of
  the link says "absent", so that its leftover in the target is removed; the
  events of that removal name paths below it, which resolve through the link.
  For a directory there `Mkdir` makes the leftover again, whose event removes it
  again, and so on for ever (`Converges` fails); for a file the write has no
  parent and is retried for ever (`Quiesces` fails). `reflector` has links to
  files only.
* `Lstat` below a path that has become a regular file fails with ENOTDIR, which
  `os.IsNotExist` does not cover. `Execute` fails and is retried until the
  directory is back or the file is gone: `Quiesces` excepts these paths.
* The first walk returns an error when a directory vanishes, or becomes something
  else, between `Stat` and `ReadDir`, and the process exits. `FailsOnlyRaced`
  says that nothing but such a change (or a failing call) does it.
* `--owner` accepts 4294967295, which chown takes for "keep". `Enforced` and
  `FlagsEnforced` except that id, in both of their parts.

## 7. What is outside the models

* The file system and the kernel are modelled from how the code uses them:
  `os.Root`, `os.Rename`, `fsync`, inotify. In particular a power loss keeps
  the order of renames, and moving a directory out of a tree ends the watches
  below it.
* `Fsnotify.loop` also ends when fsnotify closes its channels, which only its
  own `Close` does. Errors on `fsw.Errors` are logged; the overflow they report
  is in `Watcher`.
* Entries that are no file, directory or symlink. `Stat` reports a FIFO as a
  regular file, and opening one would block; the models assume that every call
  returns.
* Links in the target's directories, and links that lead to links, at the level
  of trees. `SyncPath` has a link at the path itself, on both sides.
* In `InitialSync` and `Reflector`, edits between the calls of one `Execute`
  after its two `Stat`s; `SyncPath` has those, for one path.
* The order in which a walk visits siblings (by name in the code) is left open.
* `filepath.Match` beyond `*`, `?` and the refusal of an open class; no class
  and no escape.
* The syntax of flags, which is the flag library's; the texts of errors and of
  usage; the logger; the generated mocks and the port interfaces, which have no
  behaviour.

## 8. The plan

Done, in this order: `FileNodes`, `SyncPath` and its proofs, `AtomicFile` and
`ContentWriter` and their proofs, `Watcher` and its proofs, `Fsnotify`; then
`Trees` and `Reflector`, `InitialSync`, `SymlinkPoller`, `Overrides`, `Glob`
and `Process`, and the proofs of `Trees`, `Reflector`, `Fsnotify`,
`SymlinkPoller` and `InitialSync`; then the proofs of `Process`, links in the
proofs about trees, calls that fail half-way, and `WorkList`, which `Watcher`
implements.

What could still be added:

* `Reflector` composed with `WorkList` by INSTANCE, drops included: what a full
  queue leaves out of step stays so until the path's next event or a restart.
* What does hold below a link to a directory.
* Special files, once the reader tells them apart.
