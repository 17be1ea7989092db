------------------------------ MODULE Fsnotify ------------------------------
(***************************************************************************)
(* The recursive watch of one tree.  inotify watches single directories,   *)
(* so the event loop has to put a watch on every directory that appears    *)
(* and to report by itself what was in it before the watch was there.      *)
(* Users go on changing the tree while it walks.                           *)
(*                                                                         *)
(* A path is owed from the moment it changes until an event of it is       *)
(* emitted: whoever handles the event looks at the path after that.        *)
(* Channels and cancellation are in module Watcher; what is emitted here   *)
(* goes to its source's channel.                                           *)
(***************************************************************************)
EXTENDS Naturals, Sequences, FiniteSets

CONSTANTS
    Dirs, Files,  \* the directories and files the tree can hold, below its root
    Root,
    Parent,       \* the directory each of them is in
    Above,        \* the directories above each of them, without the root
    Start,        \* the trees the agent can find when it starts
    Moved,        \* the trees users move in from outside
    MaxWatches,   \* how many watches the kernel grants
    MaxChanges    \* bound: changes of the tree

Entries == Dirs \cup Files

Lineage(p) == {p} \cup Above[p]
Below(p)   == {q \in Entries : p \in Lineage(q)}

ASSUME KindsAssumption == Dirs \cap Files = {} /\ Root \notin Entries
ASSUME BoundAssumption == MaxWatches \in Nat /\ MaxChanges \in Nat

\* The directories above an entry form a chain from the root down to it.
ASSUME ParentAssumption ==
    /\ Parent \in [Entries -> Dirs \cup {Root}]
    /\ Above \in [Entries -> SUBSET Dirs]
    /\ \A p \in Entries :
         /\ p \notin Above[p]
         /\ Above[p] = IF Parent[p] = Root THEN {} ELSE Lineage(Parent[p])
         /\ \A a \in Above[p] : Above[a] \subseteq Above[p]
         /\ \A a, b \in Above[p] : a \in Lineage(b) \/ b \in Above[a]
         /\ \A a \in {Root} \cup Above[p] : \E c \in Lineage(p) : Parent[c] = a

\* A tree has what is above its entries; a directory that is moved in, what is between.
ASSUME TreesAssumption ==
    /\ Start \subseteq SUBSET Entries /\ Moved \subseteq SUBSET Entries
    /\ \A t \in Start : \A p \in t : Above[p] \subseteq t
    /\ \A t \in Moved : \A p, q \in t : \A a \in Above[q] : p \in Above[a] => a \in t

VARIABLES
    exists,    \* the entries of the tree
    watched,   \* the directories with an inotify watch
    kernel,    \* the events that wait in fsw.Events
    pc,        \* where Run, and after it loop, is
    event,     \* the event loop is handling
    adding,    \* addRecursive: entries its walk is about to visit
    listing,   \* addRecursive: directories it has added and not listed
    emitting,  \* emitInitial, all its goroutines: entries they are about to emit
    reading,   \* emitInitial, all its goroutines: directories they have not listed
    \* History, read by the properties only.
    owed,      \* changed, and no event of it emitted since
    shown,     \* what a handler that looks at each emitted path holds for existing
    gaveUp,    \* an addRecursive has ended before it had visited everything
    changes    \* how many changes the tree has seen

walk  == <<adding, listing>>
emit  == <<emitting, reading>>
ghost == <<owed, shown, gaveUp, changes>>
vars  == <<exists, watched, kernel, pc, event, adding, listing, emitting, reading,
           owed, shown, gaveUp, changes>>

Event == [create : BOOLEAN, path : Entries]

TypeOK ==
    /\ exists \subseteq Entries /\ owed \subseteq Entries /\ shown \subseteq Entries
    /\ watched \subseteq Dirs \cup {Root}
    /\ kernel \in Seq(Event)
    /\ pc \in {"starting", "selecting", "sending", "extending", "failed"}
    /\ event \in Event
    /\ adding \subseteq Entries \cup {Root} /\ emitting \subseteq Entries
    /\ listing \subseteq Dirs \cup {Root} /\ reading \subseteq Dirs \cup {Root}
    /\ gaveUp \in BOOLEAN /\ changes \in Nat

\* Run: the walk over the whole tree is the first thing that happens.
Init ==
    /\ exists \in Start
    /\ watched = {} /\ kernel = <<>>
    /\ pc = "starting" /\ event \in Event
    /\ adding = {Root} /\ listing = {}
    /\ emitting = {} /\ reading = {}
    /\ owed = {} /\ shown = {} /\ gaveUp = FALSE /\ changes = 0

Present(p)  == p = Root \/ p \in exists
Children(d) == {p \in exists : Parent[p] = d}

(***************************************************************************)
(* Users.  The kernel reports an entry to the watch of its directory.      *)
(***************************************************************************)
Report(create, p) ==
    kernel' = IF Parent[p] \in watched
              THEN Append(kernel, [create |-> create, path |-> p])
              ELSE kernel

\* Once Run has returned an error nobody relies on the watch.
Touch(changed) ==
    /\ pc # "failed"
    /\ changes < MaxChanges
    /\ changes' = changes + 1
    /\ owed' = owed \cup changed
    /\ UNCHANGED <<pc, event, walk, emit, shown, gaveUp>>

Make(p) ==
    /\ p \notin exists /\ Present(Parent[p])
    /\ exists' = exists \cup {p}
    /\ Report(TRUE, p)
    /\ Touch({p})
    /\ UNCHANGED watched

Modify(p) ==
    /\ p \in exists
    /\ Report(FALSE, p)
    /\ Touch({p})
    /\ UNCHANGED <<exists, watched>>

\* A file, or an empty directory, whose watch goes with it.
Unlink(p) ==
    /\ p \in exists /\ Children(p) = {}
    /\ exists' = exists \ {p}
    /\ watched' = watched \ {p}
    /\ Report(FALSE, p)
    /\ Touch({p})

\* A whole directory appears by one rename: one event, for its top.
MoveIn(p, tree) ==
    /\ p \in Dirs /\ p \notin exists /\ Present(Parent[p])
    /\ p \in tree /\ tree \subseteq Below(p)
    /\ exists' = exists \cup tree
    /\ Report(TRUE, p)
    /\ Touch(tree)
    /\ UNCHANGED watched

\* A whole directory leaves the tree by one rename, and its watches with it.
MoveOut(p) ==
    /\ p \in Dirs \cap exists
    /\ exists' = exists \ Below(p)
    /\ watched' = watched \ Below(p)
    /\ Report(FALSE, p)
    /\ Touch({p})

(***************************************************************************)
(* addRecursive: WalkDir calls back for an entry, which adds a watch to a  *)
(* directory, and lists the directory after that.                          *)
(***************************************************************************)
Walking == pc \in {"starting", "extending"}

\* Slip: whatever the walk visits is watched.
AddAnything(p) ==
    /\ Walking
    /\ p \in adding /\ Present(p)
    /\ p \in watched \/ Cardinality(watched) < MaxWatches
    /\ watched' = watched \cup {p}
    /\ adding' = adding \ {p}
    /\ listing' = listing \cup ({p} \ Files)
    /\ UNCHANGED <<exists, kernel, pc, event, emit, ghost>>

\* Slip: the walk does not descend into what it adds.
AddShallow(p) ==
    /\ Walking
    /\ p \in adding \cap (Dirs \cup {Root}) /\ Present(p)
    /\ p \in watched \/ Cardinality(watched) < MaxWatches
    /\ watched' = watched \cup {p}
    /\ adding' = adding \ {p}
    /\ UNCHANGED <<exists, kernel, pc, event, listing, emit, ghost>>

Add(p) ==
    /\ Walking
    /\ p \in adding \cap (Dirs \cup {Root}) /\ Present(p)
    /\ p \in watched \/ Cardinality(watched) < MaxWatches
    /\ watched' = watched \cup {p}
    /\ adding' = adding \ {p}
    /\ listing' = listing \cup {p}
    /\ UNCHANGED <<exists, kernel, pc, event, emit, ghost>>

\* WalkDir tolerates that a directory vanishes before it is listed.
List(p) ==
    /\ Walking
    /\ p \in listing
    /\ listing' = listing \ {p}
    /\ adding' = adding \cup Children(p)
    /\ UNCHANGED <<exists, watched, kernel, pc, event, emit, ghost>>

\* Files are passed over, and so is a root of the walk that has vanished.
PassOver(p) ==
    /\ Walking
    /\ p \in adding
    /\ p \in Files \/ (p \in Dirs /\ ~Present(p) /\ pc = "extending" /\ p = event.path)
    /\ adding' = adding \ {p}
    /\ UNCHANGED <<exists, watched, kernel, pc, event, listing, emit, ghost>>

\* fsw.Add fails, and its error ends the walk.
GiveUp ==
    /\ adding' = {} /\ listing' = {}
    /\ gaveUp' = TRUE
    /\ pc' = IF pc = "starting" THEN "failed" ELSE pc
    /\ UNCHANGED <<exists, watched, kernel, event, emit, owed, shown, changes>>

\* The directory vanished after it was listed.
AddVanished(p) ==
    /\ Walking
    /\ p \in adding \cap Dirs /\ ~Present(p)
    /\ GiveUp

\* The kernel has no watch left.
AddRefused(p) ==
    /\ Walking
    /\ p \in adding \cap (Dirs \cup {Root}) /\ p \notin watched
    /\ Cardinality(watched) >= MaxWatches
    /\ GiveUp

\* Run returns the channel.  The first reconciliation begins after that and sees
\* every change made so far.
Started ==
    /\ pc = "starting"
    /\ adding = {} /\ listing = {}
    /\ pc' = "selecting"
    /\ owed' = {} /\ shown' = exists
    /\ UNCHANGED <<exists, watched, kernel, event, walk, emit, gaveUp, changes>>

(***************************************************************************)
(* loop and handleEvent.                                                   *)
(***************************************************************************)
\* An event of p leaves the source.  Its handler looks at p: a path that is gone
\* takes everything below it along.
Tell(p) ==
    /\ owed' = owed \ {p}
    /\ shown' = IF p \in exists THEN shown \cup {p} ELSE shown \ Below(p)
    /\ UNCHANGED <<gaveUp, changes>>

Take ==
    /\ pc = "selecting"
    /\ kernel # <<>>
    /\ event' = Head(kernel)
    /\ kernel' = Tail(kernel)
    /\ pc' = "sending"
    /\ UNCHANGED <<exists, watched, walk, emit, ghost>>

Send ==
    /\ pc = "sending"
    /\ Tell(event.path)
    /\ \/ /\ event.create
          /\ pc' = "extending"
          /\ adding' = {event.path}
       \/ /\ ~event.create
          /\ pc' = "selecting"
          /\ UNCHANGED adding
    /\ UNCHANGED <<exists, watched, kernel, event, listing, emit>>

\* Slip: no goroutine for what was in the directory before.
ExtendedOnly ==
    /\ pc = "extending"
    /\ adding = {} /\ listing = {}
    /\ pc' = "selecting"
    /\ UNCHANGED <<exists, watched, kernel, event, walk, emit, ghost>>

\* addRecursive has returned, with an error or not: emitInitial gets a goroutine.
Extended ==
    /\ pc = "extending"
    /\ adding = {} /\ listing = {}
    /\ reading' = reading \cup ({event.path} \cap Dirs)
    /\ pc' = "selecting"
    /\ UNCHANGED <<exists, watched, kernel, event, walk, emitting, ghost>>

(***************************************************************************)
(* emitInitial, in goroutines of its own.                                  *)
(***************************************************************************)
ReadDir(p) ==
    /\ p \in reading
    /\ reading' = reading \ {p}
    /\ emitting' = emitting \cup Children(p)
    /\ UNCHANGED <<exists, watched, kernel, pc, event, walk, ghost>>

Emit(p) ==
    /\ p \in emitting
    /\ emitting' = emitting \ {p}
    /\ reading' = reading \cup ({p} \cap Dirs)
    /\ Tell(p)
    /\ UNCHANGED <<exists, watched, kernel, pc, event, walk>>

AddStep  == \E p \in Entries \cup {Root} : Add(p) \/ List(p) \/ PassOver(p)
                                          \/ AddVanished(p) \/ AddRefused(p)
LoopStep == AddStep \/ Started \/ Take \/ Send \/ Extended
EmitStep == \E p \in Entries : ReadDir(p) \/ Emit(p)

User ==
    \E p \in Entries : \/ Make(p) \/ Modify(p) \/ Unlink(p) \/ MoveOut(p)
                       \/ \E tree \in Moved : MoveIn(p, tree)

\* With the tree at rest and nothing to report the goroutines wait.
Waiting ==
    /\ pc = "failed" \/ (pc = "selecting" /\ kernel = <<>> /\ emitting = {} /\ reading = {})
    /\ UNCHANGED vars

Next ==
    \/ LoopStep \/ EmitStep \/ User \/ Waiting

\* The loop and the emitters are scheduled, and somebody receives what they send.
Spec == Init /\ [][Next]_vars /\ WF_vars(LoopStep) /\ WF_vars(EmitStep)

(***************************************************************************)
(* Properties.                                                             *)
(***************************************************************************)
Quiet == pc = "selecting" /\ kernel = <<>> /\ emitting = {} /\ reading = {}

\* When the source has nothing left to do, every change since the start has been
\* emitted, whatever was created, moved in or removed while it was walking.
NothingMissed == Quiet /\ ~gaveUp => owed \cap exists = {}

\* ... and every directory is watched, so that later changes will be.
WatchesAll == Quiet /\ ~gaveUp => Dirs \cap exists \subseteq watched

\* Every change of what exists is emitted in the end, unless an addRecursive gave up.
Emitted == \A p \in Entries : p \in owed ~> p \notin owed \cap exists \/ gaveUp

\* The comment of Fsnotify: "adding new subdirectories to the watch set as soon as
\* they appear so events deep in the tree are not missed".  A directory that vanishes
\* while addRecursive walks takes the watches of its siblings with it.
DeepEventsSeen == Quiet => Dirs \cap exists \subseteq watched

\* DESIGN.md: "a change that happens while the trees are being walked is captured
\* and replayed afterwards rather than lost".  What a reconciliation has seen in a
\* new directory and is removed before that has its watch is never reported as gone.
DeletionsSeen == Quiet /\ ~gaveUp => shown \subseteq exists
=============================================================================
