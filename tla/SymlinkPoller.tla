--------------------------- MODULE SymlinkPoller ---------------------------
(***************************************************************************)
(* The symlink poller: on every tick it walks the source and sends the     *)
(* path of each link to the watcher, over an unbuffered channel, while     *)
(* users go on changing the tree and what is behind the links.             *)
(*                                                                         *)
(* WalkDir visits what a listing named, with the kind the listing said;    *)
(* siblings are visited in any order here.                                 *)
(***************************************************************************)
EXTENDS Trees

CONSTANTS
    Root,
    Interval   \* the poll interval; 0 disables polling

ASSUME PollerAssumption == Root \notin Paths /\ Interval \in Nat

VARIABLES
    source,
    pc,         \* waiting for a tick, in a sweep, or with the channel closed
    tick,       \* the ticker's channel, of capacity 1
    todo,       \* the entries listed and not visited: paths with their kinds
    cancelled,
    dirty,      \* the links behind which something changed that was not named since
    \* History of the sweep, read by the properties only.
    steady,     \* the links that were there all through it
    blind,      \* the directories it could not list
    named       \* the links it has sent

world   == <<source, dirty>>
history == <<steady, blind, named>>
vars    == <<source, pc, tick, todo, cancelled, dirty, steady, blind, named>>

Links(t) == {p \in Paths : t[p] = Link}

TypeOK ==
    /\ source \in Tree
    /\ pc \in {"waiting", "sweeping", "closed"}
    /\ tick \in BOOLEAN /\ cancelled \in BOOLEAN
    /\ todo \subseteq ((Paths \cup {Root}) \X Nodes)
    /\ dirty \subseteq Links(source)
    /\ steady \subseteq Links(source) /\ blind \subseteq Paths \cup {Root} /\ named \subseteq Paths

Init ==
    /\ source \in Tree
    /\ pc = IF Interval = 0 THEN "closed" ELSE "waiting"
    /\ tick = FALSE /\ todo = {} /\ cancelled = FALSE
    /\ dirty = {} /\ steady = {} /\ blind = {} /\ named = {}

(***************************************************************************)
(* Run.                                                                    *)
(***************************************************************************)
Tick ==
    /\ pc # "closed" /\ ~tick
    /\ tick' = TRUE
    /\ UNCHANGED <<world, pc, todo, cancelled, history>>

\* Slip: a sweep goes on where the last one stopped.
StartSweepFromRest ==
    /\ pc = "waiting" /\ tick
    /\ tick' = FALSE
    /\ pc' = "sweeping"
    /\ todo' = IF named = {} THEN {<<Root, Dir>>} ELSE {<<q, source[q]>> : q \in named}
    /\ steady' = Links(source) /\ blind' = {} /\ named' = named
    /\ UNCHANGED <<world, cancelled>>

StartSweep ==
    /\ pc = "waiting" /\ tick
    /\ tick' = FALSE
    /\ pc' = "sweeping"
    /\ todo' = {<<Root, Dir>>}
    /\ steady' = Links(source) /\ blind' = {} /\ named' = {}
    /\ UNCHANGED <<world, cancelled>>

Close ==
    /\ pc = "waiting" /\ cancelled
    /\ pc' = "closed"
    /\ UNCHANGED <<world, tick, todo, cancelled, history>>

(***************************************************************************)
(* sweep.                                                                  *)
(***************************************************************************)
\* An ignored entry is neither sent nor descended into; other kinds are passed.
Pass ==
    /\ pc = "sweeping"
    /\ \E entry \in todo :
         /\ entry[1] \in Ignored \/ entry[2] \notin {Dir, Link}
         /\ todo' = todo \ {entry}
    /\ UNCHANGED <<world, pc, tick, cancelled, history>>

Descend ==
    /\ pc = "sweeping"
    /\ \E entry \in todo :
         LET p == entry[1]
             children == IF p = Root THEN Tops ELSE Children(p)
         IN  /\ p \notin Ignored /\ entry[2] = Dir
             /\ p # Root => source[p] = Dir
             /\ todo' = (todo \ {entry})
                        \cup {<<q, source[q]>> : q \in {c \in children : source[c] # Absent}}
    /\ UNCHANGED <<world, pc, tick, cancelled, history>>

\* Slip: what cannot be listed ends the sweep.
AbortUnreadable ==
    /\ pc = "sweeping"
    /\ \E entry \in todo :
         /\ entry[1] \notin Ignored /\ entry[2] = Dir
         /\ todo' = {}
         /\ blind' = blind \cup {entry[1]}
    /\ UNCHANGED <<world, pc, tick, cancelled, steady, named>>

\* It has vanished since it was listed, or become something else.
SkipVanished ==
    /\ pc = "sweeping"
    /\ \E entry \in todo :
         /\ entry[1] \in Paths \ Ignored /\ entry[2] = Dir
         /\ source[entry[1]] # Dir
         /\ todo' = todo \ {entry}
    /\ UNCHANGED <<world, pc, tick, cancelled, history>>

SkipUnreadable ==
    /\ pc = "sweeping"
    /\ \E entry \in todo :
         /\ entry[1] \notin Ignored /\ entry[2] = Dir
         /\ todo' = todo \ {entry}
         /\ blind' = blind \cup {entry[1]}
    /\ UNCHANGED <<world, pc, tick, cancelled, steady, named>>

\* The watcher receives the path, and reconciles it some time after.
SendLink ==
    /\ pc = "sweeping"
    /\ \E entry \in todo :
         /\ entry[1] \notin Ignored /\ entry[2] = Link
         /\ todo' = todo \ {entry}
         /\ named' = named \cup {entry[1]}
         /\ dirty' = dirty \ {entry[1]}
    /\ UNCHANGED <<source, pc, tick, cancelled, steady, blind>>

\* Slip: a plain send, which waits for the watcher to receive.
StopSendingOnlySent ==
    /\ pc = "sweeping" /\ cancelled /\ todo = {}
    /\ UNCHANGED vars

\* The send is given up: SkipAll.
StopSending ==
    /\ pc = "sweeping" /\ cancelled
    /\ \E entry \in todo : entry[1] \notin Ignored /\ entry[2] = Link
    /\ todo' = {}
    /\ UNCHANGED <<world, pc, tick, cancelled, history>>

EndSweep ==
    /\ pc = "sweeping" /\ todo = {}
    /\ pc' = "waiting"
    /\ UNCHANGED <<world, tick, todo, cancelled, history>>

Walk == StartSweep \/ Pass \/ Descend \/ SkipVanished \/ EndSweep

(***************************************************************************)
(* Everybody else.                                                         *)
(***************************************************************************)
Cancel ==
    /\ ~cancelled
    /\ cancelled' = TRUE
    /\ UNCHANGED <<world, pc, tick, todo, history>>

ChangeBehind ==
    /\ \E p \in Links(source) : dirty' = dirty \cup {p}
    /\ UNCHANGED <<source, pc, tick, todo, cancelled, history>>

EditSource ==
    /\ \E step \in Edits(source) \cup MoveOuts(source) :
         /\ source' = step[1]
         /\ dirty' = dirty \cap Links(step[1])
         /\ steady' = steady \cap Links(step[1])
    /\ UNCHANGED <<pc, tick, todo, cancelled, blind, named>>

Next ==
    \/ Tick \/ Walk \/ SendLink \/ Close \/ SkipUnreadable \/ StopSending
    \/ Cancel \/ ChangeBehind \/ EditSource

\* The goroutine runs, the ticker ticks, and the watcher receives as long as
\* nothing was cancelled; after that it may have returned.
Spec ==
    /\ Init /\ [][Next]_vars
    /\ WF_vars(Tick) /\ WF_vars(Walk \/ (~cancelled /\ SendLink) \/ StopSending)
    /\ SF_vars(Close)

(***************************************************************************)
(* Properties.                                                             *)
(***************************************************************************)

\* A sweep names every link that was there all through it, wherever it is and
\* whatever came and went around it, except below a directory that could not be
\* listed and unless the agent was asked to stop.
SweepComplete ==
    pc = "sweeping" /\ todo = {} /\ ~cancelled =>
      \A p \in steady \cap Covered :
        p \in named \/ ({Root} \cup Above[p]) \cap blind # {}

\* A change behind a link is told in the end, by naming the link, unless
\* directories stay unreadable for ever.
ChangesNamed ==
    \A p \in Covered :
      (<>[][~SkipUnreadable]_vars) =>
        (p \in dirty ~> (p \notin dirty \/ cancelled))

\* The channel is closed after the cancellation, whatever the poller was doing.
Closes == Interval # 0 => (cancelled ~> pc = "closed")
=============================================================================
