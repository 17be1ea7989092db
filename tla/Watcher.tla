------------------------------- MODULE Watcher -------------------------------
(***************************************************************************)
(* The orchestrator: Watcher.Run with the goroutines it hangs off its      *)
(* context.  Every event source is a goroutine that feeds a channel, every *)
(* channel has a forwarder that copies it into the merged stream, failed   *)
(* paths come back from timers through the retries channel, and one        *)
(* consumer reconciles path after path.                                    *)
(*                                                                         *)
(* A path is owed from the moment it changes until a reconciliation of it  *)
(* begins, and again when that one fails: it is the pending of SyncPath.   *)
(* Channels carry the reasons to reconcile; the module is about none of    *)
(* them going astray between a change and the consumer, and about the      *)
(* order in which everything stops.                                        *)
(***************************************************************************)
EXTENDS Integers, Sequences

CONSTANTS
    Sources,      \* the event sources
    Paths,        \* relative paths
    Nothing,      \* no path
    Watches,      \* the paths of a source's tree whose changes the kernel reports to it
    Sweeps,       \* the paths a source reports by itself, at every tick
    Buffer,       \* the capacity of a source's channel
    KernelQueue,  \* the events the kernel holds for one source
    RetryBuffer,  \* retryBuffer
    MaxChanges,   \* bound: changes of the trees
    MaxTimers     \* bound: timers running for one path

ASSUME PathsAssumption   == Nothing \notin Paths
ASSUME SourcesAssumption == /\ Watches \in [Sources -> SUBSET Paths]
                            /\ Sweeps \in [Sources -> SUBSET Paths]
                            /\ Buffer \in [Sources -> Nat]
ASSUME BoundsAssumption  == /\ KernelQueue \in Nat /\ RetryBuffer \in Nat
                            /\ MaxChanges \in Nat /\ MaxTimers \in Nat
VARIABLES
    cancelled,  \* SIGINT or SIGTERM has cancelled the context given to Run
    run,        \* where the goroutine of Run is
    err,        \* Run returned, or is going to return, an error
    at,         \* the path it is reconciling
    unvisited,  \* what InitialSync has still to visit
    status,     \* of each source's goroutine; its channel is closed with it
    kernel,     \* the events the kernel holds for each source
    offer,      \* the path each source is sending
    channel,    \* what each source's channel buffers
    forwarder,  \* the state of each forwarder goroutine of merge
    hand,       \* the path each forwarder is sending to the merged stream
    merged,     \* the merged stream
    retries,    \* the retries channel
    timers,     \* the running timers, per path
    \* History, read by the properties only.
    owed,       \* changed or failed, and not picked up since
    lost,       \* dropped by a full queue since they were last picked up
    late,       \* reconciliations that drain began after the cancellation
    changes     \* how many changes the trees have seen

stream == <<offer, channel, hand>>
joins  == <<status, forwarder, merged>>
ghost  == <<lost, late, changes>>
vars   == <<cancelled, run, err, at, unvisited, status, kernel, offer, channel,
            forwarder, hand, merged, retries, timers, owed, lost, late, changes>>

Item == Paths \cup {Nothing}

TypeOK ==
    /\ cancelled \in BOOLEAN /\ err \in BOOLEAN
    /\ run \in {"starting", "walking", "visiting", "selecting", "handling",
                "calling", "reconciling", "joining", "returned"}
    /\ at \in Item
    /\ unvisited \subseteq Paths /\ owed \subseteq Paths /\ lost \subseteq Paths
    /\ status \in [Sources -> {"off", "running", "closed"}]
    /\ kernel \in [Sources -> Seq(Paths)] /\ \A s \in Sources : Len(kernel[s]) <= KernelQueue
    /\ offer \in [Sources -> Item] /\ hand \in [Sources -> Item]
    /\ channel \in [Sources -> Seq(Paths)] /\ \A s \in Sources : Len(channel[s]) <= Buffer[s]
    /\ forwarder \in [Sources -> {"off", "running", "done"}]
    /\ merged \in {"none", "open", "closed"}
    /\ retries \in Seq(Paths) /\ Len(retries) <= RetryBuffer
    /\ timers \in [Paths -> Nat]
    /\ late \in Nat /\ changes \in Nat

\* Nothing is known of the two trees: every path is owed its first visit.
Init ==
    /\ cancelled = FALSE /\ run = "starting" /\ err = FALSE /\ at = Nothing
    /\ unvisited = Paths
    /\ status = [s \in Sources |-> "off"]
    /\ kernel = [s \in Sources |-> <<>>]
    /\ offer = [s \in Sources |-> Nothing]
    /\ channel = [s \in Sources |-> <<>>]
    /\ forwarder = [s \in Sources |-> "off"]
    /\ hand = [s \in Sources |-> Nothing]
    /\ merged = "none"
    /\ retries = <<>>
    /\ timers = [p \in Paths |-> 0]
    /\ owed = Paths /\ lost = {} /\ late = 0 /\ changes = 0

\* The derived context: Run cancels it when it returns, whatever the path.
CtxDone == cancelled \/ run = "returned"

(***************************************************************************)
(* The trees and the kernel.                                               *)
(***************************************************************************)
Running(s) == status[s] = "running"

\* Anybody's change of p in the tree of s, the agent's own writes to the target
\* included.  An event that finds the kernel's queue full is gone: only a log tells.
Change(s, p) ==
    /\ run # "returned"
    /\ changes < MaxChanges
    /\ changes' = changes + 1
    /\ owed' = owed \cup {p}
    /\ \/ /\ p \in Watches[s] /\ Running(s) /\ Len(kernel[s]) < KernelQueue
          /\ kernel' = [kernel EXCEPT ![s] = Append(@, p)]
          /\ UNCHANGED lost
       \/ /\ p \in Watches[s] /\ Running(s) /\ Len(kernel[s]) >= KernelQueue
          /\ lost' = lost \cup {p}
          /\ UNCHANGED kernel
       \/ /\ p \in Watches[s] => ~Running(s)
          /\ p \in Watches[s] \cup Sweeps[s]
          /\ UNCHANGED <<kernel, lost>>
    /\ UNCHANGED <<cancelled, run, err, at, unvisited, joins, stream, retries, timers, late>>

Cancel ==
    /\ ~cancelled
    /\ cancelled' = TRUE
    /\ UNCHANGED <<run, err, at, unvisited, joins, kernel, stream, retries, timers,
                   owed, ghost>>

(***************************************************************************)
(* The goroutine of an event source: it takes up events one by one, or     *)
(* sweeps at each tick, and blocks on its channel or on the context.       *)
(***************************************************************************)
TakeUp(s) ==
    /\ Running(s) /\ offer[s] = Nothing
    /\ kernel[s] # <<>>
    /\ offer' = [offer EXCEPT ![s] = Head(kernel[s])]
    /\ kernel' = [kernel EXCEPT ![s] = Tail(@)]
    /\ UNCHANGED <<cancelled, run, err, at, unvisited, joins, channel, hand, retries,
                   timers, owed, ghost>>

Sweep(s, p) ==
    /\ Running(s) /\ offer[s] = Nothing
    /\ p \in Sweeps[s]
    /\ offer' = [offer EXCEPT ![s] = p]
    /\ UNCHANGED <<cancelled, run, err, at, unvisited, joins, kernel, channel, hand,
                   retries, timers, owed, ghost>>

Send(s) ==
    /\ Running(s) /\ offer[s] # Nothing
    /\ Len(channel[s]) < Buffer[s]
    /\ channel' = [channel EXCEPT ![s] = Append(@, offer[s])]
    /\ offer' = [offer EXCEPT ![s] = Nothing]
    /\ UNCHANGED <<cancelled, run, err, at, unvisited, joins, kernel, hand, retries,
                   timers, owed, ghost>>

\* The select sees the context done: an unsent event is dropped, the loop ends
\* and its channel is closed.
Stop(s) ==
    /\ Running(s) /\ CtxDone
    /\ status' = [status EXCEPT ![s] = "closed"]
    /\ offer' = [offer EXCEPT ![s] = Nothing]
    /\ kernel' = [kernel EXCEPT ![s] = <<>>]
    /\ UNCHANGED <<cancelled, run, err, at, unvisited, forwarder, merged, channel, hand,
                   retries, timers, owed, ghost>>

(***************************************************************************)
(* merge: a forwarder per source, and the goroutine that waits for them.   *)
(***************************************************************************)
Receiving(s) == forwarder[s] = "running" /\ hand[s] = Nothing

Forward(s) ==
    /\ Receiving(s)
    /\ channel[s] # <<>>
    /\ hand' = [hand EXCEPT ![s] = Head(channel[s])]
    /\ channel' = [channel EXCEPT ![s] = Tail(@)]
    /\ UNCHANGED <<cancelled, run, err, at, unvisited, joins, kernel, offer, retries,
                   timers, owed, ghost>>

\* An unbuffered channel passes the path on only while its forwarder receives.
Rendezvous(s) ==
    /\ Receiving(s)
    /\ Running(s) /\ offer[s] # Nothing
    /\ Buffer[s] = 0
    /\ hand' = [hand EXCEPT ![s] = offer[s]]
    /\ offer' = [offer EXCEPT ![s] = Nothing]
    /\ UNCHANGED <<cancelled, run, err, at, unvisited, joins, kernel, channel, retries,
                   timers, owed, ghost>>

\* Slip: a forwarder leaves as soon as the context is done.
ForwarderLeaves(s) ==
    /\ Receiving(s)
    /\ CtxDone
    /\ forwarder' = [forwarder EXCEPT ![s] = "done"]
    /\ UNCHANGED <<cancelled, run, err, at, unvisited, status, merged, kernel, stream,
                   retries, timers, owed, ghost>>

ForwarderEnds(s) ==
    /\ Receiving(s)
    /\ status[s] = "closed" /\ channel[s] = <<>>
    /\ forwarder' = [forwarder EXCEPT ![s] = "done"]
    /\ UNCHANGED <<cancelled, run, err, at, unvisited, status, merged, kernel, stream,
                   retries, timers, owed, ghost>>

CloseMerged ==
    /\ merged = "open"
    /\ \A s \in Sources : forwarder[s] = "done"
    /\ merged' = "closed"
    /\ UNCHANGED <<cancelled, run, err, at, unvisited, status, forwarder, kernel, stream,
                   retries, timers, owed, ghost>>

(***************************************************************************)
(* Run: start the sources, reconcile everything once, then drain.          *)
(***************************************************************************)
StartSource(s) ==
    /\ run = "starting"
    /\ status[s] = "off"
    /\ status' = [status EXCEPT ![s] = "running"]
    /\ run' = IF \A x \in Sources \ {s} : status[x] # "off" THEN "walking" ELSE run
    /\ UNCHANGED <<cancelled, err, at, unvisited, forwarder, merged, kernel, stream,
                   retries, timers, owed, ghost>>

\* The deferred cancel is all that stops the sources already started.
ReturnError ==
    /\ run' = "returned"
    /\ err' = TRUE
    /\ at' = Nothing

StartFails ==
    /\ run = "starting"
    /\ ReturnError
    /\ UNCHANGED <<cancelled, unvisited, joins, kernel, stream, retries, timers, owed, ghost>>

\* A reconciliation of p begins: whatever has changed so far will be seen.
Begin(p) ==
    /\ at' = p
    /\ owed' = owed \ {p}
    /\ lost' = lost \ {p}

\* The walk does not look at the context.
Visit(p) ==
    /\ run = "walking"
    /\ p \in unvisited
    /\ unvisited' = unvisited \ {p}
    /\ run' = "visiting"
    /\ Begin(p)
    /\ UNCHANGED <<cancelled, err, joins, kernel, stream, retries, timers, late, changes>>

Visited ==
    /\ run = "visiting"
    /\ run' = "walking" /\ at' = Nothing
    /\ UNCHANGED <<cancelled, err, unvisited, joins, kernel, stream, retries, timers,
                   owed, ghost>>

\* An error of any call of the walk ends Run.
WalkFails ==
    /\ run \in {"walking", "visiting"}
    /\ owed' = owed \cup ({at} \ {Nothing})
    /\ ReturnError
    /\ UNCHANGED <<cancelled, unvisited, joins, kernel, stream, retries, timers, ghost>>

Merge ==
    /\ run = "walking" /\ unvisited = {}
    /\ run' = "selecting"
    /\ forwarder' = [s \in Sources |-> "running"]
    /\ merged' = "open"
    /\ UNCHANGED <<cancelled, err, at, unvisited, status, kernel, stream, retries, timers,
                   owed, ghost>>

(***************************************************************************)
(* drain: a select over the context, the merged stream and the retries.    *)
(***************************************************************************)
ReceiveEvent(s) ==
    /\ run = "selecting"
    /\ hand[s] # Nothing
    /\ at' = hand[s]
    /\ hand' = [hand EXCEPT ![s] = Nothing]
    /\ run' = "handling"
    /\ UNCHANGED <<cancelled, err, unvisited, joins, kernel, offer, channel, retries,
                   timers, owed, ghost>>

ReceiveRetry ==
    /\ run = "selecting"
    /\ retries # <<>>
    /\ at' = Head(retries)
    /\ retries' = Tail(retries)
    /\ run' = "handling"
    /\ UNCHANGED <<cancelled, err, unvisited, joins, kernel, stream, timers, owed, ghost>>

StreamClosed ==
    /\ run \in {"selecting", "joining"}
    /\ merged = "closed"
    /\ run' = "returned"
    /\ UNCHANGED <<cancelled, err, at, unvisited, joins, kernel, stream, retries, timers,
                   owed, ghost>>

SeeCancellation ==
    /\ run = "selecting" /\ cancelled
    /\ run' = "joining"
    /\ UNCHANGED <<cancelled, err, at, unvisited, joins, kernel, stream, retries, timers,
                   owed, ghost>>

\* Slip: the join waits for the close without receiving.
DiscardNothing(s) ==
    /\ run = "joining" /\ hand[s] # Nothing
    /\ UNCHANGED vars

\* drainUntilClosed: nothing that still arrives is reconciled.
Discard(s) ==
    /\ run = "joining"
    /\ hand[s] # Nothing
    /\ hand' = [hand EXCEPT ![s] = Nothing]
    /\ UNCHANGED <<cancelled, run, err, at, unvisited, joins, kernel, offer, channel,
                   retries, timers, owed, ghost>>

\* handle: the cancellation is looked at once more before the call.
Skip ==
    /\ run = "handling" /\ cancelled
    /\ run' = "selecting" /\ at' = Nothing
    /\ UNCHANGED <<cancelled, err, unvisited, joins, kernel, stream, retries, timers,
                   owed, ghost>>

\* Slip: handle does not look.
CheckNothing ==
    /\ run = "handling"
    /\ run' = "calling"
    /\ UNCHANGED <<cancelled, err, at, unvisited, joins, kernel, stream, retries, timers,
                   owed, ghost>>

Check ==
    /\ run = "handling" /\ ~cancelled
    /\ run' = "calling"
    /\ UNCHANGED <<cancelled, err, at, unvisited, joins, kernel, stream, retries, timers,
                   owed, ghost>>

Reconcile ==
    /\ run = "calling"
    /\ run' = "reconciling"
    /\ Begin(at)
    /\ late' = IF cancelled THEN late + 1 ELSE late
    /\ UNCHANGED <<cancelled, err, unvisited, joins, kernel, stream, retries, timers, changes>>

Reconciled ==
    /\ run = "reconciling"
    /\ run' = "selecting" /\ at' = Nothing
    /\ UNCHANGED <<cancelled, err, unvisited, joins, kernel, stream, retries, timers,
                   owed, ghost>>

\* Slip: the failure is logged and nothing else.
ReconcileFailsForgets ==
    /\ run = "reconciling"
    /\ owed' = owed \cup {at}
    /\ run' = "selecting" /\ at' = Nothing
    /\ UNCHANGED <<cancelled, err, unvisited, joins, kernel, stream, retries, timers, ghost>>

ReconcileFails ==
    /\ run = "reconciling"
    /\ timers[at] < MaxTimers
    /\ timers' = [timers EXCEPT ![at] = @ + 1]
    /\ owed' = owed \cup {at}
    /\ run' = "selecting" /\ at' = Nothing
    /\ UNCHANGED <<cancelled, err, unvisited, joins, kernel, stream, retries, ghost>>

\* Slip: the callback queues the path whatever room is left.
TimerFiresUnbounded(p) ==
    /\ timers[p] > 0
    /\ timers' = [timers EXCEPT ![p] = @ - 1]
    /\ retries' = Append(retries, p)
    /\ UNCHANGED <<cancelled, run, err, at, unvisited, joins, kernel, stream, owed, ghost>>

\* The timer's callback never blocks: a full channel drops the path.
TimerFires(p) ==
    /\ timers[p] > 0
    /\ timers' = [timers EXCEPT ![p] = @ - 1]
    /\ \/ /\ Len(retries) < RetryBuffer
          /\ retries' = Append(retries, p)
          /\ UNCHANGED lost
       \/ /\ Len(retries) >= RetryBuffer
          /\ lost' = lost \cup {p}
          /\ UNCHANGED retries
    /\ UNCHANGED <<cancelled, run, err, at, unvisited, joins, kernel, stream, owed,
                   late, changes>>

Terminated ==
    /\ run = "returned"
    /\ \A s \in Sources : ~Running(s)
    /\ UNCHANGED vars

Source(s) == TakeUp(s) \/ Send(s) \/ Stop(s) \/ \E p \in Paths : Sweep(s, p)

Forwarder(s) == Forward(s) \/ Rendezvous(s) \/ ForwarderEnds(s)

Consumer ==
    \/ StartFails \/ Visited \/ WalkFails \/ Merge
    \/ ReceiveRetry \/ StreamClosed \/ SeeCancellation
    \/ Skip \/ Check \/ Reconcile \/ Reconciled \/ ReconcileFails
    \/ \E p \in Paths : Visit(p)
    \/ \E s \in Sources : StartSource(s) \/ ReceiveEvent(s) \/ Discard(s)

Next ==
    \/ Consumer \/ CloseMerged \/ Cancel \/ Terminated
    \/ \E p \in Paths : TimerFires(p)
    \/ \E s \in Sources : Source(s) \/ Forwarder(s) \/ \E p \in Paths : Change(s, p)

(***************************************************************************)
(* Every goroutine is scheduled, every timer fires and every call of a     *)
(* reconciliation returns.  A Go select picks among its ready cases at     *)
(* random, so none that is ready time and again is passed over for ever.   *)
(***************************************************************************)
Fairness ==
    /\ WF_vars(Consumer) /\ SF_vars(ReceiveRetry) /\ SF_vars(SeeCancellation)
    /\ WF_vars(CloseMerged)
    /\ \A p \in Paths : WF_vars(TimerFires(p))
    /\ \A s \in Sources :
         /\ WF_vars(Forwarder(s)) /\ SF_vars(ReceiveEvent(s))
         /\ WF_vars(TakeUp(s) \/ Send(s)) /\ WF_vars(Stop(s))
         /\ \A p \in Sweeps[s] : SF_vars(Sweep(s, p))

Spec == Init /\ [][Next]_vars /\ Fairness

(***************************************************************************)
(* Properties.                                                             *)
(***************************************************************************)
Elements(q) == {q[i] : i \in DOMAIN q}

\* Where a reason to reconcile p can be.
HeldBy(s, p) ==
    \/ p \in Elements(kernel[s]) \/ p \in Elements(channel[s])
    \/ p = offer[s] \/ p = hand[s]
    \/ Running(s) /\ p \in Sweeps[s]

Held(p) ==
    \/ p \in unvisited
    \/ p \in Elements(retries) \/ timers[p] > 0
    \/ p = at /\ run \in {"handling", "calling"}
    \/ \E s \in Sources : HeldBy(s, p)

Waiting == {p \in Paths : Held(p)}

\* Nothing goes astray: as long as nobody asks the agent to stop, every path that
\* changed (also while the sources started or the first walk was under way) or
\* failed is on its way to the consumer, unless a full queue has dropped it.
Accounted ==
    ~CtxDone => \A p \in owed : Held(p) \/ p \in lost

\* drain returns only when the goroutines it started and those of the sources
\* are through with the roots and with every channel.
CleanShutdown ==
    run = "returned" /\ ~err =>
        \A s \in Sources : /\ status[s] = "closed" /\ forwarder[s] = "done"
                           /\ offer[s] = Nothing /\ channel[s] = <<>> /\ hand[s] = Nothing

\* After the cancellation at most the call that handle was about to make begins,
\* however many events and retries are ready.
NoLateWork == late <= 1

\* The path whose reconciliation is under way.
Serving == IF run \in {"visiting", "reconciling"} THEN at ELSE Nothing

Work == INSTANCE WorkList WITH
    due <- Waiting, at <- Serving, Nobody <- Nothing,
    dropped <- lost, stopped <- CtxDone

\* The goroutines, channels, retries and timers implement a plain work list: a path
\* moves through them without ever falling between two, each path is taken up
\* where it waits and one at a time, and what fails waits again.
ServesWorkList == Work!Spec

\* A changed or failed path is picked up, or dropped by a full queue.
Served == \A p \in Paths : p \in owed ~> p \notin owed \/ p \in lost \/ CtxDone

\* Whenever the signal comes or Run gives up with an error, Run returns and every
\* source stops.  The error returns do not wait for the sources they have started:
\* these stop in their own time, on the cancelled context, and none gets stuck.
Stops == CtxDone ~> run = "returned" /\ \A s \in Sources : ~Running(s)

(***************************************************************************)
(* The inductive invariant.                                                *)
(***************************************************************************)
\* How far Run has come says which goroutines there are.
Phases ==
    /\ run = "starting" => unvisited = Paths
    /\ run \in {"starting", "walking", "visiting"} => merged = "none"
    /\ run \notin {"starting", "returned"} => \A s \in Sources : status[s] # "off"
    /\ run = "joining" => cancelled
    /\ at # Nothing <=> run \in {"visiting", "handling", "calling", "reconciling"}
    /\ err => run = "returned"
    /\ run = "returned" /\ ~err => merged = "closed"

\* Each join waits for what it joins.
Joins ==
    /\ merged = "closed" => \A s \in Sources : forwarder[s] = "done"
    /\ \A s \in Sources :
         /\ status[s] = "closed" => CtxDone /\ offer[s] = Nothing
         /\ forwarder[s] = "done" => /\ status[s] = "closed"
                                    /\ channel[s] = <<>> /\ hand[s] = Nothing

\* The call handle has decided on is the last one.
LastCall == ~cancelled \/ run = "calling" => late = 0

IndInv == TypeOK /\ Phases /\ Joins /\ LastCall /\ NoLateWork /\ Accounted
=============================================================================
