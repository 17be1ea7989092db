------------------------------ MODULE WorkList ------------------------------
(***************************************************************************)
(* What the orchestrator promises to the trees: a set of due paths and one *)
(* consumer that serves them one at a time, in any order.  A path that     *)
(* changes, or whose service fails, is due again unless a full queue drops *)
(* it.  Channels, goroutines, retries and timers are out of sight here,    *)
(* and so is how a path can wait in several places at once: a path that is *)
(* served may stay due.                                                    *)
(***************************************************************************)
CONSTANTS
    Paths,
    Nobody    \* no path is being served

VARIABLES
    due,      \* the paths that are on their way to the consumer
    at,       \* the path it is serving
    owed,     \* changed or failed, and not taken up since
    dropped,  \* dropped since they were last taken up
    stopped   \* the agent has been asked to stop, or has given up

vars == <<due, at, owed, dropped, stopped>>

\* Nothing is known yet: every path is due.
Init == due = Paths /\ at = Nobody /\ owed = Paths /\ dropped = {} /\ stopped = FALSE

\* Somebody changes p.  After a stop its event need not come.
Change(p) ==
    /\ owed' = owed \cup {p}
    /\ due' \in {due, due \cup {p}} /\ dropped' \in {dropped, dropped \cup {p}}
    /\ stopped \/ p \in due' \cup dropped'
    /\ UNCHANGED <<at, stopped>>

Serve(p) ==
    /\ at = Nobody /\ p \in due
    /\ at' = p
    /\ due' \in {due, due \ {p}}
    /\ owed' = owed \ {p} /\ dropped' = dropped \ {p}
    /\ UNCHANGED stopped

Finish ==
    /\ at # Nobody
    /\ at' = Nobody
    /\ UNCHANGED <<due, owed, dropped, stopped>>

Fail ==
    /\ at # Nobody
    /\ at' = Nobody
    /\ owed' = owed \cup {at} /\ due' = due \cup {at}
    /\ UNCHANGED <<dropped, stopped>>

\* The place in which p waited has no room for it: p may wait elsewhere too.
Drop(p) ==
    /\ p \in due
    /\ dropped' = dropped \cup {p}
    /\ due' \in {due, due \ {p}}
    /\ UNCHANGED <<at, owed, stopped>>

Stop ==
    /\ stopped' = TRUE
    /\ UNCHANGED <<due, at, owed, dropped>>

\* An error of the first walk ends the agent: nobody comes back to its path.
GiveUp ==
    /\ stopped' = TRUE
    /\ at' = Nobody
    /\ owed' = owed \cup ({at} \ {Nobody})
    /\ UNCHANGED <<due, dropped>>

\* What still waits is thrown away.
Discard ==
    /\ stopped
    /\ due' \in SUBSET due
    /\ UNCHANGED <<at, owed, dropped, stopped>>

Next ==
    \/ Finish \/ Fail \/ Stop \/ GiveUp \/ Discard
    \/ \E p \in Paths : Change(p) \/ Serve(p) \/ Drop(p)

Spec == Init /\ [][Next]_vars
=============================================================================
