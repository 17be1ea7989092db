----------------------------- MODULE AtomicFile -----------------------------
(***************************************************************************)
(* What WriteAtomic promises to whoever reads the target path: the file    *)
(* there changes in one step, from one whole version to another.  A        *)
(* version is everything the source delivered up to its end, with the      *)
(* attributes that were asked for.  A failed write changes nothing.        *)
(***************************************************************************)
EXTENDS Sequences

CONSTANTS
    Chunks,   \* what the source delivers, piece by piece
    Modes, Owners,
    NoFile    \* nothing at the path

File == [data : Seq(Chunks), mode : Modes, owner : Owners]

VARIABLES
    file,     \* what a reader of the path finds
    base,     \* what he would find after a power loss, if it is not file
    stream,   \* what the source has delivered to the current write
    whole,    \* it has delivered everything
    want,     \* the attributes asked for
    outcome   \* "busy" while a write is going on, else how the last one ended

vars == <<file, base, stream, whole, want, outcome>>

Init ==
    /\ file \in File \cup {NoFile} /\ base = file
    /\ stream = <<>> /\ whole = FALSE
    /\ want \in [mode : Modes, owner : Owners]
    /\ outcome = "none"

Begin ==
    /\ outcome # "busy"
    /\ outcome' = "busy"
    /\ want' \in [mode : Modes, owner : Owners]
    /\ stream' = <<>> /\ whole' = FALSE
    /\ UNCHANGED <<file, base>>

Deliver ==
    /\ outcome = "busy" /\ ~whole
    /\ \/ \E c \in Chunks : stream' = Append(stream, c) /\ UNCHANGED whole
       \/ whole' = TRUE /\ UNCHANGED stream
    /\ UNCHANGED <<file, base, want, outcome>>

Install ==
    /\ outcome = "busy" /\ whole
    /\ file' = [data |-> stream, mode |-> want.mode, owner |-> want.owner]
    /\ outcome' = "ok"
    /\ UNCHANGED <<base, stream, whole, want>>

Fail ==
    /\ outcome = "busy"
    /\ outcome' = "error"
    /\ UNCHANGED <<file, base, stream, whole, want>>

\* The file system makes the path durable.
Settle ==
    /\ base' = file
    /\ UNCHANGED <<file, stream, whole, want, outcome>>

\* The agent dies; in a power loss the path may fall back to its durable version.
Crash ==
    /\ outcome' = "none"
    /\ file' \in {file, base} /\ base' \in {base, file'}
    /\ UNCHANGED <<stream, whole, want>>

\* Somebody else replaces or removes the file.
Drift ==
    /\ file' \in File \cup {NoFile} /\ base' = file'
    /\ UNCHANGED <<stream, whole, want, outcome>>

Next == Begin \/ Deliver \/ Install \/ Fail \/ Settle \/ Crash \/ Drift

Spec == Init /\ [][Next]_vars
=============================================================================
