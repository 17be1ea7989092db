--------------------------- MODULE ContentWriter ---------------------------
(***************************************************************************)
(* OSFS.WriteAtomic, one system call at a time: a temporary sibling is     *)
(* created, filled from the source, synced, closed, given its attributes   *)
(* and renamed over the path.  The source can change while it is copied,   *)
(* any call can fail, the agent can be killed and the power can fail.      *)
(*                                                                         *)
(* The temporary file is an entry of the watched target: its events reach  *)
(* SyncPath, and InitialSync finds what a crash left.  Both remove it, as  *)
(* its name does not exist in the source.                                  *)
(*                                                                         *)
(* External, by the file system: data is durable once synced, the name and *)
(* attribute operations become durable in the order they were made.        *)
(***************************************************************************)
EXTENDS Sequences, Naturals

CONSTANTS
    Chunks,         \* pieces of content
    SourceData,     \* the byte sequences the source file can hold
    Modes, Owners,
    Wants,          \* the attributes asked for: what the source has, or the overrides
    Others,         \* what other writers leave at the target path
    TempNames,      \* the names randomSuffix can yield
    ProcessOwner,   \* who owns a file the agent creates
    NoFile          \* nothing at a name

File  == [data : Seq(Chunks), mode : Modes, owner : Owners, synced : BOOLEAN]
Attrs == [mode : Modes, owner : Owners]

ASSUME SourceDataAssumption == SourceData \subseteq Seq(Chunks)
ASSUME OwnerAssumption      == ProcessOwner \in Owners
ASSUME NoFileAssumption     == NoFile \notin File
ASSUME WantsAssumption      == Wants \subseteq Attrs
ASSUME OthersAssumption     == Others \subseteq {f \in File : f.synced} \cup {NoFile}

VARIABLES
    srcData,  \* the source file being read, as it is now
    pos,      \* how much of it the copy has read
    file,     \* the entry at rel
    base,     \* the entry at rel that a power loss falls back to
    name,     \* the temporary name of this write
    tmp,      \* the entry at that name
    litter,   \* the names at which earlier writes left a temporary file
    pc,       \* the next call of WriteAtomic
    want,     \* its arguments mode and owner
    outcome,  \* what it returned
    queued,   \* the temporary names with an event that waits to be handled
    \* History, read by the refinement mapping only.
    stream, whole

source == <<srcData, pos, stream, whole>>
events == <<litter, queued>>
args   == <<name, want>>
vars   == <<srcData, pos, file, base, name, tmp, litter, pc, want, outcome, queued,
            stream, whole>>

Calls == {"create", "copy", "sync", "close", "chmod", "chown", "rename"}

TypeOK ==
    /\ srcData \in SourceData /\ pos \in Nat
    /\ file \in File \cup {NoFile} /\ base \in File \cup {NoFile}
    /\ tmp \in File \cup {NoFile}
    /\ pc \in Calls \cup {"idle", "cleanup", "down"}
    /\ want \in Attrs
    /\ outcome \in {"none", "busy", "ok", "error"}
    /\ name \in TempNames /\ litter \subseteq TempNames /\ queued \subseteq TempNames
    /\ stream \in Seq(Chunks) /\ whole \in BOOLEAN

Init ==
    /\ srcData \in SourceData /\ pos = 0
    /\ file \in Others /\ base = file
    /\ tmp = NoFile /\ name \in TempNames /\ litter = {} /\ queued = {}
    /\ pc = "idle" /\ outcome = "none"
    /\ want \in Wants
    /\ stream = <<>> /\ whole = FALSE

\* The caller has opened the source; WriteAtomic picks a fresh random name.
Start ==
    /\ pc = "idle"
    /\ pc' = "create" /\ outcome' = "busy"
    /\ want' \in Wants /\ name' \in TempNames
    /\ pos' = 0 /\ stream' = <<>> /\ whole' = FALSE
    /\ UNCHANGED <<srcData, file, base, tmp, events>>

\* Slip: the name is one the watch does not report.
CreateTempUnwatched ==
    /\ pc = "create" /\ name \notin litter
    /\ \E m \in Modes :
         tmp' = [data |-> <<>>, mode |-> m, owner |-> ProcessOwner, synced |-> TRUE]
    /\ pc' = "copy"
    /\ UNCHANGED <<source, file, base, args, outcome, events>>

\* OpenFile with O_EXCL: the umask applies, the process owns the file.
CreateTemp ==
    /\ pc = "create" /\ name \notin litter
    /\ \E m \in Modes :
         tmp' = [data |-> <<>>, mode |-> m, owner |-> ProcessOwner, synced |-> TRUE]
    /\ queued' = queued \cup {name}
    /\ pc' = "copy"
    /\ UNCHANGED <<source, file, base, litter, args, outcome>>

\* O_EXCL: the random name is taken by what an earlier write left behind.
CreateCollides ==
    /\ pc = "create" /\ name \in litter
    /\ pc' = "idle" /\ outcome' = "error"
    /\ UNCHANGED <<source, file, base, args, tmp, events>>

\* io.Copy: one read and write at a time, until the reader is at the end.
CopyChunk ==
    /\ pc = "copy" /\ pos < Len(srcData)
    /\ pos' = pos + 1
    /\ stream' = Append(stream, srcData[pos + 1])
    /\ tmp' = [tmp EXCEPT !.data = Append(@, srcData[pos + 1]), !.synced = FALSE]
    /\ UNCHANGED <<srcData, whole, file, base, pc, args, outcome, events>>

CopyEnd ==
    /\ pc = "copy" /\ pos >= Len(srcData)
    /\ whole' = TRUE
    /\ pc' = "sync"
    /\ UNCHANGED <<srcData, pos, stream, file, base, tmp, args, outcome, events>>

\* Slip: no fsync.
SyncSkipped ==
    /\ pc = "sync"
    /\ pc' = "close"
    /\ UNCHANGED <<source, file, base, tmp, args, outcome, events>>

Sync ==
    /\ pc = "sync"
    /\ tmp' = [tmp EXCEPT !.synced = TRUE]
    /\ pc' = "close"
    /\ UNCHANGED <<source, file, base, args, outcome, events>>

\* Slip: the attributes are left as the creation made them.
CloseThenRename ==
    /\ pc = "close"
    /\ pc' = "rename"
    /\ UNCHANGED <<source, file, base, tmp, args, outcome, events>>

Close ==
    /\ pc = "close"
    /\ pc' = "chmod"
    /\ UNCHANGED <<source, file, base, tmp, args, outcome, events>>

Chmod ==
    /\ pc = "chmod"
    /\ tmp' = [tmp EXCEPT !.mode = want.mode]
    /\ pc' = "chown"
    /\ UNCHANGED <<source, file, base, args, outcome, events>>

Chown ==
    /\ pc = "chown"
    /\ tmp' = [tmp EXCEPT !.owner = want.owner]
    /\ pc' = "rename"
    /\ UNCHANGED <<source, file, base, args, outcome, events>>

Rename ==
    /\ pc = "rename"
    /\ file' = tmp
    /\ tmp' = NoFile
    /\ pc' = "idle" /\ outcome' = "ok"
    /\ UNCHANGED <<source, base, args, events>>

\* Any call can fail.  Nothing is there to clean up if the creation did.
CallFails ==
    /\ pc \in Calls
    /\ IF pc = "create" THEN pc' = "idle" /\ outcome' = "error"
                        ELSE pc' = "cleanup" /\ UNCHANGED outcome
    /\ UNCHANGED <<source, file, base, tmp, args, events>>

\* The deferred Remove, whose own error is ignored.
Cleanup ==
    /\ pc = "cleanup"
    /\ tmp' = NoFile
    /\ litter' \in {litter, litter \cup {name}}
    /\ pc' = "idle" /\ outcome' = "error"
    /\ UNCHANGED <<source, file, base, args, queued>>

(***************************************************************************)
(* The rest of the agent, as far as it touches the temporary name.         *)
(***************************************************************************)
\* The consumer handles the events of temporary names.  It is the goroutine
\* that runs WriteAtomic, so it gets there only between two writes.
SyncTempPath(n) ==
    /\ pc = "idle" /\ n \in queued
    /\ litter' = litter \ {n}
    /\ queued' = queued \ {n}
    /\ UNCHANGED <<source, file, base, tmp, pc, args, outcome>>

\* The process dies.  Its queues are lost, the file system is not.
Stops ==
    /\ pc' = "down" /\ outcome' = "none" /\ queued' = {}
    /\ tmp' = NoFile
    /\ UNCHANGED <<source, args>>

TempFile == IF tmp = NoFile THEN {} ELSE {name}

Kill ==
    /\ pc # "down"
    /\ Stops
    /\ litter' = litter \cup TempFile
    /\ UNCHANGED <<file, base>>

\* What a power loss leaves of a file: all of it if synced, else some prefix.
Remains(f) ==
    IF f = NoFile \/ f.synced THEN {f}
    ELSE {[f EXCEPT !.data = SubSeq(@, 1, n), !.synced = TRUE] : n \in 0..Len(f.data)}

PowerLoss ==
    /\ Stops
    /\ \E f \in {file, base} : file' \in Remains(f) /\ base' = file'
    /\ litter' \in {litter, litter \cup TempFile}

\* Slip: the first pass does not look for entries that only the target has.
RestartKeepsLitter ==
    /\ pc = "down"
    /\ pc' = "idle"
    /\ UNCHANGED <<source, file, base, tmp, args, outcome, events>>

\* The next start: InitialSync removes what is not in the source.
Restart ==
    /\ pc = "down"
    /\ litter' = {}
    /\ pc' = "idle"
    /\ UNCHANGED <<source, file, base, tmp, args, outcome, queued>>

(***************************************************************************)
(* Others.                                                                 *)
(***************************************************************************)
EditSource ==
    /\ \E d \in SourceData : d # srcData /\ srcData' = d
    /\ UNCHANGED <<pos, file, base, tmp, pc, args, outcome, events, stream, whole>>

\* An out-of-band writer replaces or removes the target file.
DriftTarget ==
    /\ \E f \in Others : f # file /\ file' = f
    /\ base' = file'
    /\ UNCHANGED <<source, tmp, pc, args, outcome, events>>

\* The file system's journal catches up with the rename.
Settle ==
    /\ base # file
    /\ base' = file
    /\ UNCHANGED <<source, file, tmp, pc, args, outcome, events>>

WriterStep ==
    \/ CreateTemp \/ CreateCollides \/ CopyChunk \/ CopyEnd \/ Sync \/ Close \/ Chmod \/ Chown 
    \/ Rename \/ Cleanup

Next ==
    \/ Start \/ WriterStep \/ CallFails \/ \E n \in TempNames : SyncTempPath(n)
    \/ Kill \/ PowerLoss \/ Restart
    \/ EditSource \/ DriftTarget \/ Settle

\* Calls return, the agent is started again after it died, and the consumer
\* gets to every event of its queue however often it has to write in between.
Spec ==
    /\ Init /\ [][Next]_vars
    /\ WF_vars(WriterStep) /\ \A n \in TempNames : SF_vars(SyncTempPath(n)) /\ WF_vars(Restart)

(***************************************************************************)
(* Properties.                                                             *)
(***************************************************************************)

\* What a reader of the path, or a reboot after a power loss, can find there.
Visible(f) ==
    IF f = NoFile THEN NoFile ELSE [data |-> f.data, mode |-> f.mode, owner |-> f.owner]

Atomic == INSTANCE AtomicFile WITH file <- Visible(file), base <- Visible(base)

\* WriteAtomic implements the atomic replacement of a file: a reader never sees
\* a torn or partial file or one with provisional attributes, a power loss does
\* not make one, and a write that fails has changed nothing.
ReplacesAtomically == Atomic!Spec

\* While the agent runs, it has an event of every temporary file it left behind.
LitterTracked == pc # "down" => litter \subseteq queued

\* A temporary file that a failed or interrupted write left does not stay.
LitterGoes == \A n \in TempNames : (n \in litter) ~> (n \notin litter)

(***************************************************************************)
(* The inductive invariant behind the refinement.                          *)
(***************************************************************************)
\* The temporary file holds what the source has delivered, and each call has
\* brought it one step closer to the version that is renamed into place.
TempAgrees ==
    /\ pc \in Calls \ {"create"} => tmp \in File /\ tmp.data = stream
    /\ pc \in {"create", "copy"} => ~whole
    /\ pc = "create" => stream = <<>>
    /\ pc \in {"sync", "close", "chmod", "chown", "rename"} => whole
    /\ pc \in {"close", "chmod", "chown", "rename"} => tmp.synced
    /\ pc \in {"chown", "rename"} => tmp.mode = want.mode
    /\ pc = "rename" => tmp.owner = want.owner
    /\ outcome = "busy" <=> pc \in Calls \cup {"cleanup"}

\* Only synced files are ever put at the path.
PathDurable ==
    \A f \in {file, base} : f # NoFile => f.synced

IndInv == TypeOK /\ TempAgrees /\ PathDurable
=============================================================================
