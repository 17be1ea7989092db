------------------------ MODULE ContentWriter_proofs ------------------------
(***************************************************************************)
(* WriteAtomic implements AtomicFile, for every set of contents,           *)
(* attributes and names.                                                   *)
(***************************************************************************)
EXTENDS ContentWriter, TLAPS

USE SourceDataAssumption, OwnerAssumption, NoFileAssumption, WantsAssumption, OthersAssumption

-----------------------------------------------------------------------------
(* The inductive invariant.                                                *)

LEMMA NothingCopied == <<>> \in Seq(Chunks)
OBVIOUS

LEMMA InvInit == Init => IndInv
<1> SUFFICES ASSUME Init PROVE IndInv
  OBVIOUS
<1>1. file \in File \cup {NoFile} /\ (file # NoFile => file.synced)
  BY DEF Init
<1>2. TypeOK
  BY <1>1, NothingCopied DEF Init, TypeOK
<1>3. TempAgrees
  BY DEF Init, TempAgrees, Calls
<1>4. PathDurable
  BY <1>1 DEF Init, PathDurable
<1> QED
  BY <1>2, <1>3, <1>4 DEF IndInv

\* The sync and the attribute calls change one field of the temporary file.
LEMMA SyncField ==
    ASSUME NEW t \in File, NEW u, u = [t EXCEPT !.synced = TRUE]
    PROVE  u \in File /\ u.data = t.data /\ u.synced
BY DEF File

LEMMA ModeField ==
    ASSUME NEW t \in File, NEW m \in Modes, NEW u, u = [t EXCEPT !.mode = m]
    PROVE  u \in File /\ u.data = t.data /\ u.synced = t.synced /\ u.mode = m
BY DEF File

LEMMA OwnerField ==
    ASSUME NEW t \in File, NEW o \in Owners, NEW u, u = [t EXCEPT !.owner = o]
    PROVE  /\ u \in File /\ u.data = t.data /\ u.synced = t.synced
           /\ u.mode = t.mode /\ u.owner = o
BY DEF File

LEMMA InvStep ==
    ASSUME IndInv, [Next]_vars
    PROVE  IndInv'
<1> USE DEF IndInv, TypeOK, TempAgrees, PathDurable, Calls
<1>1. CASE Start
  BY <1>1, NothingCopied DEF Start, events
<1>2. CASE CreateTemp
  <2>1. tmp' \in File /\ tmp'.data = <<>> /\ tmp'.synced
    BY <1>2, NothingCopied DEF CreateTemp, File
  <2>2. stream = <<>>
    BY <1>2 DEF CreateTemp
  <2> QED
    BY <1>2, <2>1, <2>2 DEF CreateTemp, source, args
<1>3. CASE CreateCollides
  BY <1>3 DEF CreateCollides, source, args, events
<1>4. CASE CopyChunk
  <2>1. PICK c \in Chunks : c = srcData[pos + 1]
    BY <1>4 DEF CopyChunk
  <2>2. /\ tmp \in File /\ tmp.data = stream /\ stream' = Append(stream, c)
        /\ tmp' = [tmp EXCEPT !.data = Append(@, c), !.synced = FALSE]
    BY <1>4, <2>1 DEF CopyChunk
  <2> DEFINE d == Append(tmp.data, c)
             u == [tmp EXCEPT !.data = d]
  <2>3. d \in Seq(Chunks) /\ stream' = d
    BY <2>2 DEF File
  <2>4. tmp' = [u EXCEPT !.synced = FALSE]
    BY <2>2
  <2> HIDE DEF d
  <2>5. u \in File /\ u.data = d
    BY <2>2, <2>3 DEF File
  <2> HIDE DEF u
  <2>6. tmp' \in File /\ tmp'.data = d
    BY <2>4, <2>5 DEF File
  <2> QED
    BY <1>4, <2>3, <2>6 DEF CopyChunk, args, events
<1>5. CASE CopyEnd
  BY <1>5 DEF CopyEnd, args, events
<1>6. CASE Sync
  <2>1. tmp' \in File /\ tmp'.data = tmp.data /\ tmp'.synced
    BY <1>6, SyncField DEF Sync
  <2> QED
    BY <1>6, <2>1 DEF Sync, source, args, events
<1>7. CASE Close
  BY <1>7 DEF Close, source, args, events
<1>8. CASE Chmod
  <2>1. tmp \in File /\ want.mode \in Modes
    BY <1>8 DEF Chmod, Attrs
  <2>2. /\ tmp' \in File /\ tmp'.data = tmp.data /\ tmp'.synced = tmp.synced
        /\ tmp'.mode = want.mode
    BY <1>8, <2>1, ModeField DEF Chmod
  <2> QED
    BY <1>8, <2>2 DEF Chmod, source, args, events
<1>9. CASE Chown
  <2>1. tmp \in File /\ want.owner \in Owners
    BY <1>9 DEF Chown, Attrs
  <2>2. /\ tmp' \in File /\ tmp'.data = tmp.data /\ tmp'.synced = tmp.synced
        /\ tmp'.mode = tmp.mode /\ tmp'.owner = want.owner
    BY <1>9, <2>1, OwnerField DEF Chown
  <2> QED
    BY <1>9, <2>2 DEF Chown, source, args, events
<1>10. CASE Rename
  BY <1>10 DEF Rename, source, args, events
<1>11. CASE Cleanup
  BY <1>11 DEF Cleanup, source, args
<1>12. CASE CallFails
  BY <1>12 DEF CallFails, source, args, events
<1>13. CASE \E n \in TempNames : SyncTempPath(n)
  BY <1>13 DEF SyncTempPath, source, args
<1>14. CASE Kill
  BY <1>14 DEF Kill, Stops, TempFile, source, args
<1>15. CASE PowerLoss
  <2>1. PICK f \in {file, base} : file' \in Remains(f) /\ base' = file'
    BY <1>15 DEF PowerLoss
  <2>2. file' = f
    BY <2>1 DEF Remains
  <2> QED
    BY <1>15, <2>1, <2>2 DEF PowerLoss, Stops, TempFile, source, args
<1>16. CASE Restart
  BY <1>16 DEF Restart, source, args
<1>17. CASE EditSource
  BY <1>17 DEF EditSource, args, events
<1>18. CASE DriftTarget
  BY <1>18 DEF DriftTarget, source, args, events
<1>19. CASE Settle
  BY <1>19 DEF Settle, source, args, events
<1>20. CASE UNCHANGED vars
  BY <1>20 DEF vars
<1> QED
  BY <1>1, <1>2, <1>3, <1>4, <1>5, <1>6, <1>7, <1>8, <1>9, <1>10, <1>11, <1>12, <1>13,
     <1>14, <1>15, <1>16, <1>17, <1>18, <1>19, <1>20 DEF Next, WriterStep

\* The temporary file and the path hold what each call of WriteAtomic relies on.
THEOREM WriterInvariant == Spec => []IndInv
<1>1. IndInv /\ [Next]_vars => IndInv'
  BY InvStep
<1> QED
  BY <1>1, InvInit, PTL DEF Spec

-----------------------------------------------------------------------------
(* The refinement.                                                         *)

LEMMA AbstractInit == Init => Atomic!Init
<1> SUFFICES ASSUME Init PROVE Atomic!Init
  OBVIOUS
<1>1. file \in File \cup {NoFile} /\ base = file
  BY DEF Init
<1>2. Visible(file) \in Atomic!File \cup {NoFile}
  BY <1>1 DEF Visible, File, Atomic!File
<1>3. want \in [mode : Modes, owner : Owners]
  BY DEF Init, Attrs
<1> QED
  BY <1>1, <1>2, <1>3 DEF Init, Atomic!Init

\* Every step of the writer is a step of AtomicFile, or invisible in it.
LEMMA AbstractStep ==
    ASSUME IndInv, [Next]_vars
    PROVE  [Atomic!Next]_(Atomic!vars)
<1> USE DEF IndInv
<1>1. CASE Start
  <2>1. Atomic!Begin
    BY <1>1 DEF Start, Atomic!Begin, TempAgrees, Calls, Attrs
  <2> QED
    BY <2>1 DEF Atomic!Next
<1>2. CASE CreateTemp \/ Sync \/ Close \/ Chmod \/ Chown
           \/ (\E n \in TempNames : SyncTempPath(n)) \/ Restart \/ EditSource
  BY <1>2 DEF CreateTemp, Sync, Close, Chmod, Chown, SyncTempPath, Restart, EditSource,
     source, args, Atomic!vars
<1>3. CASE CreateCollides \/ Cleanup
  <2>1. Atomic!Fail
    BY <1>3 DEF CreateCollides, Cleanup, Atomic!Fail, TempAgrees, Calls, source, args
  <2> QED
    BY <2>1 DEF Atomic!Next
<1>4. CASE CopyChunk \/ CopyEnd
  <2>1. Atomic!Deliver
    BY <1>4 DEF CopyChunk, CopyEnd, Atomic!Deliver, TempAgrees, TypeOK, Calls, args
  <2> QED
    BY <2>1 DEF Atomic!Next
<1>5. CASE Rename
  <2>1. Visible(tmp) = [data |-> stream, mode |-> want.mode, owner |-> want.owner]
    BY <1>5 DEF Rename, Visible, TempAgrees, Calls
  <2>2. Atomic!Install
    BY <1>5, <2>1 DEF Rename, Atomic!Install, TempAgrees, Calls, source, args
  <2> QED
    BY <2>2 DEF Atomic!Next
<1>6. CASE CallFails
  <2>1. CASE pc = "create"
    <3>1. Atomic!Fail
      BY <1>6, <2>1 DEF CallFails, Atomic!Fail, TempAgrees, Calls, source, args
    <3> QED
      BY <3>1 DEF Atomic!Next
  <2>2. CASE pc # "create"
    BY <1>6, <2>2 DEF CallFails, source, args, Atomic!vars
  <2> QED
    BY <2>1, <2>2
<1>7. CASE Kill
  <2>1. Atomic!Crash
    BY <1>7 DEF Kill, Stops, Atomic!Crash, source, args
  <2> QED
    BY <2>1 DEF Atomic!Next
<1>8. CASE PowerLoss
  <2>1. PICK f \in {file, base} : file' \in Remains(f) /\ base' = file'
    BY <1>8 DEF PowerLoss
  <2>2. file' = f
    BY <2>1 DEF Remains, PathDurable
  <2>3. Atomic!Crash
    BY <1>8, <2>1, <2>2 DEF PowerLoss, Stops, Atomic!Crash, source, args
  <2> QED
    BY <2>3 DEF Atomic!Next
<1>9. CASE DriftTarget
  <2>1. file' \in File \cup {NoFile} /\ base' = file'
    BY <1>9 DEF DriftTarget
  <2>2. Visible(file') \in Atomic!File \cup {NoFile}
    BY <2>1 DEF Visible, File, Atomic!File
  <2>3. Atomic!Drift
    BY <1>9, <2>1, <2>2 DEF DriftTarget, Atomic!Drift, source, args
  <2> QED
    BY <2>3 DEF Atomic!Next
<1>10. CASE Settle
  <2>1. Atomic!Settle
    BY <1>10 DEF Settle, Atomic!Settle, source, args
  <2> QED
    BY <2>1 DEF Atomic!Next
<1>11. CASE UNCHANGED vars
  BY <1>11 DEF vars, Atomic!vars
<1> QED
  BY <1>1, <1>2, <1>3, <1>4, <1>5, <1>6, <1>7, <1>8, <1>9, <1>10, <1>11
     DEF Next, WriterStep

\* WriteAtomic implements the atomic replacement of the file at the path: for a
\* concurrent reader, and for a reader after a crash or a power loss.
THEOREM WriterRefines == Spec => ReplacesAtomically
<1>1. Init => Atomic!Init
  BY AbstractInit
<1>2. IndInv /\ [Next]_vars => [Atomic!Next]_(Atomic!vars)
  BY AbstractStep
<1> QED
  BY <1>1, <1>2, WriterInvariant, PTL DEF Spec, ReplacesAtomically, Atomic!Spec

-----------------------------------------------------------------------------
(* The temporary files that stay behind.                                   *)

\* The name of the running write has an event as soon as the file exists, and the
\* consumer cannot get to it before the write has ended.
LitterInv ==
    /\ LitterTracked
    /\ pc \in (Calls \ {"create"}) \cup {"cleanup"} => name \in queued

LEMMA LitterStep ==
    ASSUME LitterInv, [Next]_vars
    PROVE  LitterInv'
<1> USE DEF LitterInv, LitterTracked, Calls
<1>1. CASE Start \/ CreateCollides \/ CopyChunk \/ CopyEnd \/ Sync \/ Close \/ Chmod
           \/ Chown \/ Rename \/ CallFails
  BY <1>1 DEF Start, CreateCollides, CopyChunk, CopyEnd, Sync, Close, Chmod, Chown, Rename,
     CallFails, events, args
<1>2. CASE CreateTemp
  BY <1>2 DEF CreateTemp, args
<1>3. CASE Cleanup
  BY <1>3 DEF Cleanup, args
<1>4. CASE \E n \in TempNames : SyncTempPath(n)
  <2>1. PICK n \in TempNames : SyncTempPath(n)
    BY <1>4
  <2>2. litter' = litter \ {n} /\ queued' = queued \ {n} /\ pc = "idle" /\ pc' = "idle"
    BY <2>1 DEF SyncTempPath
  <2> QED
    BY <2>2
<1>5. CASE Kill \/ PowerLoss
  BY <1>5 DEF Kill, PowerLoss, Stops
<1>6. CASE Restart
  BY <1>6 DEF Restart
<1>7. CASE EditSource \/ DriftTarget \/ Settle \/ UNCHANGED vars
  BY <1>7 DEF EditSource, DriftTarget, Settle, vars, events, args
<1> QED
  BY <1>1, <1>2, <1>3, <1>4, <1>5, <1>6, <1>7 DEF Next, WriterStep

\* Every temporary file that a failed removal left behind has an event on its way
\* to SyncPath, which removes it, as long as the agent runs.
THEOREM LitterHasEvents == Spec => []LitterTracked
<1>1. Init => LitterInv
  BY DEF Init, LitterInv, LitterTracked, Calls
<1>2. LitterInv /\ [Next]_vars => LitterInv'
  BY LitterStep
<1>3. LitterInv => LitterTracked
  BY DEF LitterInv
<1> QED
  BY <1>1, <1>2, <1>3, PTL DEF Spec
=============================================================================
