------------------------------ MODULE SyncPath ------------------------------
(***************************************************************************)
(* SyncPath.Execute on one relative path.  Every call the use case makes   *)
(* on a port is a step; between two steps the source can be edited and the *)
(* target can drift, so what a Stat or a Hash returned may be stale when   *)
(* it is used.                                                             *)
(*                                                                         *)
(* pending stands for the reasons to reconcile the path that the watcher   *)
(* holds: an event of either watch, or a retry.  Repeated events of the    *)
(* path are one reason.  The agent's own writes to the target come back as *)
(* events of the target watch.                                             *)
(***************************************************************************)
EXTENDS FileNodes

CONSTANTS
    Process,        \* the uid and gid the agent runs under
    SourceStates,   \* the [entry, pointee] pairs users leave in the source
    Drifts          \* the entries out-of-band writers leave in the target

SourceState == [entry : ProperEntry, pointee : ProperEntry]

ASSUME ProcessAssumption      == Process \in [uid : Uids, gid : Gids]
ASSUME SourceStatesAssumption == SourceStates \subseteq SourceState
ASSUME DriftsAssumption       == Drifts \subseteq ProperEntry

VARIABLES
    source,   \* the source path: its entry, and what is behind it if a link
    tgt,      \* the entry at the target path
    pending,  \* a reconciliation of the path is due
    pc,       \* the port call Execute makes next
    src,      \* the local src: the source FileNode, overrides applied
    old,      \* the local tgt: the target FileNode, as seen or as left by coerce
    srcHash,  \* the content behind the local srcHash
    body,     \* the content the open source file delivers
    result,   \* what the last Execute returned
    \* History, read by the properties only.
    calm,     \* nobody else touched either side since Execute began
    seen,     \* the kinds the source path has had since Execute began
    clean,    \* the target mirrored the source when Execute began
    wrote     \* Execute has changed the target

world == <<source, tgt>>
local == <<src, old, srcHash, body>>
ghost == <<calm, seen, clean, wrote>>
vars  == <<source, tgt, pending, pc, src, old, srcHash, body, result,
           calm, seen, clean, wrote>>

Mirrored ==
    LET w == Wanted(source.entry, source.pointee)
    IN  /\ tgt.kind = w.kind
        /\ w.kind # "absent" => /\ tgt.mode = w.mode
                                /\ tgt.uid = w.uid
                                /\ tgt.gid = w.gid
        /\ w.kind = "file" =>
             tgt.content = ContentBehind(source.entry, source.pointee)

Calls == {"statSource", "statTarget", "remove", "coerce", "hashSource",
          "hashTarget", "open", "write", "mkdir", "mkdirChmod", "mkdirChown",
          "chmod", "chown"}

TypeOK ==
    /\ source \in SourceState
    /\ tgt \in ProperEntry
    /\ pending \in BOOLEAN
    /\ pc \in Calls \cup {"idle"}
    /\ src \in FileNode /\ old \in FileNode
    /\ srcHash \in Contents \cup {NoContent}
    /\ body \in Contents \cup {NoContent}
    /\ result \in {"none", "ok", "error"}
    /\ calm \in BOOLEAN /\ clean \in BOOLEAN /\ wrote \in BOOLEAN
    /\ seen \subseteq Kinds

\* At start-up InitialSync has the path to reconcile, whatever the two sides hold.
Init ==
    /\ source \in SourceStates
    /\ tgt \in Drifts
    /\ pending = TRUE
    /\ pc = "idle"
    /\ src = AbsentNode /\ old = AbsentNode
    /\ srcHash = NoContent /\ body = NoContent
    /\ result = "none"
    /\ calm = TRUE /\ seen = {} /\ clean = FALSE /\ wrote = FALSE

(***************************************************************************)
(* How a call of Execute ends.  An error makes the watcher retry the path. *)
(***************************************************************************)
Return ==
    /\ pc' = "idle"
    /\ result' = "ok"

\* Slip: the failed path is not requeued.
FailWithoutRetry ==
    /\ pc' = "idle"
    /\ result' = "error"
    /\ UNCHANGED pending

Fail ==
    /\ pc' = "idle"
    /\ result' = "error"
    /\ pending' = TRUE

\* A change of the target by the agent, seen by the target watch.
Write(entry) ==
    /\ tgt' = entry
    /\ pending' = TRUE
    /\ wrote' = TRUE

Execute ==
    /\ pc = "idle" /\ pending
    /\ pending' = FALSE
    /\ pc' = "statSource"
    /\ calm' = TRUE
    /\ seen' = {Wanted(source.entry, source.pointee).kind}
    /\ clean' = Mirrored
    /\ wrote' = FALSE
    /\ src' = AbsentNode /\ old' = AbsentNode
    /\ srcHash' = NoContent /\ body' = NoContent
    /\ UNCHANGED <<world, result>>

\* Slip: an error of the source's Stat is taken for an absent path.
StatSourceErrorIsAbsence ==
    /\ pc = "statSource"
    /\ src' \in {Wanted(source.entry, source.pointee), AbsentNode}
    /\ pc' = "statTarget"
    /\ UNCHANGED <<world, pending, old, srcHash, body, result, ghost>>

StatSourcePath ==
    /\ pc = "statSource"
    /\ src' = Wanted(source.entry, source.pointee)
    /\ pc' = "statTarget"
    /\ UNCHANGED <<world, pending, old, srcHash, body, result, ghost>>

(***************************************************************************)
(* The decisions of Execute, reconcileFile, reconcileDir, fileNeedsRewrite *)
(* and syncMetadata: which call comes next, for what the calls so far have *)
(* returned.                                                               *)
(***************************************************************************)
\* Slip: chown only when both ids differ.
AfterModeBothIds(s, t) ==
    IF s.uid # t.uid /\ s.gid # t.gid THEN "chown" ELSE "idle"

AfterMode(s, t) ==
    IF s.uid # t.uid \/ s.gid # t.gid THEN "chown" ELSE "idle"

\* Slip: the mode is set without comparing it first.
SyncMetadataAlways(s, t) == "chmod"

SyncMetadata(s, t) ==
    IF s.mode # t.mode THEN "chmod" ELSE AfterMode(s, t)

\* Slip: a file is rewritten without comparing sizes and hashes.
ReconcileKindRewrites(s, t) ==
    CASE s.kind = "file" -> "open"
      [] s.kind = "dir" ->
           IF t.kind = "absent" THEN "mkdir" ELSE SyncMetadata(s, t)
      [] OTHER -> "idle"

ReconcileKind(s, t) ==
    CASE s.kind = "file" ->
           IF t.kind = "absent" \/ s.size # t.size THEN "open" ELSE "hashSource"
      [] s.kind = "dir" ->
           IF t.kind = "absent" THEN "mkdir" ELSE SyncMetadata(s, t)
      [] OTHER -> "idle"

Decide(s, t) ==
    CASE s.kind = "absent" /\ t.kind = "absent" -> "idle"
      [] s.kind = "absent" /\ t.kind # "absent" -> "remove"
      [] s.kind # "absent" /\ t.kind \notin {s.kind, "absent"} -> "coerce"
      [] OTHER -> ReconcileKind(s, t)

\* Go on with call c, or return nil when there is none left to make.
Continue(c) == IF c = "idle" THEN Return ELSE pc' = c /\ UNCHANGED result

StatTargetPath ==
    /\ pc = "statTarget"
    /\ old' = NodeOf(tgt)
    /\ Continue(Decide(src, NodeOf(tgt)))
    /\ UNCHANGED <<world, pending, src, srcHash, body, ghost>>

\* reconcileAbsent: EntryRemover.Remove is recursive, and idempotent.
ReconcileAbsent ==
    /\ pc = "remove"
    /\ Return
    /\ Write(NoEntry)
    /\ UNCHANGED <<source, local, calm, seen, clean>>

\* coerceTargetKind: the caller goes on with an absent target node.
CoerceTargetKind ==
    /\ pc = "coerce"
    /\ Write(NoEntry)
    /\ old' = AbsentNode
    /\ Continue(ReconcileKind(src, AbsentNode))
    /\ UNCHANGED <<source, src, srcHash, body, calm, seen, clean>>

(***************************************************************************)
(* Reading.  Open follows links; anything that is not a file then fails,   *)
(* at the open or at the first read.                                       *)
(***************************************************************************)
SourceContent == ContentBehind(source.entry, source.pointee)

HashSource ==
    /\ pc = "hashSource"
    /\ \/ /\ SourceContent \in Contents
          /\ srcHash' = SourceContent
          /\ pc' = "hashTarget"
          /\ UNCHANGED <<pending, result>>
       \/ /\ SourceContent \notin Contents
          /\ Fail
          /\ UNCHANGED srcHash
    /\ UNCHANGED <<world, src, old, body, ghost>>

\* A link that drift left at the target path may lead to any file of the target.
TargetReads == IF tgt.kind = "symlink" THEN Contents ELSE {tgt.content} \cap Contents

HashTarget ==
    /\ pc = "hashTarget"
    /\ \/ \E c \in TargetReads :
            /\ Continue(IF c = srcHash THEN SyncMetadata(src, old) ELSE "open")
            /\ UNCHANGED pending
       \/ tgt.kind # "file" /\ Fail
    /\ srcHash' = NoContent
    /\ UNCHANGED <<world, src, old, body, ghost>>

OpenSource ==
    /\ pc = "open"
    /\ \/ /\ SourceContent \in Contents
          /\ body' = SourceContent
          /\ pc' = "write"
          /\ UNCHANGED <<pending, result>>
       \/ /\ SourceContent \notin Contents
          /\ Fail
          /\ UNCHANGED body
    /\ UNCHANGED <<world, src, old, srcHash, ghost>>

(***************************************************************************)
(* Writing.  WriteAtomic is one step here (module ContentWriter has its    *)
(* own); Mkdir is three, because its intermediate states are visible.      *)
(***************************************************************************)
WithAttrs(kind, node, content) ==
    [kind |-> kind, mode |-> node.mode, uid |-> node.uid, gid |-> node.gid,
     content |-> content]

\* The rename replaces whatever is at the path, but not a directory.
WriteAtomic ==
    /\ pc = "write"
    /\ \/ /\ tgt.kind # "dir"
          /\ Return
          /\ Write(WithAttrs("file", src, body))
       \/ /\ tgt.kind = "dir"
          /\ Fail
          /\ UNCHANGED <<tgt, wrote>>
    /\ body' = NoContent
    /\ UNCHANGED <<source, src, old, srcHash, calm, seen, clean>>

\* Mkdir of the missing leaf: the umask and the process's ids apply first.
MkdirCreate ==
    /\ pc = "mkdir"
    /\ tgt.kind = "absent"
    /\ \E m \in Modes :
         Write(WithAttrs("dir", [mode |-> m, uid |-> Process.uid, gid |-> Process.gid],
                         NoContent))
    /\ pc' = "mkdirChmod"
    /\ UNCHANGED <<source, local, result, calm, seen, clean>>

\* Something appeared there after the stat: a directory, also one behind a
\* link, is left alone, anything else is an error.
MkdirExists ==
    /\ pc = "mkdir"
    /\ tgt.kind # "absent"
    /\ \/ tgt.kind \in {"dir", "symlink"} /\ Return /\ UNCHANGED pending
       \/ tgt.kind \in {"file", "symlink"} /\ Fail
    /\ UNCHANGED <<world, local, ghost>>

\* Chmod and Chown follow a link at the path, whose own entry stays as it is.
SetAttrs(attrs, next) ==
    \/ /\ tgt.kind \in {"file", "dir"}
       /\ Write(WithAttrs(tgt.kind, attrs, tgt.content))
       /\ Continue(next)
    \/ /\ tgt.kind = "symlink"
       /\ Continue(next)
       /\ UNCHANGED <<tgt, pending, wrote>>
    \/ /\ tgt.kind \in {"absent", "symlink"}
       /\ Fail
       /\ UNCHANGED <<tgt, wrote>>

Chmod(call, next) ==
    /\ pc = call
    /\ SetAttrs([mode |-> src.mode, uid |-> tgt.uid, gid |-> tgt.gid], next)
    /\ UNCHANGED <<source, local, calm, seen, clean>>

Chown(call) ==
    /\ pc = call
    /\ SetAttrs([mode |-> tgt.mode, uid |-> src.uid, gid |-> src.gid], "idle")
    /\ UNCHANGED <<source, local, calm, seen, clean>>

MkdirChmod    == Chmod("mkdirChmod", "mkdirChown")
MkdirChown    == Chown("mkdirChown")
MetadataChmod == Chmod("chmod", AfterMode(src, old))
MetadataChown == Chown("chown")

(***************************************************************************)
(* Faults and other actors.                                                *)
(***************************************************************************)
\* Any call can fail without effect: permissions, I/O errors, a full disk, an
\* access error behind a followed link.  Every error is returned at once.
CallFails ==
    /\ pc \in Calls
    /\ Fail
    /\ UNCHANGED <<world, local, ghost>>

\* Users change the source.  A file that is being copied may be changed in
\* place: the copy then delivers some mix of its versions.
EditSource ==
    /\ \E s \in SourceStates :
         /\ s # source
         /\ source' = s
         /\ seen' = seen \cup {Wanted(s.entry, s.pointee).kind}
    /\ body' \in IF pc = "write" THEN Contents ELSE {body}
    /\ pending' = TRUE
    /\ calm' = FALSE
    /\ UNCHANGED <<tgt, pc, src, old, srcHash, result, clean, wrote>>

\* Somebody else changes the target.
DriftTarget ==
    /\ \E e \in Drifts : e # tgt /\ tgt' = e
    /\ pending' = TRUE
    /\ calm' = FALSE
    /\ UNCHANGED <<source, pc, local, result, seen, clean, wrote>>

Step ==
    \/ Execute \/ StatSourcePath \/ StatTargetPath
    \/ ReconcileAbsent \/ CoerceTargetKind
    \/ HashSource \/ HashTarget \/ OpenSource \/ WriteAtomic
    \/ MkdirCreate \/ MkdirExists \/ MkdirChmod \/ MkdirChown
    \/ MetadataChmod \/ MetadataChown

Next == Step \/ CallFails \/ EditSource \/ DriftTarget

\* The consumer goroutine keeps serving its queue and every call returns.
Spec == Init /\ [][Next]_vars /\ WF_vars(Step)

(***************************************************************************)
(* Properties.                                                             *)
(***************************************************************************)

\* An Execute that returned nil, during which nobody else touched the path,
\* has made the target mirror the source: kind, content, mode, uid and gid.
SuccessMirrors ==
    pc = "idle" /\ result = "ok" /\ calm => Mirrored

\* No divergence is forgotten: with no event and no retry outstanding the two
\* sides agree, whatever edits, drifts and errors raced with the calls.
NoLostWork ==
    pc = "idle" /\ ~pending => Mirrored

\* Reconciling a path that is in sync writes nothing.  The target watch reports
\* every write of the agent, so one that is not needed would feed itself.
Idempotent ==
    calm /\ clean => ~wrote

\* Execute removes the target entry only when the source path really was of
\* another kind at some moment since it began: an error while looking at the
\* source is never taken for an absence.
RemovalJustified ==
    [][ tgt.kind # "absent" /\ tgt'.kind = "absent" /\ pc' # pc
          => \E k \in seen : k # old.kind ]_vars

\* Once users, drift and errors leave the path alone, the agent brings the
\* target in line and then stops: its own events do not keep it busy.
Settles ==
    (<>[][Step]_vars) => <>[](pc = "idle" /\ ~pending /\ Mirrored)

(***************************************************************************)
(* The inductive invariant: what each call relies on.  Facts about the     *)
(* other side of a call hold only while nobody else has interfered (calm). *)
(***************************************************************************)
Deciding == pc \notin {"idle", "statSource"}

\* What the local variables hold, whatever has happened since they were read.
LocalsAgree ==
    /\ Deciding => src.kind # "symlink"
    /\ pc = "remove" => src.kind = "absent" /\ old.kind # "absent"
    /\ pc = "coerce" => /\ src.kind \in {"file", "dir"}
                       /\ old.kind \notin {src.kind, "absent"}
    /\ pc \in {"hashSource", "hashTarget", "open", "write"} => src.kind = "file"
    /\ pc = "write" => body \in Contents
    /\ pc \in {"mkdir", "mkdirChmod", "mkdirChown"} => src.kind = "dir"
    /\ pc \in {"chmod", "chown"} => src.kind \in {"file", "dir"}

\* What they say of the two sides as long as nobody else has touched the path.
Fresh ==
    calm =>
      /\ Deciding => src = Wanted(source.entry, source.pointee)
      /\ pc \in {"hashSource", "hashTarget", "chmod"} => old = NodeOf(tgt)
      /\ pc \in {"hashSource", "hashTarget"} => tgt.kind = "file"
      /\ pc = "hashTarget" => srcHash = SourceContent
      /\ pc = "write" => body = SourceContent
      /\ pc = "mkdir" => tgt.kind = "absent"
      /\ pc \in {"mkdirChmod", "mkdirChown"} => tgt.kind = "dir"
      /\ pc \in {"mkdirChown", "chown"} => tgt.mode = src.mode
      /\ pc \in {"chmod", "chown"} =>
           /\ tgt.kind = src.kind
           /\ src.kind = "file" => tgt.content = SourceContent

\* Why nothing is forgotten: a raced or failed Execute has set pending.
Accounted ==
    ~pending => calm /\ (pc = "idle" => result = "ok")

\* What Execute knows of the source was true since it began.
SeenAgrees ==
    pc # "idle" => /\ Wanted(source.entry, source.pointee).kind \in seen
                   /\ Deciding => src.kind \in seen

\* A path that was in sync stays so, and only reading calls are made for it.
StaysClean ==
    calm /\ clean =>
      /\ ~wrote
      /\ pc # "idle" => /\ Mirrored
                        /\ pc \in {"statSource", "statTarget", "hashSource", "hashTarget"}

IndInv ==
    TypeOK /\ LocalsAgree /\ Fresh /\ Accounted /\ SeenAgrees /\ StaysClean /\ SuccessMirrors
=============================================================================
