-------------------------- MODULE SyncPath_proofs --------------------------
(***************************************************************************)
(* Proofs about SyncPath for every set of contents, attributes, source     *)
(* states and drifts, and for every configuration of overrides.            *)
(***************************************************************************)
EXTENDS SyncPath, TLAPS

USE ContentsAssumption, SizeAssumption, AttrAssumption, OverrideAssumption,
    FollowAssumption, ProcessAssumption, SourceStatesAssumption, DriftsAssumption

-----------------------------------------------------------------------------
(* Facts about the operators of FileNodes.                                 *)

\* An absent path is an entry like any other, and an absent node describes it.
LEMMA NoEntryProper == NoEntry \in ProperEntry /\ NodeOf(NoEntry) = AbsentNode
BY DEF NoEntry, ProperEntry, Entry, Kinds, NodeOf, AbsentNode

\* Lstat describes an entry by a node of the same kind.
LEMMA NodeOfType ==
    ASSUME NEW e \in ProperEntry
    PROVE  NodeOf(e) \in FileNode /\ NodeOf(e).kind = e.kind
BY DEF ProperEntry, Entry, NodeOf, FileNode

LEMMA AbsentNodeType == AbsentNode \in FileNode
BY DEF AbsentNode, FileNode, Kinds

\* The overrides keep the kind and the size of a node.
LEMMA ApplyType ==
    ASSUME NEW n \in FileNode
    PROVE  /\ apply(n) \in FileNode
           /\ apply(n).kind = n.kind
           /\ apply(n).size = n.size
BY DEF apply, Override, FileNode, MetadataOverrides

\* What a source state asks of the target: never a symlink, and for a file the
\* size of the content a reader of the path gets.
LEMMA WantedType ==
    ASSUME NEW s \in SourceState
    PROVE  LET w == Wanted(s.entry, s.pointee)
           IN  /\ w \in FileNode
               /\ w.kind # "symlink"
               /\ w.kind = "file" =>
                    /\ ContentBehind(s.entry, s.pointee) \in Contents
                    /\ w.size = SizeOf[ContentBehind(s.entry, s.pointee)]
               /\ ContentBehind(s.entry, s.pointee) \in Contents \cup {NoContent}
<1> DEFINE n == StatSource(s.entry, s.pointee)
           d == IF n.kind = "symlink" THEN AbsentNode ELSE n
<1>1. s.entry \in ProperEntry /\ s.pointee \in ProperEntry
  BY DEF SourceState
<1>2. n \in FileNode
  BY <1>1, NodeOfType, AbsentNodeType DEF StatSource
<1>3. d \in FileNode /\ d.kind # "symlink"
  BY <1>2, AbsentNodeType DEF AbsentNode
<1>4. /\ apply(d) \in FileNode
      /\ apply(d).kind = d.kind
      /\ apply(d).size = d.size
  BY <1>3, ApplyType
<1>5. Wanted(s.entry, s.pointee) = apply(d)
  BY DEF Wanted
<1>6. ASSUME d.kind = "file"
      PROVE  /\ ContentBehind(s.entry, s.pointee) \in Contents
             /\ d.size = SizeOf[ContentBehind(s.entry, s.pointee)]
  BY <1>1, <1>6 DEF StatSource, NodeOf, AbsentNode, ContentBehind, ProperEntry, Entry
<1>7. ContentBehind(s.entry, s.pointee) \in Contents \cup {NoContent}
  BY <1>1 DEF ContentBehind, ProperEntry, Entry
<1> QED
  BY <1>3, <1>4, <1>5, <1>6, <1>7

-----------------------------------------------------------------------------
(* Facts about the decisions of Execute.                                   *)

\* syncMetadata compares the mode first, then the owner.
LEMMA SyncMetadataFacts ==
    ASSUME NEW s \in FileNode, NEW t \in FileNode
    PROVE  /\ AfterMode(s, t) \in {"chown", "idle"}
           /\ AfterMode(s, t) = "idle" <=> s.uid = t.uid /\ s.gid = t.gid
           /\ SyncMetadata(s, t) \in {"chmod", "chown", "idle"}
           /\ SyncMetadata(s, t) = "chown" => s.mode = t.mode
           /\ SyncMetadata(s, t) = "idle" <=>
                s.mode = t.mode /\ s.uid = t.uid /\ s.gid = t.gid
BY DEF AfterMode, SyncMetadata

\* What holds of the two nodes when a call is chosen for them.
LEMMA ReconcileKindFacts ==
    ASSUME NEW s \in FileNode, NEW t \in FileNode,
           s.kind \in {"file", "dir"},
           NEW c, c = ReconcileKind(s, t)
    PROVE  /\ c \in {"open", "hashSource", "mkdir", "chmod", "chown", "idle"}
           /\ c \in {"open", "hashSource"} <=> s.kind = "file"
           /\ c = "hashSource" => t.kind # "absent"
           /\ s.kind = "file" /\ t.kind = "file" /\ s.size = t.size => c = "hashSource"
           /\ c = "mkdir" <=> s.kind = "dir" /\ t.kind = "absent"
           /\ c = "chown" => s.mode = t.mode
           /\ s.kind = "dir" /\ t.kind # "absent" =>
                (c = "idle" <=> s.mode = t.mode /\ s.uid = t.uid /\ s.gid = t.gid)
<1>1. CASE s.kind = "file"
  <2>1. ReconcileKind(s, t) =
          IF t.kind = "absent" \/ s.size # t.size THEN "open" ELSE "hashSource"
    BY <1>1 DEF ReconcileKind
  <2> QED
    BY <1>1, <2>1
<1>2. CASE s.kind = "dir"
  <2>1. ReconcileKind(s, t) = IF t.kind = "absent" THEN "mkdir" ELSE SyncMetadata(s, t)
    BY <1>2 DEF ReconcileKind
  <2> QED
    BY <1>2, <2>1, SyncMetadataFacts
<1> QED
  BY <1>1, <1>2

\* The same for the choice made when both sides have been looked at.
LEMMA DecideFacts ==
    ASSUME NEW s \in FileNode, NEW t \in FileNode, s.kind # "symlink",
           NEW c, c = Decide(s, t)
    PROVE  /\ c \in {"remove", "coerce", "open", "hashSource", "mkdir", "chmod", "chown", "idle"}
           /\ c = "remove" => s.kind = "absent" /\ t.kind # "absent"
           /\ c = "coerce" => s.kind \in {"file", "dir"} /\ t.kind \notin {s.kind, "absent"}
           /\ c = "open" => s.kind = "file"
           /\ c = "hashSource" => s.kind = "file" /\ t.kind = "file"
           /\ c = "mkdir" => s.kind = "dir" /\ t.kind = "absent"
           /\ c \in {"chmod", "chown"} => s.kind = "dir" /\ t.kind = "dir"
           /\ c = "chown" => s.mode = t.mode
           /\ c = "idle" =>
                /\ t.kind = s.kind /\ s.kind \in {"absent", "dir"}
                /\ s.kind = "dir" => s.mode = t.mode /\ s.uid = t.uid /\ s.gid = t.gid
           /\ /\ t.kind = s.kind
              /\ s.kind = "file" => s.size = t.size
              /\ s.kind = "dir" => s.mode = t.mode /\ s.uid = t.uid /\ s.gid = t.gid
              => c \in {"idle", "hashSource"}
<1>1. s.kind \in {"absent", "file", "dir"}
  BY DEF FileNode, Kinds
<1>2. CASE s.kind = "absent"
  <2>1. c = IF t.kind = "absent" THEN "idle" ELSE "remove"
    BY <1>2 DEF Decide
  <2> QED
    BY <1>2, <2>1
<1>3. CASE s.kind # "absent" /\ t.kind \notin {s.kind, "absent"}
  <2>1. c = "coerce"
    BY <1>3 DEF Decide
  <2> QED
    BY <1>1, <1>3, <2>1
<1>4. CASE s.kind # "absent" /\ t.kind \in {s.kind, "absent"}
  <2>1. c = ReconcileKind(s, t)
    BY <1>1, <1>4 DEF Decide
  <2> QED
    BY <1>1, <1>4, <2>1, ReconcileKindFacts
<1> QED
  BY <1>2, <1>3, <1>4

\* What the agent's writes leave at the target path is a proper entry.
LEMMA WithAttrsFacts ==
    ASSUME NEW n, n.mode \in Modes, n.uid \in Uids, n.gid \in Gids
    PROVE  /\ WithAttrs("dir", n, NoContent) \in ProperEntry
           /\ \A c \in Contents : WithAttrs("file", n, c) \in ProperEntry
           /\ \A e \in ProperEntry : WithAttrs(e.kind, n, e.content) \in ProperEntry
BY DEF WithAttrs, ProperEntry, Entry, Kinds

-----------------------------------------------------------------------------
(* Type correctness, together with the one fact it leans on: WriteAtomic   *)
(* is only reached with the content of a file in hand.                     *)

TypeInv == TypeOK /\ (pc = "write" => body \in Contents)

\* The next call chosen by the decisions is one of the calls, or none.
LEMMA DecideType ==
    ASSUME NEW s \in FileNode, NEW t \in FileNode
    PROVE  /\ AfterMode(s, t) \in {"chown", "idle"}
           /\ SyncMetadata(s, t) \in {"chmod", "chown", "idle"}
           /\ ReconcileKind(s, t) \in
                {"open", "hashSource", "mkdir", "chmod", "chown", "idle"}
           /\ Decide(s, t) \in {"remove", "coerce", "open", "hashSource", "mkdir",
                               "chmod", "chown", "idle"}
<1>1. AfterMode(s, t) \in {"chown", "idle"}
  BY DEF AfterMode
<1>2. SyncMetadata(s, t) \in {"chmod", "chown", "idle"}
  BY <1>1 DEF SyncMetadata
<1>3. ReconcileKind(s, t) \in {"open", "hashSource", "mkdir", "chmod", "chown", "idle"}
  BY <1>2 DEF ReconcileKind
<1> QED
  BY <1>1, <1>2, <1>3 DEF Decide

LEMMA TypeInit == Init => TypeInv
BY NoEntryProper, AbsentNodeType DEF Init, TypeInv, TypeOK, Calls

\* Next calls chosen by Continue are calls, or the end.
LEMMA ContinueType ==
    ASSUME TypeOK, NEW c \in Calls \cup {"idle"}, Continue(c)
    PROVE  /\ pc' \in Calls \cup {"idle"}
           /\ result' \in {"none", "ok", "error"}
           /\ c # "write" => pc' # "write"
BY DEF TypeOK, Continue, Return, Calls

LEMMA TypeStep ==
    ASSUME TypeInv, [Next]_vars
    PROVE  TypeInv'
<1> USE DEF TypeInv
<1> DEFINE w == Wanted(source.entry, source.pointee)
<1>1. w \in FileNode /\ SourceContent \in Contents \cup {NoContent}
  BY WantedType DEF TypeOK, SourceContent
<1>2. NodeOf(tgt) \in FileNode
  BY NodeOfType DEF TypeOK
<1>3. /\ Decide(src, NodeOf(tgt)) \in (Calls \cup {"idle"}) \ {"write"}
      /\ ReconcileKind(src, AbsentNode) \in (Calls \cup {"idle"}) \ {"write"}
      /\ SyncMetadata(src, old) \in (Calls \cup {"idle"}) \ {"write"}
      /\ AfterMode(src, old) \in (Calls \cup {"idle"}) \ {"write"}
  BY <1>2, AbsentNodeType, DecideType DEF TypeOK, Calls
<1>4. CASE Execute
  BY <1>1, <1>4, AbsentNodeType DEF Execute, TypeOK, Calls, Mirrored, world, FileNode
<1>5. CASE StatSourcePath
  BY <1>1, <1>5 DEF StatSourcePath, TypeOK, Calls, world, ghost
<1>6. CASE StatTargetPath
  BY <1>2, <1>3, <1>6, ContinueType DEF StatTargetPath, TypeOK, world, ghost
<1>7. CASE ReconcileAbsent
  BY <1>7, NoEntryProper DEF ReconcileAbsent, Return, Write, TypeOK, Calls, local
<1>8. CASE CoerceTargetKind
  BY <1>3, <1>8, NoEntryProper, AbsentNodeType, ContinueType
     DEF CoerceTargetKind, Write, TypeOK
<1>9. CASE HashSource
  BY <1>1, <1>9 DEF HashSource, Fail, TypeOK, Calls, world, ghost
<1>10. CASE HashTarget
  <2>1. pc' \in (Calls \cup {"idle"}) \ {"write"} /\ result' \in {"none", "ok", "error"}
    <3>1. CASE \E c \in TargetReads :
                 Continue(IF c = srcHash THEN SyncMetadata(src, old) ELSE "open")
      <4>1. PICK d \in {SyncMetadata(src, old), "open"} : Continue(d)
        BY <3>1
      <4> QED
        BY <1>3, <4>1, ContinueType DEF Calls
    <3>2. CASE Fail
      BY <3>2 DEF Fail, Calls
    <3> QED
      BY <1>10, <3>1, <3>2 DEF HashTarget
  <2> QED
    BY <1>10, <2>1 DEF HashTarget, Fail, TypeOK, world, ghost
<1>11. CASE OpenSource
  BY <1>1, <1>11 DEF OpenSource, Fail, TypeOK, Calls, world, ghost
<1>12. CASE WriteAtomic
  <2>1. src.mode \in Modes /\ src.uid \in Uids /\ src.gid \in Gids
    BY DEF TypeOK, FileNode
  <2>2. WithAttrs("file", src, body) \in ProperEntry
    BY <1>12, <2>1, WithAttrsFacts DEF WriteAtomic
  <2> QED
    BY <1>12, <2>2 DEF WriteAtomic, Return, Fail, Write, TypeOK, Calls
<1>13. CASE MkdirCreate
  BY <1>13, WithAttrsFacts DEF MkdirCreate, Write, TypeOK, Calls, local
<1>14. CASE MkdirExists
  BY <1>14 DEF MkdirExists, Return, Fail, TypeOK, Calls, world, local, ghost
<1>15. ASSUME NEW attrs, attrs.mode \in Modes, attrs.uid \in Uids, attrs.gid \in Gids,
              NEW call \in Calls, pc = call,
              NEW next \in (Calls \cup {"idle"}) \ {"write"}, SetAttrs(attrs, next),
              UNCHANGED <<source, local, calm, seen, clean>>
       PROVE  TypeInv'
  <2>1. WithAttrs(tgt.kind, attrs, tgt.content) \in ProperEntry
    BY <1>15, WithAttrsFacts DEF TypeOK
  <2>2. tgt' \in ProperEntry /\ pending' \in BOOLEAN /\ wrote' \in BOOLEAN
    BY <1>15, <2>1 DEF SetAttrs, Write, Fail, TypeOK
  <2>3. pc' \in (Calls \cup {"idle"}) \ {"write"} /\ result' \in {"none", "ok", "error"}
    BY <1>15, ContinueType DEF SetAttrs, Fail, Calls
  <2> QED
    BY <1>15, <2>2, <2>3 DEF TypeOK, local
<1>16. CASE MkdirChmod \/ MetadataChmod
  <2>1. src.mode \in Modes /\ tgt.uid \in Uids /\ tgt.gid \in Gids
    BY DEF TypeOK, FileNode, ProperEntry, Entry
  <2> QED
    BY <1>3, <1>15, <1>16, <2>1 DEF MkdirChmod, MetadataChmod, Chmod, Calls
<1>17. CASE MkdirChown \/ MetadataChown
  <2>1. tgt.mode \in Modes /\ src.uid \in Uids /\ src.gid \in Gids
    BY DEF TypeOK, FileNode, ProperEntry, Entry
  <2> QED
    BY <1>3, <1>15, <1>17, <2>1 DEF MkdirChown, MetadataChown, Chown, Calls
<1>18. CASE CallFails
  BY <1>18 DEF CallFails, Fail, TypeOK, Calls, world, local, ghost
<1>19. CASE EditSource
  <2>1. PICK s \in SourceStates : source' = s /\ seen' = seen \cup {Wanted(s.entry, s.pointee).kind}
    BY <1>19 DEF EditSource
  <2>2. s \in SourceState /\ Wanted(s.entry, s.pointee).kind \in Kinds
    BY WantedType DEF FileNode
  <2> QED
    BY <1>19, <2>1, <2>2 DEF EditSource, TypeOK
<1>20. CASE DriftTarget
  BY <1>20 DEF DriftTarget, TypeOK, local
<1>21. CASE UNCHANGED vars
  BY <1>21 DEF vars, TypeOK
<1> QED
  BY <1>4, <1>5, <1>6, <1>7, <1>8, <1>9, <1>10, <1>11, <1>12, <1>13, <1>14, <1>16, <1>17,
     <1>18, <1>19, <1>20, <1>21 DEF Next, Step

\* Every reachable state is well typed; in particular what the agent writes at
\* the target path is a file with a content or something without one.
THEOREM TypeCorrect == Spec => []TypeOK
<1>1. Init => TypeInv
  BY TypeInit
<1>2. TypeInv /\ [Next]_vars => TypeInv'
  BY TypeStep
<1>3. TypeInv => TypeOK
  BY DEF TypeInv
<1> QED
  BY <1>1, <1>2, <1>3, PTL DEF Spec

-----------------------------------------------------------------------------
(* The safety properties, by the inductive invariant IndInv.  Type         *)
(* correctness of the next state is taken from TypeStep.                   *)

Parts == LocalsAgree /\ Fresh /\ Accounted /\ SeenAgrees /\ StaysClean /\ SuccessMirrors

LEMMA SafetyInit == Init => IndInv
BY TypeInit DEF Init, TypeInv, IndInv, LocalsAgree, Fresh, Accounted, SeenAgrees,
   StaysClean, SuccessMirrors, Deciding

LEMMA SafetyStep ==
    ASSUME IndInv, Next
    PROVE  Parts'
<1> USE DEF IndInv, Parts
<1> DEFINE w == Wanted(source.entry, source.pointee)
<1>1. /\ w \in FileNode /\ w.kind # "symlink"
      /\ w.kind = "file" => SourceContent \in Contents /\ w.size = SizeOf[SourceContent]
  BY WantedType DEF TypeOK, SourceContent
<1>2. NodeOf(tgt) \in FileNode /\ NodeOf(tgt).kind = tgt.kind
  BY NodeOfType DEF TypeOK
<1>3. CASE Execute
  <2>1. UNCHANGED Mirrored
    BY <1>3 DEF Execute, world, Mirrored
  <2>2. StaysClean'
    BY <1>3, <2>1 DEF Execute, StaysClean
  <2>3. SeenAgrees'
    BY <1>3 DEF Execute, SeenAgrees, Deciding, world
  <2> QED
    BY <1>3, <2>2, <2>3 DEF Execute, LocalsAgree, Fresh, Accounted, SuccessMirrors, Deciding, world
<1>4. CASE StatSourcePath
  BY <1>4, <1>1, <1>2
     DEF StatSourcePath, world, ghost, LocalsAgree, Fresh, Accounted, SeenAgrees,
         StaysClean, SuccessMirrors, Deciding, Mirrored, SourceContent, TypeOK
<1>5. CASE StatTargetPath
  <2> DEFINE t == NodeOf(tgt)
             c == Decide(src, t)
  <2>1. /\ src \in FileNode /\ src.kind # "symlink"
        /\ old' = t /\ pc' = c
        /\ result' = IF c = "idle" THEN "ok" ELSE result
        /\ UNCHANGED <<source, tgt, pending, src, calm, seen, clean, wrote>>
    BY <1>5 DEF StatTargetPath, Continue, Return, world, ghost, LocalsAgree, Deciding, TypeOK
  <2>2. calm => src = w
    BY <1>5 DEF StatTargetPath, Fresh, Deciding
  <2>3. c \notin {"statSource", "write", "hashTarget", "mkdirChmod", "mkdirChown"}
    BY <1>2, <2>1, DecideFacts
  <2>4. LocalsAgree'
    BY <1>2, <2>1, <2>3, DecideFacts DEF LocalsAgree, Deciding
  <2>5. Fresh'
    <3>1. calm /\ c # "idle" => src = w
      BY <2>2
    <3>2. c \in {"hashSource", "chmod"} => old' = NodeOf(tgt)
      BY <2>1
    <3>3. c \in {"chmod", "chown"} =>
            tgt.kind = src.kind /\ src.kind = "dir" /\ (c = "chown" => tgt.mode = src.mode)
      BY <1>2, <2>1, DecideFacts DEF NodeOf
    <3>4. /\ c = "hashSource" => tgt.kind = "file"
          /\ c = "mkdir" => tgt.kind = "absent"
      BY <1>2, <2>1, DecideFacts
    <3> QED
      BY <2>1, <2>3, <3>1, <3>2, <3>3, <3>4 DEF Fresh, Deciding
  <2>6. Accounted' /\ SeenAgrees'
    BY <1>5, <2>1 DEF StatTargetPath, Accounted, SeenAgrees, Deciding
  <2>7. StaysClean'
    <3>1. Mirrored' <=> Mirrored
      BY <2>1 DEF Mirrored
    <3>2. ASSUME calm, clean
          PROVE  c \in {"idle", "hashSource"} /\ ~wrote /\ Mirrored
      <4>1. ~wrote /\ Mirrored
        BY <1>5, <3>2 DEF StatTargetPath, StaysClean
      <4>2. /\ t.kind = src.kind
            /\ src.kind # "absent" => src.mode = t.mode /\ src.uid = t.uid /\ src.gid = t.gid
        BY <1>2, <2>2, <3>2, <4>1 DEF Mirrored, NodeOf
      <4>3. src.kind = "file" => src.size = t.size
        BY <1>1, <1>2, <2>2, <3>2, <4>1 DEF Mirrored, NodeOf, SourceContent
      <4>4. c \in {"idle", "hashSource"}
        BY <1>2, <2>1, <4>2, <4>3, DecideFacts
      <4> QED
        BY <4>1, <4>4
    <3> QED
      BY <2>1, <3>1, <3>2 DEF StaysClean
  <2>8. SuccessMirrors'
    <3>1. calm /\ c = "idle" => Mirrored
      BY <1>2, <2>1, <2>2, DecideFacts DEF Mirrored, NodeOf
    <3> QED
      BY <2>1, <3>1 DEF SuccessMirrors, Mirrored
  <2> QED
    BY <2>4, <2>5, <2>6, <2>7, <2>8
<1>6. CASE ReconcileAbsent
  BY <1>6, <1>1, <1>2
     DEF ReconcileAbsent, Return, Write, NoEntry, local, LocalsAgree, Fresh,
         Accounted, SeenAgrees, StaysClean, SuccessMirrors, Deciding, Mirrored,
         SourceContent, TypeOK
<1>7. CASE CoerceTargetKind
  <2> DEFINE c == ReconcileKind(src, AbsentNode)
  <2>1. c = IF src.kind = "file" THEN "open" ELSE "mkdir"
    BY <1>7, AbsentNodeType, ReconcileKindFacts
       DEF CoerceTargetKind, LocalsAgree, TypeOK, AbsentNode
  <2>2. /\ pc' = c /\ tgt' = NoEntry /\ src.kind \in {"file", "dir"}
        /\ pending' = TRUE /\ wrote' = TRUE
        /\ UNCHANGED <<source, src, calm, seen, clean>>
    BY <1>7, <2>1 DEF CoerceTargetKind, Write, Continue, LocalsAgree
  <2>3. ~(calm /\ clean)
    BY <1>7 DEF CoerceTargetKind, StaysClean
  <2>4. LocalsAgree' /\ Accounted' /\ StaysClean' /\ SuccessMirrors'
    BY <2>1, <2>2, <2>3
       DEF LocalsAgree, Accounted, StaysClean, SuccessMirrors, Deciding
  <2>5. Fresh'
    BY <1>7, <2>1, <2>2 DEF CoerceTargetKind, Fresh, Deciding, NoEntry
  <2>6. SeenAgrees'
    BY <1>7, <2>2 DEF CoerceTargetKind, SeenAgrees, Deciding
  <2> QED
    BY <2>4, <2>5, <2>6
<1>8. CASE HashSource
  BY <1>8, <1>1, <1>2
     DEF HashSource, Fail, world, ghost, LocalsAgree, Fresh, Accounted, SeenAgrees,
         StaysClean, SuccessMirrors, Deciding, Mirrored, SourceContent, TypeOK
<1>9. CASE HashTarget
  BY <1>9, <1>1, <1>2, SyncMetadataFacts
     DEF HashTarget, Continue, Return, Fail, TargetReads, NodeOf, world, ghost,
         LocalsAgree, Fresh, Accounted, SeenAgrees, StaysClean, SuccessMirrors,
         Deciding, Mirrored, SourceContent, TypeOK
<1>10. CASE OpenSource
  BY <1>10, <1>1, <1>2
     DEF OpenSource, Fail, world, ghost, LocalsAgree, Fresh, Accounted, SeenAgrees,
         StaysClean, SuccessMirrors, Deciding, Mirrored, SourceContent, TypeOK
<1>11. CASE WriteAtomic
  BY <1>11, <1>1, <1>2
     DEF WriteAtomic, Return, Fail, Write, WithAttrs, LocalsAgree, Fresh, Accounted,
         SeenAgrees, StaysClean, SuccessMirrors, Deciding, Mirrored, SourceContent,
         TypeOK
<1>12. CASE MkdirCreate
  BY <1>12, <1>1, <1>2
     DEF MkdirCreate, Write, WithAttrs, local, LocalsAgree, Fresh, Accounted,
         SeenAgrees, StaysClean, SuccessMirrors, Deciding, Mirrored, SourceContent,
         TypeOK
<1>13. CASE MkdirExists
  BY <1>13, <1>1, <1>2
     DEF MkdirExists, Return, Fail, world, local, ghost, LocalsAgree, Fresh,
         Accounted, SeenAgrees, StaysClean, SuccessMirrors, Deciding, Mirrored,
         SourceContent, TypeOK
<1>14. CASE MkdirChmod
  BY <1>14, <1>1, <1>2
     DEF MkdirChmod, Chmod, SetAttrs, Continue, Return, Fail, Write, WithAttrs,
         local, LocalsAgree, Fresh, Accounted, SeenAgrees, StaysClean,
         SuccessMirrors, Deciding, Mirrored, SourceContent, TypeOK
<1>15. CASE MkdirChown
  BY <1>15, <1>1, <1>2
     DEF MkdirChown, Chown, SetAttrs, Continue, Return, Fail, Write, WithAttrs,
         local, LocalsAgree, Fresh, Accounted, SeenAgrees, StaysClean,
         SuccessMirrors, Deciding, Mirrored, SourceContent, TypeOK
<1>16. CASE MetadataChmod
  <2> DEFINE c == AfterMode(src, old)
  <2>1. /\ c \in {"chown", "idle"}
        /\ c = "idle" <=> src.uid = old.uid /\ src.gid = old.gid
    BY SyncMetadataFacts DEF TypeOK
  <2>2. /\ pc = "chmod" /\ ~(calm /\ clean)
        /\ UNCHANGED <<source, src, old, calm, seen, clean>>
    BY <1>16 DEF MetadataChmod, Chmod, StaysClean, local
  <2>3. CASE SetAttrs([mode |-> src.mode, uid |-> tgt.uid, gid |-> tgt.gid], c) /\ pc' = "idle"
                /\ result' = "error" /\ pending'
    BY <2>2, <2>3 DEF LocalsAgree, Fresh, Accounted, SeenAgrees, StaysClean,
       SuccessMirrors, Deciding
  <2>4. CASE /\ pc' = c /\ (c = "idle" => result' = "ok")
             /\ \/ /\ tgt' = WithAttrs(tgt.kind, [mode |-> src.mode, uid |-> tgt.uid,
                                                 gid |-> tgt.gid], tgt.content)
                   /\ pending'
                \/ tgt.kind = "symlink" /\ UNCHANGED <<tgt, pending>>
    <3>1. LocalsAgree' /\ Accounted' /\ SeenAgrees' /\ StaysClean'
      BY <2>1, <2>2, <2>4
         DEF LocalsAgree, Accounted, SeenAgrees, StaysClean, Deciding
    <3>2. calm => /\ src = w /\ old = NodeOf(tgt) /\ tgt.kind = src.kind
                  /\ src.kind \in {"file", "dir"}
                  /\ src.kind = "file" => tgt.content = SourceContent
      BY <2>2 DEF Fresh, LocalsAgree, Deciding
    <3>3. calm => /\ tgt'.kind = src.kind /\ tgt'.mode = src.mode
                  /\ tgt'.uid = old.uid /\ tgt'.gid = old.gid
                  /\ tgt'.content = tgt.content
      BY <2>4, <3>2 DEF WithAttrs, NodeOf
    <3>4. SourceContent' = SourceContent
      BY <2>2 DEF SourceContent
    <3>5. Fresh'
      BY <2>1, <2>2, <2>4, <3>2, <3>3, <3>4 DEF Fresh, Deciding
    <3>6. SuccessMirrors'
      BY <2>1, <2>2, <2>4, <3>2, <3>3, <3>4 DEF SuccessMirrors, Mirrored, SourceContent
    <3> QED
      BY <3>1, <3>5, <3>6
  <2> QED
    BY <1>16, <2>1, <2>3, <2>4
       DEF MetadataChmod, Chmod, SetAttrs, Continue, Return, Fail, Write
<1>17. CASE MetadataChown
  BY <1>17, <1>1, <1>2
     DEF MetadataChown, Chown, SetAttrs, Continue, Return, Fail, Write, WithAttrs,
         local, LocalsAgree, Fresh, Accounted, SeenAgrees, StaysClean,
         SuccessMirrors, Deciding, Mirrored, SourceContent, TypeOK
<1>18. CASE CallFails
  BY <1>18, <1>1, <1>2
     DEF CallFails, Fail, world, local, ghost, LocalsAgree, Fresh, Accounted,
         SeenAgrees, StaysClean, SuccessMirrors, Deciding, Mirrored, SourceContent,
         TypeOK
<1>19. CASE EditSource
  BY <1>19, <1>1, <1>2
     DEF EditSource, LocalsAgree, Fresh, Accounted, SeenAgrees, StaysClean,
         SuccessMirrors, Deciding, Mirrored, SourceContent, TypeOK
<1>20. CASE DriftTarget
  BY <1>20, <1>1, <1>2
     DEF DriftTarget, local, LocalsAgree, Fresh, Accounted, SeenAgrees, StaysClean,
         SuccessMirrors, Deciding, Mirrored, SourceContent, TypeOK
<1> QED
  BY <1>3, <1>4, <1>5, <1>6, <1>7, <1>8, <1>9, <1>10, <1>11, <1>12, <1>13, <1>14,
         <1>15, <1>16, <1>17, <1>18, <1>19, <1>20 DEF Next, Step

\* What the locals of Execute say of the two sides, wherever it is interrupted.
THEOREM SafetyInvariant == Spec => []IndInv
<1>1. Init => IndInv
  BY SafetyInit
<1>2. ASSUME IndInv, [Next]_vars
      PROVE  IndInv'
  <2>1. CASE Next
    <3>1. TypeOK'
      BY <1>2, TypeStep DEF IndInv, LocalsAgree, TypeInv
    <3> QED
      BY <1>2, <2>1, <3>1, SafetyStep DEF IndInv, Parts
  <2>2. CASE UNCHANGED vars
    BY <1>2, <2>2 DEF vars, IndInv, TypeOK, LocalsAgree, Fresh, Accounted, SeenAgrees,
       StaysClean, SuccessMirrors, Deciding, Mirrored, SourceContent
  <2> QED
    BY <1>2, <2>1, <2>2
<1> QED
  BY <1>1, <1>2, PTL DEF Spec

\* An undisturbed Execute that returns nil leaves the target equal to the source.
THEOREM ExecuteMirrors == Spec => []SuccessMirrors
<1>1. IndInv => SuccessMirrors
  BY DEF IndInv
<1> QED
  BY <1>1, SafetyInvariant, PTL

\* Whatever edits, drifts and errors race with the calls of Execute, as long as
\* the two sides differ the path is being reconciled or waits for it.
THEOREM NothingForgotten == Spec => []NoLostWork
<1>1. IndInv => NoLostWork
  BY DEF IndInv, Accounted, SuccessMirrors, NoLostWork
<1> QED
  BY <1>1, SafetyInvariant, PTL

\* A path in sync is not written to, so the agent does not wake itself up.
THEOREM NoSelfWakeup == Spec => []Idempotent
<1>1. IndInv => Idempotent
  BY DEF IndInv, StaysClean, Idempotent
<1> QED
  BY <1>1, SafetyInvariant, PTL

\* Execute removes a target entry only for a kind the source really had since
\* it began, never because of an error.
THEOREM RemovalsJustified == Spec => RemovalJustified
<1> DEFINE Removes == tgt.kind # "absent" /\ tgt'.kind = "absent" /\ pc' # pc
<1>1. ASSUME IndInv, Next, Removes
      PROVE  \E k \in seen : k # old.kind
  <2>1. CASE ReconcileAbsent \/ CoerceTargetKind
    <3>1. /\ pc \in {"remove", "coerce"}
          /\ src.kind # old.kind
          /\ src.kind \in seen
      BY <1>1, <2>1
         DEF ReconcileAbsent, CoerceTargetKind, IndInv, LocalsAgree, SeenAgrees, Deciding
    <3> QED
      BY <3>1
  <2>2. CASE WriteAtomic \/ MkdirCreate
    BY <1>1, <2>2 DEF WriteAtomic, MkdirCreate, Write, WithAttrs
  <2>3. CASE MkdirChmod \/ MkdirChown \/ MetadataChmod \/ MetadataChown
    BY <1>1, <2>3
       DEF MkdirChmod, MkdirChown, MetadataChmod, MetadataChown, Chmod, Chown, SetAttrs,
           Write, WithAttrs
  <2>4. CASE Execute \/ StatSourcePath \/ StatTargetPath \/ HashSource \/ HashTarget
             \/ OpenSource \/ MkdirExists \/ CallFails
    BY <1>1, <2>4
       DEF Execute, StatSourcePath, StatTargetPath, HashSource, HashTarget, OpenSource,
           MkdirExists, CallFails, world
  <2>5. CASE EditSource \/ DriftTarget
    BY <1>1, <2>5 DEF EditSource, DriftTarget
  <2> QED
    BY <1>1, <2>1, <2>2, <2>3, <2>4, <2>5 DEF Next, Step
<1>2. IndInv /\ [Next]_vars => [Removes => \E k \in seen : k # old.kind]_vars
  BY <1>1
<1> QED
  BY <1>2, SafetyInvariant, PTL DEF Spec, RemovalJustified
=============================================================================
