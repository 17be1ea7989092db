--------------------------- MODULE Fsnotify_proofs ---------------------------
(***************************************************************************)
(* The recursive watch covers every directory, and reports every change of *)
(* what exists, as long as no walk has given up: for trees of any shape    *)
(* and depth, any number of watches and any number of changes.             *)
(***************************************************************************)
EXTENDS Fsnotify, TLAPS

USE KindsAssumption, BoundAssumption

-----------------------------------------------------------------------------
(* The shape of the tree.                                                  *)

LEMMA EntryFacts ==
    ASSUME NEW p \in Entries
    PROVE  /\ p # Root /\ Parent[p] \in Dirs \cup {Root} /\ Above[p] \subseteq Dirs
           /\ p \notin Above[p]
           /\ Parent[p] # Root => Above[p] = Lineage(Parent[p]) /\ Parent[p] \in Above[p]
           /\ Parent[p] = Root => Above[p] = {}
           /\ \A a \in Above[p] : /\ a \in Entries /\ a # Root /\ Above[a] \subseteq Above[p]
                                  /\ Lineage(a) \subseteq Above[p]
           /\ \A a \in {Root} \cup Above[p] : \E c \in Lineage(p) : Parent[c] = a
<1>1. /\ Parent[p] \in Dirs \cup {Root} /\ Above[p] \subseteq Dirs /\ p \notin Above[p]
      /\ Above[p] = IF Parent[p] = Root THEN {} ELSE Lineage(Parent[p])
      /\ \A a \in Above[p] : Above[a] \subseteq Above[p]
      /\ \A a \in {Root} \cup Above[p] : \E c \in Lineage(p) : Parent[c] = a
  BY ParentAssumption
<1>2. p # Root /\ \A a \in Above[p] : a \in Entries /\ a # Root
  BY <1>1 DEF Entries
<1> QED
  BY <1>1, <1>2 DEF Lineage

LEMMA BelowFacts ==
    ASSUME NEW p \in Entries, NEW q \in Below(p)
    PROVE  q \in Entries /\ p \in Lineage(q) /\ (q = p \/ p \in Above[q])
BY DEF Below, Lineage

-----------------------------------------------------------------------------
(* Types, and where the walks are.                                         *)

Types ==
    /\ TypeOK
    /\ pc \notin {"starting", "extending"} => adding = {} /\ listing = {}
    /\ pc = "extending" => adding \cup listing \subseteq Below(event.path)
    /\ pc # "failed" => Root \in watched \cup adding

\* The directories above what exists exist.
Closed == \A q \in exists : Above[q] \subseteq exists

\* A create event of the path waits in the kernel, or is being handled.
Created(p) ==
    \/ \E i \in 1..Len(kernel) : kernel[i].create /\ kernel[i].path = p
    \/ pc = "sending" /\ event.create /\ event.path = p

\* The walk of an addRecursive has the directory before it, now or later.
Soon(d) ==
    \E a \in {Root} \cup Lineage(d) :
      a \in adding \/ Created(a) \/ (a # d /\ a \in listing)

WatchedSoon == ~gaveUp /\ pc # "failed" => \A d \in Dirs \cap exists : d \in watched \/ Soon(d)

\* An event of the path waits, or it is going to be emitted by an emitInitial that
\* comes by a directory above it.
Reported(q) ==
    \/ \E i \in 1..Len(kernel) : kernel[i].path = q
    \/ pc = "sending" /\ event.path = q
    \/ q \in emitting
    \/ \E a \in Above[q] :
         \/ a \in reading \cup emitting
         \/ Created(a)
         \/ pc = "extending" /\ event.path = a

OwedReported ==
    ~gaveUp /\ pc \notin {"starting", "failed"} => \A q \in owed \cap exists : Reported(q)

Inv == Types /\ Closed /\ WatchedSoon /\ OwedReported

-----------------------------------------------------------------------------
(* Users.                                                                  *)

LEMMA AppendFacts ==
    ASSUME NEW e \in Event, kernel \in Seq(Event), kernel' = Append(kernel, e)
    PROVE  /\ kernel' \in Seq(Event) /\ Len(kernel') = Len(kernel) + 1
           /\ Len(kernel) \in Nat
           /\ \A i \in 1..Len(kernel) : kernel'[i] = kernel[i] /\ i \in 1..Len(kernel')
           /\ kernel'[Len(kernel')] = e /\ Len(kernel') \in 1..Len(kernel')
OBVIOUS

\* What waits for its turn goes on waiting when the kernel has one event more.
LEMMA WaitingStays ==
    ASSUME Types, UNCHANGED <<pc, event, walk, emit>>,
           kernel' = kernel \/ \E e \in Event : kernel' = Append(kernel, e)
    PROVE  /\ \A p : Created(p) => Created(p)'
           /\ \A d : Soon(d) => Soon(d)'
           /\ \A q : Reported(q) => Reported(q)'
<1>1. /\ Len(kernel) \in Nat
      /\ \A i \in 1..Len(kernel) : kernel'[i] = kernel[i] /\ i \in 1..Len(kernel')
  BY AppendFacts DEF Types, TypeOK
<1>2. \A p : Created(p) => Created(p)'
  BY <1>1 DEF Created
<1>3. \A d : Soon(d) => Soon(d)'
  BY <1>2 DEF Soon, walk
<1>4. \A q : Reported(q) => Reported(q)'
  BY <1>1, <1>2 DEF Reported, emit
<1> QED
  BY <1>2, <1>3, <1>4

LEMMA CreatedFacts ==
    ASSUME Types, NEW p, Created(p)
    PROVE  p \in Entries
<1>1. kernel \in Seq(Event) /\ event \in Event /\ \A e \in Event : e.path \in Entries
  BY DEF Types, TypeOK, Event
<1>2. \A i \in 1..Len(kernel) : kernel[i] \in Event
  BY <1>1
<1> QED
  BY <1>1, <1>2 DEF Created

\* What happens in a directory without a watch happens before a walk comes by.
LEMMA WalkComes ==
    ASSUME Inv, ~gaveUp, pc # "failed", NEW p \in Entries, Present(Parent[p]),
           Parent[p] \notin watched
    PROVE  /\ \E a \in {Root} \cup Above[p] : a \in adding \/ Created(a) \/ a \in listing
           /\ pc # "starting" =>
                \E a \in Above[p] : Created(a) \/ (pc = "extending" /\ event.path = a)
<1>1. CASE Parent[p] = Root
  <2>1. Root \in adding
    BY <1>1 DEF Inv, Types
  <2>2. pc = "starting"
    BY <2>1, BelowFacts, EntryFacts DEF Inv, Types, TypeOK, Event
  <2> QED
    BY <2>1, <2>2
<1>2. CASE Parent[p] # Root
  <2>1. Parent[p] \in Dirs \cap exists /\ Above[p] = Lineage(Parent[p])
    BY <1>2, EntryFacts DEF Present
  <2>2. Soon(Parent[p])
    BY <2>1 DEF Inv, WatchedSoon
  <2>3. PICK a \in {Root} \cup Above[p] : a \in adding \/ Created(a) \/ a \in listing
    BY <2>1, <2>2 DEF Soon
  <2>4. CASE pc # "starting" /\ a \in adding \cup listing
    <3>1. pc = "extending" /\ a \in Below(event.path) /\ event.path \in Entries
      BY <2>4 DEF Inv, Types, TypeOK, Event
    <3>2. a \in Above[p] /\ event.path \in Lineage(a)
      BY <2>3, <3>1, BelowFacts, EntryFacts
    <3> QED
      BY <2>3, <3>1, <3>2, EntryFacts
  <2>5. CASE Created(a)
    <3>1. a \in Entries
      BY <2>5, CreatedFacts DEF Inv
    <3> QED
      BY <2>3, <2>5, <3>1, EntryFacts
  <2> QED
    BY <2>3, <2>4, <2>5
<1> QED
  BY <1>1, <1>2

LEMMA TouchFacts ==
    ASSUME Inv, NEW changed \in SUBSET Entries, Touch(changed), NEW p \in Entries,
           NEW create \in BOOLEAN, Report(create, p)
    PROVE  /\ UNCHANGED <<pc, event, walk, emit, gaveUp>> /\ owed' = owed \cup changed
           /\ pc # "failed"
           /\ kernel' \in Seq(Event)
           /\ kernel' = kernel \/ \E e \in Event : kernel' = Append(kernel, e)
           /\ exists' \subseteq Entries /\ watched' \subseteq Dirs \cup {Root}
              /\ (Root \in watched => Root \in watched') => Types'
           /\ Parent[p] \in watched => /\ \E i \in 1..Len(kernel') : kernel'[i].path = p
                                       /\ create => Created(p)'
<1> DEFINE e == [create |-> create, path |-> p]
<1>1. e \in Event /\ kernel \in Seq(Event)
  BY DEF Event, Inv, Types, TypeOK
<1>2. kernel' = kernel \/ kernel' = Append(kernel, e)
  BY DEF Report
<1>3. ASSUME Parent[p] \in watched
      PROVE  /\ \E i \in 1..Len(kernel') : kernel'[i].path = p
             /\ create => Created(p)'
  BY <1>1, <1>3, AppendFacts DEF Report, Created
<1>4. /\ UNCHANGED <<pc, event, walk, emit, gaveUp, shown>> /\ owed' = owed \cup changed
      /\ changes' = changes + 1 /\ pc # "failed"
  BY DEF Touch
<1>5. kernel' \in Seq(Event)
  BY <1>1, <1>2, AppendFacts
<1>6. ASSUME exists' \subseteq Entries, watched' \subseteq Dirs \cup {Root},
             Root \in watched => Root \in watched'
      PROVE  Types'
  <2>1. TypeOK'
    BY <1>4, <1>5, <1>6 DEF Inv, Types, TypeOK, walk, emit
  <2>2. UNCHANGED <<pc, event, adding, listing>>
    BY <1>4 DEF walk
  <2> QED
    BY <1>6, <2>1, <2>2 DEF Inv, Types
<1> QED
  BY <1>1, <1>2, <1>3, <1>4, <1>5, <1>6

LEMMA Appears ==
    ASSUME Inv, NEW p \in Entries, p \notin exists, Present(Parent[p]),
           NEW tree \in SUBSET Below(p), p \in tree,
           \A q \in tree : \A a \in Above[q] : p \in Above[a] => a \in tree,
           exists' = exists \cup tree, Report(TRUE, p), Touch(tree), UNCHANGED watched
    PROVE  Inv'
<1>1. tree \subseteq Entries /\ exists \subseteq Entries
  BY BelowFacts DEF Inv, Types, TypeOK
<1>2. /\ UNCHANGED <<pc, event, walk, emit, gaveUp>> /\ owed' = owed \cup tree
      /\ pc # "failed" /\ Types'
      /\ kernel' = kernel \/ \E e \in Event : kernel' = Append(kernel, e)
      /\ Parent[p] \in watched => /\ \E i \in 1..Len(kernel') : kernel'[i].path = p
                                  /\ Created(p)'
  BY <1>1, TouchFacts DEF Inv, Types, TypeOK
<1>3. /\ \A a : Created(a) => Created(a)'
      /\ \A d : Soon(d) => Soon(d)'
      /\ \A q : Reported(q) => Reported(q)'
  BY <1>2, WaitingStays DEF Inv
<1>4. Above[p] \subseteq exists
  BY EntryFacts DEF Present, Inv, Closed, Lineage
<1>5. Closed'
  <2> SUFFICES ASSUME NEW q \in tree, NEW a \in Above[q]
               PROVE  a \in exists \cup tree
    BY DEF Inv, Closed
  <2>1. a \in Lineage(p) \/ p \in Above[a]
    BY <1>1, BelowFacts, ParentAssumption DEF Lineage
  <2> QED
    BY <1>4, <2>1 DEF Lineage
<1>6. WatchedSoon'
  <2> SUFFICES ASSUME ~gaveUp, NEW d \in Dirs \cap tree
               PROVE  Soon(d)'
    BY <1>2, <1>3 DEF Inv, WatchedSoon
  <2>1. p \in Lineage(d) /\ Above[p] \subseteq Above[d]
    BY <1>1, BelowFacts, EntryFacts
  <2>2. CASE Parent[p] \in watched
    BY <1>2, <2>1, <2>2 DEF Soon
  <2>3. CASE Parent[p] \notin watched
    <3>1. PICK a \in {Root} \cup Above[p] : a \in adding \/ Created(a) \/ a \in listing
      BY <1>2, <2>3, WalkComes
    <3>2. a # d /\ a \in {Root} \cup Lineage(d)
      BY <1>1, <2>1, <3>1, EntryFacts DEF Lineage
    <3> QED
      BY <1>2, <1>3, <3>1, <3>2 DEF Soon, walk
  <2> QED
    BY <2>2, <2>3
<1>7. OwedReported'
  <2> SUFFICES ASSUME ~gaveUp, pc # "starting", NEW q \in tree
               PROVE  Reported(q)'
    BY <1>2, <1>3, <1>1 DEF Inv, OwedReported
  <2>1. (q = p \/ p \in Above[q]) /\ Above[p] \subseteq Above[q]
    BY <1>1, BelowFacts, EntryFacts
  <2>2. CASE Parent[p] \in watched
    BY <1>2, <2>1, <2>2 DEF Reported
  <2>3. CASE Parent[p] \notin watched
    <3>1. PICK a \in Above[p] : Created(a) \/ (pc = "extending" /\ event.path = a)
      BY <1>2, <2>3, WalkComes
    <3> QED
      BY <1>2, <1>3, <2>1, <3>1 DEF Reported
  <2> QED
    BY <2>2, <2>3
<1> QED
  BY <1>2, <1>5, <1>6, <1>7 DEF Inv

LEMMA Vanishes ==
    ASSUME Inv, NEW p \in Entries,
           exists' = exists \ Below(p), watched' \subseteq watched,
           \A d \in watched : d \in watched' \/ d \in Below(p),
           Report(FALSE, p), Touch({p})
    PROVE  Inv'
<1>1. /\ exists' \subseteq Entries /\ watched' \subseteq Dirs \cup {Root}
      /\ Root \in watched => Root \in watched'
  BY BelowFacts DEF Inv, Types, TypeOK
<1>2. /\ UNCHANGED <<pc, event, walk, emit, gaveUp>> /\ owed' = owed \cup {p} /\ Types'
      /\ kernel' = kernel \/ \E e \in Event : kernel' = Append(kernel, e)
  BY <1>1, TouchFacts DEF Inv, Types, TypeOK
<1>3. /\ \A d : Soon(d) => Soon(d)'
      /\ \A q : Reported(q) => Reported(q)'
  BY <1>2, WaitingStays DEF Inv
<1>4. Closed'
  <2> SUFFICES ASSUME NEW q \in exists', NEW a \in Above[q]
               PROVE  a \in exists'
    BY DEF Closed
  <2>1. q \in Entries /\ a \in exists /\ q \notin Below(p)
    BY DEF Inv, Types, TypeOK, Closed
  <2>2. Lineage(a) \subseteq Lineage(q)
    BY <2>1, EntryFacts DEF Lineage
  <2> QED
    BY <2>1, <2>2 DEF Below
<1>5. WatchedSoon'
  BY <1>2, <1>3 DEF Inv, WatchedSoon
<1>6. OwedReported'
  <2>1. p \notin exists'
    BY DEF Below, Lineage
  <2> QED
    BY <1>2, <1>3, <2>1 DEF Inv, OwedReported
<1> QED
  BY <1>2, <1>4, <1>5, <1>6 DEF Inv

LEMMA Modified ==
    ASSUME Inv, NEW p \in Entries, Modify(p)
    PROVE  Inv'
<1>1. /\ Report(FALSE, p) /\ Touch({p}) /\ exists' = exists /\ watched' = watched
      /\ p \in exists
  BY DEF Modify
<1>2. /\ UNCHANGED <<pc, event, walk, emit, gaveUp>> /\ owed' = owed \cup {p} /\ Types'
      /\ pc # "failed"
      /\ kernel' = kernel \/ \E e \in Event : kernel' = Append(kernel, e)
      /\ Parent[p] \in watched => \E i \in 1..Len(kernel') : kernel'[i].path = p
  BY <1>1, TouchFacts DEF Inv, Types, TypeOK
<1>3. /\ \A a : Created(a) => Created(a)'
      /\ \A d : Soon(d) => Soon(d)'
      /\ \A q : Reported(q) => Reported(q)'
  BY <1>2, WaitingStays DEF Inv
<1>4. ASSUME ~gaveUp, pc # "starting"
      PROVE  Reported(p)'
  <2>1. Present(Parent[p])
    BY <1>1, EntryFacts DEF Present, Inv, Closed
  <2>2. CASE Parent[p] \in watched
    BY <1>2, <2>2 DEF Reported
  <2>3. CASE Parent[p] \notin watched
    <3>1. PICK a \in Above[p] : Created(a) \/ (pc = "extending" /\ event.path = a)
      BY <1>2, <1>4, <2>1, <2>3, WalkComes
    <3> QED
      BY <1>2, <1>3, <3>1 DEF Reported
  <2> QED
    BY <2>2, <2>3
<1>5. WatchedSoon' /\ Closed'
  BY <1>1, <1>2, <1>3 DEF Inv, WatchedSoon, Closed
<1>6. OwedReported'
  BY <1>1, <1>2, <1>3, <1>4 DEF Inv, OwedReported
<1> QED
  BY <1>2, <1>5, <1>6 DEF Inv

LEMMA ByUser ==
    ASSUME Inv, User
    PROVE  Inv'
<1>1. ASSUME NEW p \in Entries, Make(p)
      PROVE  Inv'
  <2>1. p \in Below(p) /\ {p} \in SUBSET Below(p)
    BY DEF Below, Lineage
  <2>2. \A q \in {p} : \A a \in Above[q] : p \in Above[a] => a \in {p}
    BY EntryFacts
  <2> QED
    BY <1>1, <2>1, <2>2, Appears DEF Make
<1>2. ASSUME NEW p \in Entries, Modify(p)
      PROVE  Inv'
  BY <1>2, Modified
<1>3. ASSUME NEW p \in Entries, Unlink(p)
      PROVE  Inv'
  <2>1. \A q \in exists : p \notin Above[q]
    <3> SUFFICES ASSUME NEW q \in exists, p \in Above[q]
                 PROVE  FALSE
      OBVIOUS
    <3>1. PICK c \in Lineage(q) : Parent[c] = p
      BY EntryFacts DEF Inv, Types, TypeOK
    <3>2. c \in exists
      BY <3>1 DEF Lineage, Inv, Closed
    <3> QED
      BY <1>3, <3>1, <3>2 DEF Unlink, Children
  <2>2. exists' = exists \ Below(p)
    <3>1. exists' = exists \ {p} /\ exists \subseteq Entries
      BY <1>3 DEF Unlink, Inv, Types, TypeOK
    <3> QED
      BY <2>1, <3>1 DEF Below, Lineage
  <2>3. watched' = watched \ {p} /\ p \in Below(p)
    BY <1>3 DEF Unlink, Below, Lineage
  <2> QED
    BY <1>3, <2>2, <2>3, Vanishes DEF Unlink
<1>4. ASSUME NEW p \in Entries, MoveOut(p)
      PROVE  Inv'
  BY <1>4, Vanishes DEF MoveOut
<1>5. ASSUME NEW p \in Entries, NEW tree \in Moved, MoveIn(p, tree)
      PROVE  Inv'
  BY <1>5, TreesAssumption, Appears DEF MoveIn
<1> QED
  BY <1>1, <1>2, <1>3, <1>4, <1>5 DEF User

-----------------------------------------------------------------------------
(* addRecursive.                                                           *)

\* The walk leaves the events alone.
LEMMA WalkLeaves ==
    ASSUME Inv, UNCHANGED <<exists, kernel, pc, event, emit, owed, gaveUp>>
    PROVE  /\ \A p : Created(p)' <=> Created(p)
           /\ Closed' /\ OwedReported'
BY DEF Inv, Created, Reported, emit, Closed, OwedReported

LEMMA ByAdd ==
    ASSUME Inv, NEW p \in Entries \cup {Root}, Add(p)
    PROVE  Inv'
<1>1. /\ Closed' /\ OwedReported' /\ \A q : Created(q)' <=> Created(q)
      /\ UNCHANGED <<exists, kernel, pc, event, emit, ghost>>
  BY WalkLeaves DEF Add, ghost
<1>2. /\ p \in adding \cap (Dirs \cup {Root}) /\ watched' = watched \cup {p}
      /\ adding' = adding \ {p} /\ listing' = listing \cup {p} /\ Walking
  BY DEF Add
<1>3. Types'
  BY <1>1, <1>2 DEF Inv, Types, TypeOK, emit, ghost, Walking
<1>4. ASSUME NEW d \in Dirs \cap exists, d \notin watched', Soon(d)
      PROVE  Soon(d)'
  <2>1. PICK a \in {Root} \cup Lineage(d) : a \in adding \/ Created(a) \/ (a # d /\ a \in listing)
    BY <1>4 DEF Soon
  <2> QED
    BY <1>1, <1>2, <1>4, <2>1 DEF Soon
<1>5. WatchedSoon'
  BY <1>1, <1>2, <1>4 DEF Inv, WatchedSoon, ghost
<1> QED
  BY <1>1, <1>3, <1>5 DEF Inv

LEMMA ByList ==
    ASSUME Inv, NEW p \in Entries \cup {Root}, List(p)
    PROVE  Inv'
<1>1. /\ Closed' /\ OwedReported' /\ \A q : Created(q)' <=> Created(q)
      /\ UNCHANGED <<exists, watched, kernel, pc, event, emit, ghost>>
  BY WalkLeaves DEF List, ghost
<1>2. /\ p \in listing /\ listing' = listing \ {p} /\ adding' = adding \cup Children(p)
      /\ Walking /\ exists \subseteq Entries
  BY DEF List, Inv, Types, TypeOK
<1>3. Types'
  <2>1. pc = "extending" => Children(p) \subseteq Below(event.path)
    <3> SUFFICES ASSUME pc = "extending", NEW c \in Children(p)
                 PROVE  c \in Below(event.path)
      OBVIOUS
    <3>1. p \in Below(event.path) /\ event.path \in Entries
      BY <1>2 DEF Inv, Types, TypeOK, Event
    <3>2. c \in Entries /\ Parent[c] = p /\ p # Root
      BY <1>2, <3>1, BelowFacts, EntryFacts DEF Children
    <3>3. Above[c] = Lineage(p)
      BY <3>2, EntryFacts
    <3> QED
      BY <3>1, <3>2, <3>3, BelowFacts DEF Below, Lineage
  <2>2. Children(p) \subseteq Entries
    BY <1>2 DEF Children
  <2> QED
    BY <1>1, <1>2, <2>1, <2>2 DEF Inv, Types, TypeOK, emit, ghost, Walking
<1>4. ASSUME NEW d \in Dirs \cap exists, Soon(d)
      PROVE  Soon(d)'
  <2>1. PICK a \in {Root} \cup Lineage(d) : a \in adding \/ Created(a) \/ (a # d /\ a \in listing)
    BY <1>4 DEF Soon
  <2>2. CASE a = p /\ a # d
    <3>1. PICK c \in Lineage(d) : Parent[c] = p
      BY <1>2, <2>1, <2>2, EntryFacts DEF Lineage
    <3>2. c \in Children(p)
      BY <3>1 DEF Inv, Closed, Children, Lineage
    <3> QED
      BY <1>2, <3>1, <3>2 DEF Soon
  <2>3. CASE ~(a = p /\ a # d)
    BY <1>1, <1>2, <2>1, <2>3 DEF Soon
  <2> QED
    BY <2>2, <2>3
<1>5. WatchedSoon'
  BY <1>1, <1>4 DEF Inv, WatchedSoon, ghost
<1> QED
  BY <1>1, <1>3, <1>5 DEF Inv

LEMMA ByPassOver ==
    ASSUME Inv, NEW p \in Entries \cup {Root}, PassOver(p)
    PROVE  Inv'
<1>1. /\ Closed' /\ OwedReported' /\ \A q : Created(q)' <=> Created(q)
      /\ UNCHANGED <<exists, watched, kernel, pc, event, listing, emit, ghost>>
  BY WalkLeaves DEF PassOver, ghost
<1>2. /\ adding' = adding \ {p} /\ Walking /\ exists \subseteq Entries /\ p # Root
      /\ p \in Files \/ (p \in Dirs /\ ~Present(p))
  BY DEF PassOver, Inv, Types, TypeOK, Entries
<1>3. Types'
  BY <1>1, <1>2 DEF Inv, Types, TypeOK, emit, ghost, Walking
<1>4. ASSUME NEW d \in Dirs \cap exists, Soon(d)
      PROVE  Soon(d)'
  <2>1. p \notin Lineage(d)
    BY <1>2, EntryFacts DEF Lineage, Inv, Closed, Present
  <2> QED
    BY <1>1, <1>2, <1>4, <2>1 DEF Soon
<1>5. WatchedSoon'
  BY <1>1, <1>4 DEF Inv, WatchedSoon, ghost
<1> QED
  BY <1>1, <1>3, <1>5 DEF Inv

LEMMA ByGivingUp ==
    ASSUME Inv, Walking, GiveUp
    PROVE  Inv'
<1>1. /\ adding' = {} /\ listing' = {} /\ gaveUp' = TRUE
      /\ pc' = IF pc = "starting" THEN "failed" ELSE pc
      /\ UNCHANGED <<exists, watched, kernel, event, emitting, reading, owed, shown, changes>>
  BY DEF GiveUp, emit
<1>2. Types'
  <2>1. pc = "extending" => Root \notin adding
    BY BelowFacts, EntryFacts DEF Inv, Types, TypeOK, Event
  <2> QED
    BY <1>1, <2>1 DEF Inv, Types, TypeOK, Walking
<1> QED
  BY <1>1, <1>2 DEF Inv, Closed, WatchedSoon, OwedReported

-----------------------------------------------------------------------------
(* The event loop.                                                         *)

LEMMA ByStarted ==
    ASSUME Inv, Started
    PROVE  Inv'
<1>1. /\ pc = "starting" /\ adding = {} /\ listing = {} /\ pc' = "selecting"
      /\ owed' = {} /\ shown' = exists
      /\ UNCHANGED <<exists, watched, kernel, event, adding, listing, emitting, reading,
                     gaveUp, changes>>
  BY DEF Started, walk, emit
<1>2. Types'
  BY <1>1 DEF Inv, Types, TypeOK
<1> QED
  BY <1>1, <1>2 DEF Inv, Closed, WatchedSoon, OwedReported, Soon, Created

LEMMA ByTake ==
    ASSUME Inv, Take
    PROVE  Inv'
<1>1. /\ pc = "selecting" /\ kernel # <<>> /\ event' = Head(kernel) /\ kernel' = Tail(kernel)
      /\ pc' = "sending"
      /\ UNCHANGED <<exists, watched, adding, listing, emitting, reading, owed, shown,
                     gaveUp, changes>>
  BY DEF Take, walk, emit, ghost
<1>2. /\ kernel \in Seq(Event) /\ Len(kernel) \in Nat /\ Len(kernel) # 0
  BY <1>1 DEF Inv, Types, TypeOK
<1>3. /\ event' = kernel[1] /\ event' \in Event /\ kernel' \in Seq(Event)
      /\ Len(kernel') = Len(kernel) - 1
      /\ \A i \in 1..Len(kernel') : kernel'[i] = kernel[i + 1]
  BY <1>1, <1>2
<1>4. \A i \in 1..Len(kernel) : \/ kernel[i] = event'
                               \/ \E j \in 1..Len(kernel') : kernel'[j] = kernel[i]
  <2> SUFFICES ASSUME NEW i \in 1..Len(kernel), i # 1
               PROVE  i - 1 \in 1..Len(kernel') /\ kernel'[i - 1] = kernel[i]
    BY <1>2, <1>3
  <2> QED
    BY <1>2, <1>3
<1>5. \A p : Created(p) => Created(p)'
  BY <1>1, <1>4 DEF Created
<1>6. Types'
  BY <1>1, <1>3 DEF Inv, Types, TypeOK
<1>7. WatchedSoon'
  BY <1>1, <1>5 DEF Inv, WatchedSoon, Soon
<1>8. \A q : Reported(q) => Reported(q)'
  BY <1>1, <1>4, <1>5 DEF Reported
<1>9. OwedReported' /\ Closed'
  BY <1>1, <1>8 DEF Inv, OwedReported, Closed
<1> QED
  BY <1>6, <1>7, <1>9 DEF Inv

LEMMA BySend ==
    ASSUME Inv, Send
    PROVE  Inv'
<1>1. /\ pc = "sending" /\ adding = {} /\ listing = {} /\ event \in Event
      /\ event.path \in Entries /\ Root \in watched
      /\ UNCHANGED <<exists, watched, kernel, event, listing, emitting, reading, gaveUp, changes>>
      /\ owed' = owed \ {event.path}
      /\ \/ event.create /\ pc' = "extending" /\ adding' = {event.path}
         \/ ~event.create /\ pc' = "selecting" /\ adding' = adding
  BY DEF Send, Tell, emit, Inv, Types, TypeOK, Event
<1>2. Types'
  <2>1. TypeOK'
    <3>1. shown' \subseteq Entries
      BY <1>1 DEF Send, Tell, Inv, Types, TypeOK
    <3> QED
      BY <1>1, <3>1 DEF Inv, Types, TypeOK
  <2>2. event.path \in Below(event.path)
    BY <1>1 DEF Below, Lineage
  <2> QED
    BY <1>1, <2>1, <2>2 DEF Types
<1>3. \A p : Created(p) => Created(p)' \/ (event.create /\ p = event.path)
  BY <1>1 DEF Created
<1>4. ASSUME NEW d, Soon(d)
      PROVE  Soon(d)'
  BY <1>1, <1>3, <1>4 DEF Soon
<1>5. ASSUME NEW q, q # event.path, Reported(q)
      PROVE  Reported(q)'
  BY <1>1, <1>3, <1>5 DEF Reported
<1>6. WatchedSoon' /\ Closed'
  BY <1>1, <1>4 DEF Inv, WatchedSoon, Closed
<1>7. OwedReported'
  BY <1>1, <1>5 DEF Inv, OwedReported
<1> QED
  BY <1>2, <1>6, <1>7 DEF Inv

LEMMA ByExtended ==
    ASSUME Inv, Extended
    PROVE  Inv'
<1>1. /\ pc = "extending" /\ adding = {} /\ listing = {} /\ pc' = "selecting"
      /\ reading' = reading \cup ({event.path} \cap Dirs)
      /\ UNCHANGED <<exists, watched, kernel, event, adding, listing, emitting, owed, shown,
                     gaveUp, changes>>
  BY DEF Extended, walk, ghost
<1>2. Types'
  BY <1>1 DEF Inv, Types, TypeOK
<1>3. \A p : Created(p) => Created(p)'
  BY <1>1 DEF Created
<1>4. ASSUME NEW q \in Entries, Reported(q)
      PROVE  Reported(q)'
  <2>1. Above[q] \subseteq Dirs
    BY EntryFacts
  <2> QED
    BY <1>1, <1>3, <1>4, <2>1 DEF Reported
<1>5. WatchedSoon' /\ Closed'
  BY <1>1, <1>3 DEF Inv, WatchedSoon, Soon, Closed
<1>6. OwedReported'
  BY <1>1, <1>4 DEF Inv, OwedReported, Types, TypeOK
<1> QED
  BY <1>2, <1>5, <1>6 DEF Inv

-----------------------------------------------------------------------------
(* emitInitial.                                                            *)

LEMMA ByReadDir ==
    ASSUME Inv, NEW p \in Entries, ReadDir(p)
    PROVE  Inv'
<1>1. /\ p \in reading /\ reading' = reading \ {p} /\ emitting' = emitting \cup Children(p)
      /\ exists \subseteq Entries
      /\ UNCHANGED <<exists, watched, kernel, pc, event, adding, listing, owed, shown,
                     gaveUp, changes>>
  BY DEF ReadDir, walk, ghost, Inv, Types, TypeOK
<1>2. Types' /\ Closed' /\ WatchedSoon'
  BY <1>1 DEF Inv, Types, TypeOK, Children, Closed, WatchedSoon, Soon, Created
<1>3. \A a : Created(a) => Created(a)'
  BY <1>1 DEF Created
<1>4. ASSUME NEW q \in exists, Reported(q)
      PROVE  Reported(q)'
  <2>1. CASE p \in Above[q]
    <3>1. PICK c \in Lineage(q) : Parent[c] = p
      BY <1>1, <2>1, EntryFacts
    <3>2. c \in emitting' /\ (c = q \/ c \in Above[q])
      BY <1>1, <3>1 DEF Inv, Closed, Children, Lineage
    <3> QED
      BY <3>2 DEF Reported
  <2>2. CASE p \notin Above[q]
    BY <1>1, <1>3, <1>4, <2>2 DEF Reported
  <2> QED
    BY <2>1, <2>2
<1>5. OwedReported'
  BY <1>1, <1>4 DEF Inv, OwedReported
<1> QED
  BY <1>2, <1>5 DEF Inv

LEMMA ByEmit ==
    ASSUME Inv, NEW p \in Entries, Emit(p)
    PROVE  Inv'
<1>1. /\ p \in emitting /\ emitting' = emitting \ {p} /\ reading' = reading \cup ({p} \cap Dirs)
      /\ exists \subseteq Entries /\ owed' = owed \ {p}
      /\ UNCHANGED <<exists, watched, kernel, pc, event, adding, listing, gaveUp, changes>>
  BY DEF Emit, Tell, walk, Inv, Types, TypeOK
<1>2. shown' \subseteq Entries
  BY DEF Emit, Tell, Inv, Types, TypeOK
<1>3. Types' /\ Closed' /\ WatchedSoon'
  BY <1>1, <1>2 DEF Inv, Types, TypeOK, Closed, WatchedSoon, Soon, Created
<1>4. \A a : Created(a) => Created(a)'
  BY <1>1 DEF Created
<1>5. ASSUME NEW q \in exists, q # p, Reported(q)
      PROVE  Reported(q)'
  <2>1. Above[q] \subseteq Dirs
    BY <1>1, EntryFacts
  <2> QED
    BY <1>1, <1>4, <1>5, <2>1 DEF Reported
<1>6. OwedReported'
  BY <1>1, <1>5 DEF Inv, OwedReported
<1> QED
  BY <1>3, <1>6 DEF Inv

-----------------------------------------------------------------------------
(* The theorems.                                                           *)

LEMMA InvInit == Init => Inv
<1> SUFFICES ASSUME Init
             PROVE  Inv
  OBVIOUS
<1>1. exists \subseteq Entries /\ Closed
  BY TreesAssumption DEF Init, Closed
<1>2. Types
  <2>1. <<>> \in Seq(Event)
    OBVIOUS
  <2>2. kernel \in Seq(Event)
    BY <2>1 DEF Init
  <2> QED
    BY <1>1, <2>2 DEF Init, Types, TypeOK
<1>3. WatchedSoon /\ OwedReported
  BY DEF Init, WatchedSoon, OwedReported, Soon
<1> QED
  BY <1>1, <1>2, <1>3 DEF Inv

LEMMA InvStep == Inv /\ [Next]_vars => Inv'
<1> SUFFICES ASSUME Inv, [Next]_vars
             PROVE  Inv'
  OBVIOUS
<1>1. CASE UNCHANGED vars
  BY <1>1 DEF vars, Inv, Types, TypeOK, Closed, WatchedSoon, OwedReported, Soon, Reported, Created
<1>2. CASE AddStep
  BY <1>2, ByAdd, ByList, ByPassOver, ByGivingUp DEF AddStep, AddVanished, AddRefused
<1>3. CASE Started \/ Take \/ Send \/ Extended
  BY <1>3, ByStarted, ByTake, BySend, ByExtended
<1>4. CASE EmitStep
  BY <1>4, ByReadDir, ByEmit DEF EmitStep
<1>5. CASE User
  BY <1>5, ByUser
<1> QED
  BY <1>1, <1>2, <1>3, <1>4, <1>5 DEF Next, LoopStep, Waiting

LEMMA Invariance == Spec => []Inv
BY InvInit, InvStep, PTL DEF Spec

\* Whatever users do to the tree, the loop, its walks and its emitters keep to the
\* directories and entries there can be.
THEOREM TypeCorrect == Spec => []TypeOK
<1>1. Inv => TypeOK
  BY DEF Inv, Types
<1> QED
  BY <1>1, Invariance, PTL

\* With nothing left to do, the source has emitted every change of what exists,
\* whatever was created, moved in or removed around a directory without a watch.
THEOREM MissesNothing == Spec => []NothingMissed
<1>1. Inv => NothingMissed
  BY DEF Inv, Types, TypeOK, OwedReported, Reported, Created, NothingMissed, Quiet
<1> QED
  BY <1>1, Invariance, PTL

\* ... and has a watch on every directory.
THEOREM CoversDirectories == Spec => []WatchesAll
<1>1. Inv => WatchesAll
  BY DEF Inv, Types, TypeOK, WatchedSoon, Soon, Created, WatchesAll, Quiet
<1> QED
  BY <1>1, Invariance, PTL
=============================================================================
