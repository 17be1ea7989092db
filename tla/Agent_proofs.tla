---------------------------- MODULE Agent_proofs ----------------------------
(***************************************************************************)
(* The orchestrator keeps its invariant for every set of sources and       *)
(* paths, every capacity and every bound: nothing goes astray, a clean     *)
(* return joins everything, and nothing is reconciled after cancellation   *)
(* but the call already decided on.                                        *)
(* All its goroutines together implement the work list of WorkList.        *)
(*                                                                         *)
(* The process around it, whose step "watch" is the orchestrator's Run,    *)
(* keeps what main and the container promise: for every command line,      *)
(* every width of modes and ids, every pattern and every path.             *)
(***************************************************************************)
EXTENDS Watcher, Process, SequenceTheorems, TLAPS

(***************************************************************************)
(* Sequences of paths.                                                     *)
(***************************************************************************)

\* Appending adds one element and lengthens the queue by one.
LEMMA AppendFacts ==
    ASSUME NEW q \in Seq(Paths), NEW p \in Paths
    PROVE  /\ Append(q, p) \in Seq(Paths)
           /\ Len(Append(q, p)) = Len(q) + 1
           /\ Elements(Append(q, p)) = Elements(q) \cup {p}
<1> DEFINE a == Append(q, p)
<1>1. /\ a \in Seq(Paths) /\ Len(a) = Len(q) + 1
      /\ a[Len(q) + 1] = p
      /\ \A i \in 1..Len(q) : a[i] = q[i]
  OBVIOUS
<1>2. DOMAIN a = 1..(Len(q) + 1) /\ DOMAIN q = 1..Len(q) /\ Len(q) \in Nat
  BY <1>1
<1> HIDE DEF a
<1>3. ASSUME NEW x \in Elements(a), x # p
      PROVE  x \in Elements(q)
  <2>1. PICK i \in 1..(Len(q) + 1) : x = a[i]
    BY <1>2, <1>3 DEF Elements
  <2>2. i \in 1..Len(q)
    BY <2>1, <1>1, <1>2, <1>3
  <2> QED
    BY <2>1, <2>2, <1>1, <1>2 DEF Elements
<1>4. p \in Elements(a)
  <2>1. Len(q) + 1 \in DOMAIN a
    BY <1>2
  <2> QED
    BY <2>1, <1>1 DEF Elements
<1>5. ASSUME NEW x \in Elements(q)
      PROVE  x \in Elements(a)
  <2>1. PICK i \in 1..Len(q) : x = q[i]
    BY <1>2, <1>5 DEF Elements
  <2>2. i \in DOMAIN a /\ x = a[i]
    BY <2>1, <1>1, <1>2
  <2> QED
    BY <2>2 DEF Elements
<1>6. Elements(a) = Elements(q) \cup {p}
  BY <1>3, <1>4, <1>5
<1> QED
  BY <1>1, <1>6 DEF a

\* Taking the head leaves the other elements behind.
LEMMA TailFacts ==
    ASSUME NEW q \in Seq(Paths), q # <<>>
    PROVE  /\ Head(q) \in Paths
           /\ Tail(q) \in Seq(Paths)
           /\ Len(Tail(q)) = Len(q) - 1
           /\ Elements(q) = {Head(q)} \cup Elements(Tail(q))
<1>1. Head(q) \in Paths /\ Tail(q) \in Seq(Paths) /\ Len(Tail(q)) = Len(q) - 1
  OBVIOUS
<1>2. ASSUME NEW x \in Elements(q), x # Head(q)
      PROVE  x \in Elements(Tail(q))
  <2>1. PICK i \in 1..Len(q) : x = q[i]
    BY <1>2 DEF Elements
  <2>2. i # 1
    BY <2>1, <1>2
  <2>3. i - 1 \in 1..Len(Tail(q)) /\ Tail(q)[i - 1] = x
    BY <2>1, <2>2, <1>1
  <2>4. i - 1 \in DOMAIN Tail(q)
    BY <2>3, <1>1
  <2> QED
    BY <2>3, <2>4 DEF Elements
<1>3. Head(q) \in Elements(q)
  BY DEF Elements
<1>4. ASSUME NEW x \in Elements(Tail(q))
      PROVE  x \in Elements(q)
  <2>1. PICK i \in 1..Len(Tail(q)) : x = Tail(q)[i]
    BY <1>4, <1>1 DEF Elements
  <2>2. i + 1 \in 1..Len(q) /\ q[i + 1] = x
    BY <2>1, <1>1
  <2> QED
    BY <2>2 DEF Elements
<1> QED
  BY <1>1, <1>2, <1>3, <1>4

(***************************************************************************)
(* Types and capacities.                                                   *)
(***************************************************************************)

LEMMA InitTypeOK == Init => TypeOK
<1> SUFFICES ASSUME Init PROVE TypeOK
  OBVIOUS
<1> DEFINE empty == <<>>
<1>1. empty \in Seq(Paths) /\ Len(empty) = 0
  OBVIOUS
<1> HIDE DEF empty
<1>2. kernel = [s \in Sources |-> empty] /\ channel = [s \in Sources |-> empty]
  BY DEF Init, empty
<1>3. retries = empty
  BY DEF Init, empty
<1>4. /\ kernel \in [Sources -> Seq(Paths)] /\ \A s \in Sources : Len(kernel[s]) <= KernelQueue
      /\ channel \in [Sources -> Seq(Paths)] /\ \A s \in Sources : Len(channel[s]) <= Buffer[s]
      /\ retries \in Seq(Paths) /\ Len(retries) <= RetryBuffer
  BY <1>1, <1>2, <1>3, BoundsAssumption, SourcesAssumption
<1> QED
  BY <1>4 DEF Init, TypeOK, Item

\* What the consumer does to its own state and to the retries.
LEMMA ConsumerTypeOK ==
    ASSUME TypeOK, Phases, Consumer
    PROVE  TypeOK'
<1> USE DEF joins, stream, ghost, Item
<1>1. CASE StartFails
  BY <1>1 DEF StartFails, ReturnError, TypeOK
<1>2. CASE Visited
  BY <1>2 DEF Visited, TypeOK
<1>3. CASE WalkFails
  BY <1>3 DEF WalkFails, ReturnError, TypeOK
<1>4. CASE Merge
  BY <1>4 DEF Merge, TypeOK
<1>5. CASE ReceiveRetry
  <2>1. /\ retries' \in Seq(Paths) /\ Len(retries') <= RetryBuffer
        /\ at' \in Item
    BY <1>5, TailFacts, BoundsAssumption DEF ReceiveRetry, TypeOK
  <2> QED
    BY <1>5, <2>1 DEF ReceiveRetry, TypeOK
<1>6. CASE StreamClosed
  BY <1>6 DEF StreamClosed, TypeOK
<1>7. CASE SeeCancellation
  BY <1>7 DEF SeeCancellation, TypeOK
<1>8. CASE Skip
  BY <1>8 DEF Skip, TypeOK
<1>9. CASE Check
  BY <1>9 DEF Check, TypeOK
<1>10. CASE Reconcile
  BY <1>10 DEF Reconcile, Begin, TypeOK
<1>11. CASE Reconciled
  BY <1>11 DEF Reconciled, TypeOK
<1>12. CASE ReconcileFails
  <2>1. timers' \in [Paths -> Nat]
    <3>1. at \in Paths /\ timers \in [Paths -> Nat] /\ timers' = [timers EXCEPT ![at] = @ + 1]
      BY <1>12 DEF ReconcileFails, TypeOK, Phases
    <3> QED
      BY <3>1
  <2>2. at \in Paths /\ at' = Nothing /\ run' = "selecting" /\ owed' = owed \cup {at}
    BY <1>12 DEF ReconcileFails, Phases, TypeOK
  <2> QED
    BY <1>12, <2>1, <2>2 DEF ReconcileFails, TypeOK
<1>13. ASSUME NEW p \in Paths, Visit(p)
       PROVE  TypeOK'
  BY <1>13 DEF Visit, Begin, TypeOK
<1>14. ASSUME NEW s \in Sources, StartSource(s)
       PROVE  TypeOK'
  BY <1>14 DEF StartSource, TypeOK
<1>15. ASSUME NEW s \in Sources, ReceiveEvent(s)
       PROVE  TypeOK'
  BY <1>15 DEF ReceiveEvent, TypeOK
<1>16. ASSUME NEW s \in Sources, Discard(s)
       PROVE  TypeOK'
  BY <1>16 DEF Discard, TypeOK
<1> QED
  BY <1>1, <1>2, <1>3, <1>4, <1>5, <1>6, <1>7, <1>8, <1>9, <1>10, <1>11, <1>12,
     <1>13, <1>14, <1>15, <1>16 DEF Consumer

\* What the sources, the forwarders, the kernel and the timers do to the channels.
LEMMA OthersTypeOK ==
    ASSUME TypeOK, [Next]_vars, ~Consumer
    PROVE  TypeOK'
<1> USE DEF joins, stream, ghost, Item
<1>1. CASE UNCHANGED vars
  BY <1>1 DEF vars, TypeOK
<1>2. CASE CloseMerged
  BY <1>2 DEF CloseMerged, TypeOK
<1>3. CASE Cancel
  BY <1>3 DEF Cancel, TypeOK
<1>4. ASSUME NEW p \in Paths, TimerFires(p)
      PROVE  TypeOK'
  <2>1. timers' \in [Paths -> Nat]
    <3>1. /\ timers \in [Paths -> Nat] /\ timers[p] > 0
          /\ timers' = [timers EXCEPT ![p] = @ - 1]
      BY <1>4 DEF TimerFires, TypeOK
    <3> QED
      BY <3>1
  <2>2. retries' \in Seq(Paths) /\ Len(retries') <= RetryBuffer
    <3>1. retries \in Seq(Paths) /\ Len(retries) \in Nat /\ Len(retries) <= RetryBuffer
      BY DEF TypeOK
    <3>2. CASE Len(retries) < RetryBuffer /\ retries' = Append(retries, p)
      BY <3>1, <3>2, AppendFacts, BoundsAssumption
    <3>3. CASE retries' = retries
      BY <3>1, <3>3
    <3> QED
      BY <1>4, <3>2, <3>3 DEF TimerFires
  <2>3. lost' \subseteq Paths
    BY <1>4 DEF TimerFires, TypeOK
  <2> QED
    BY <1>4, <2>1, <2>2, <2>3 DEF TimerFires, TypeOK
<1>5. ASSUME NEW s \in Sources, NEW p \in Paths, Change(s, p)
      PROVE  TypeOK'
  <2>1. kernel' \in [Sources -> Seq(Paths)] /\ \A x \in Sources : Len(kernel'[x]) <= KernelQueue
    <3>1. CASE kernel' = kernel
      BY <3>1 DEF TypeOK
    <3>2. CASE /\ Len(kernel[s]) < KernelQueue
               /\ kernel' = [kernel EXCEPT ![s] = Append(@, p)]
      <4>1. Append(kernel[s], p) \in Seq(Paths) /\ Len(Append(kernel[s], p)) <= KernelQueue
        BY <3>2, AppendFacts, BoundsAssumption DEF TypeOK
      <4> QED
        BY <3>2, <4>1 DEF TypeOK
    <3> QED
      BY <1>5, <3>1, <3>2 DEF Change
  <2> QED
    BY <1>5, <2>1, BoundsAssumption DEF Change, TypeOK
<1>6. ASSUME NEW s \in Sources, TakeUp(s)
      PROVE  TypeOK'
  <2>1. /\ Head(kernel[s]) \in Paths /\ Tail(kernel[s]) \in Seq(Paths)
        /\ Len(Tail(kernel[s])) <= KernelQueue
    BY <1>6, TailFacts, BoundsAssumption DEF TakeUp, TypeOK
  <2> QED
    BY <1>6, <2>1 DEF TakeUp, TypeOK
<1>7. ASSUME NEW s \in Sources, NEW p \in Paths, Sweep(s, p)
      PROVE  TypeOK'
  BY <1>7 DEF Sweep, TypeOK
<1>8. ASSUME NEW s \in Sources, Send(s)
      PROVE  TypeOK'
  <2>1. offer[s] \in Paths
    BY <1>8 DEF Send, TypeOK
  <2>2. /\ Append(channel[s], offer[s]) \in Seq(Paths)
        /\ Len(Append(channel[s], offer[s])) <= Buffer[s]
    <3> DEFINE q == channel[s]
    <3>1. q \in Seq(Paths) /\ Buffer[s] \in Nat
      BY SourcesAssumption DEF TypeOK
    <3>2. Len(q) < Buffer[s] /\ Len(q) \in Nat
      BY <1>8, <3>1 DEF Send
    <3> HIDE DEF q
    <3>3. Append(q, offer[s]) \in Seq(Paths) /\ Len(Append(q, offer[s])) <= Buffer[s]
      BY <2>1, <3>1, <3>2, AppendFacts
    <3> QED
      BY <3>3 DEF q
  <2> QED
    BY <1>8, <2>2 DEF Send, TypeOK
<1>9. ASSUME NEW s \in Sources, Stop(s)
      PROVE  TypeOK'
  <2> DEFINE empty == <<>>
  <2>1. empty \in Seq(Paths) /\ Len(empty) <= KernelQueue
    BY BoundsAssumption
  <2>2. kernel' = [kernel EXCEPT ![s] = empty]
    BY <1>9 DEF Stop
  <2> HIDE DEF empty
  <2>3. kernel' \in [Sources -> Seq(Paths)] /\ \A x \in Sources : Len(kernel'[x]) <= KernelQueue
    BY <2>1, <2>2 DEF TypeOK
  <2> QED
    BY <1>9, <2>3 DEF Stop, TypeOK
<1>10. ASSUME NEW s \in Sources, Forward(s)
       PROVE  TypeOK'
  <2>1. /\ Head(channel[s]) \in Paths /\ Tail(channel[s]) \in Seq(Paths)
        /\ Len(Tail(channel[s])) <= Buffer[s]
    <3> DEFINE q == channel[s]
    <3>1. q \in Seq(Paths) /\ Buffer[s] \in Nat /\ Len(q) <= Buffer[s]
      BY SourcesAssumption DEF TypeOK
    <3>2. q # <<>> /\ Len(q) \in Nat
      BY <1>10, <3>1 DEF Forward
    <3> HIDE DEF q
    <3>3. Head(q) \in Paths /\ Tail(q) \in Seq(Paths) /\ Len(Tail(q)) <= Buffer[s]
      BY <3>1, <3>2, TailFacts
    <3> QED
      BY <3>3 DEF q
  <2> QED
    BY <1>10, <2>1 DEF Forward, TypeOK
<1>11. ASSUME NEW s \in Sources, Rendezvous(s)
       PROVE  TypeOK'
  BY <1>11 DEF Rendezvous, TypeOK
<1>12. ASSUME NEW s \in Sources, ForwarderEnds(s)
       PROVE  TypeOK'
  BY <1>12 DEF ForwarderEnds, TypeOK
<1> QED
  BY <1>1, <1>2, <1>3, <1>4, <1>5, <1>6, <1>7, <1>8, <1>9, <1>10, <1>11, <1>12
  DEF Next, Source, Forwarder, Terminated

LEMMA TypeStep ==
    ASSUME TypeOK, Phases, [Next]_vars
    PROVE  TypeOK'
BY ConsumerTypeOK, OthersTypeOK

(***************************************************************************)
(* The phases of Run.                                                      *)
(***************************************************************************)
LEMMA PhasesStep ==
    ASSUME TypeOK, Phases, Joins, [Next]_vars
    PROVE  Phases'
<1> USE PathsAssumption DEF joins, stream, ghost, TypeOK, Phases, Item
<1>1. CASE UNCHANGED vars
  BY <1>1 DEF vars
<1>2. CASE StartFails
  BY <1>2 DEF StartFails, ReturnError
<1>3. CASE Visited
  BY <1>3 DEF Visited
<1>4. CASE WalkFails
  BY <1>4 DEF WalkFails, ReturnError
<1>5. CASE Merge
  BY <1>5 DEF Merge
<1>6. CASE ReceiveRetry
  <2>1. at' \in Paths
    BY <1>6, TailFacts DEF ReceiveRetry
  <2> QED
    BY <1>6, <2>1 DEF ReceiveRetry
<1>7. CASE StreamClosed
  BY <1>7 DEF StreamClosed
<1>8. CASE SeeCancellation
  BY <1>8 DEF SeeCancellation
<1>9. CASE Skip
  BY <1>9 DEF Skip
<1>10. CASE Check
  BY <1>10 DEF Check
<1>11. CASE Reconcile
  BY <1>11 DEF Reconcile, Begin
<1>12. CASE Reconciled
  BY <1>12 DEF Reconciled
<1>13. CASE ReconcileFails
  BY <1>13 DEF ReconcileFails
<1>14. CASE CloseMerged
  BY <1>14 DEF CloseMerged
<1>15. CASE Cancel
  BY <1>15 DEF Cancel
<1>16. ASSUME NEW p \in Paths, Visit(p)
       PROVE  Phases'
  BY <1>16 DEF Visit, Begin
<1>17. ASSUME NEW p \in Paths, TimerFires(p)
       PROVE  Phases'
  BY <1>17 DEF TimerFires
<1>18. ASSUME NEW s \in Sources, StartSource(s)
       PROVE  Phases'
  BY <1>18 DEF StartSource
<1>19. ASSUME NEW s \in Sources, ReceiveEvent(s)
       PROVE  Phases'
  BY <1>19 DEF ReceiveEvent
<1>20. ASSUME NEW s \in Sources, Discard(s)
       PROVE  Phases'
  BY <1>20 DEF Discard
<1>21. ASSUME NEW s \in Sources, TakeUp(s)
       PROVE  Phases'
  BY <1>21 DEF TakeUp
<1>22. ASSUME NEW s \in Sources, Send(s)
       PROVE  Phases'
  BY <1>22 DEF Send
<1>23. ASSUME NEW s \in Sources, Stop(s)
       PROVE  Phases'
  BY <1>23 DEF Stop
<1>24. ASSUME NEW s \in Sources, Forward(s)
       PROVE  Phases'
  BY <1>24 DEF Forward
<1>25. ASSUME NEW s \in Sources, Rendezvous(s)
       PROVE  Phases'
  BY <1>25 DEF Rendezvous
<1>26. ASSUME NEW s \in Sources, ForwarderEnds(s)
       PROVE  Phases'
  BY <1>26 DEF ForwarderEnds
<1>27. ASSUME NEW s \in Sources, NEW p \in Paths, Sweep(s, p)
       PROVE  Phases'
  BY <1>27 DEF Sweep
<1>28. ASSUME NEW s \in Sources, NEW p \in Paths, Change(s, p)
       PROVE  Phases'
  BY <1>28 DEF Change
<1> QED
  BY <1>1, <1>2, <1>3, <1>4, <1>5, <1>6, <1>7, <1>8, <1>9, <1>10, <1>11, <1>12, <1>13,
     <1>14, <1>15, <1>16, <1>17, <1>18, <1>19, <1>20, <1>21, <1>22, <1>23, <1>24,
     <1>25, <1>26, <1>27, <1>28
  DEF Next, Consumer, Source, Forwarder, Terminated

(***************************************************************************)
(* The joins of the shutdown.                                              *)
(***************************************************************************)
LEMMA JoinsStep ==
    ASSUME TypeOK, Phases, Joins, [Next]_vars
    PROVE  Joins'
<1> USE DEF joins, stream, ghost, TypeOK, Phases, Joins, CtxDone, Running, Receiving
<1>1. CASE UNCHANGED vars
  BY <1>1 DEF vars
<1>2. CASE StartFails
  BY <1>2 DEF StartFails, ReturnError
<1>3. CASE Visited
  BY <1>3 DEF Visited
<1>4. CASE WalkFails
  BY <1>4 DEF WalkFails, ReturnError
<1>5. CASE Merge
  BY <1>5 DEF Merge
<1>6. CASE ReceiveRetry
  BY <1>6 DEF ReceiveRetry
<1>7. CASE StreamClosed
  BY <1>7 DEF StreamClosed
<1>8. CASE SeeCancellation
  BY <1>8 DEF SeeCancellation
<1>9. CASE Skip
  BY <1>9 DEF Skip
<1>10. CASE Check
  BY <1>10 DEF Check
<1>11. CASE Reconcile
  BY <1>11 DEF Reconcile, Begin
<1>12. CASE Reconciled
  BY <1>12 DEF Reconciled
<1>13. CASE ReconcileFails
  BY <1>13 DEF ReconcileFails
<1>14. CASE CloseMerged
  BY <1>14 DEF CloseMerged
<1>15. CASE Cancel
  BY <1>15 DEF Cancel
<1>16. ASSUME NEW p \in Paths, Visit(p)
       PROVE  Joins'
  BY <1>16 DEF Visit, Begin
<1>17. ASSUME NEW p \in Paths, TimerFires(p)
       PROVE  Joins'
  BY <1>17 DEF TimerFires
<1>18. ASSUME NEW s \in Sources, StartSource(s)
       PROVE  Joins'
  BY <1>18 DEF StartSource
<1>19. ASSUME NEW s \in Sources, ReceiveEvent(s)
       PROVE  Joins'
  BY <1>19 DEF ReceiveEvent
<1>20. ASSUME NEW s \in Sources, Discard(s)
       PROVE  Joins'
  BY <1>20 DEF Discard
<1>21. ASSUME NEW s \in Sources, TakeUp(s)
       PROVE  Joins'
  BY <1>21 DEF TakeUp
<1>22. ASSUME NEW s \in Sources, Send(s)
       PROVE  Joins'
  BY <1>22 DEF Send
<1>23. ASSUME NEW s \in Sources, Stop(s)
       PROVE  Joins'
  BY <1>23 DEF Stop
<1>24. ASSUME NEW s \in Sources, Forward(s)
       PROVE  Joins'
  BY <1>24 DEF Forward
<1>25. ASSUME NEW s \in Sources, Rendezvous(s)
       PROVE  Joins'
  BY <1>25 DEF Rendezvous
<1>26. ASSUME NEW s \in Sources, ForwarderEnds(s)
       PROVE  Joins'
  BY <1>26 DEF ForwarderEnds
<1>27. ASSUME NEW s \in Sources, NEW p \in Paths, Sweep(s, p)
       PROVE  Joins'
  BY <1>27 DEF Sweep
<1>28. ASSUME NEW s \in Sources, NEW p \in Paths, Change(s, p)
       PROVE  Joins'
  BY <1>28 DEF Change
<1> QED
  BY <1>1, <1>2, <1>3, <1>4, <1>5, <1>6, <1>7, <1>8, <1>9, <1>10, <1>11, <1>12, <1>13,
     <1>14, <1>15, <1>16, <1>17, <1>18, <1>19, <1>20, <1>21, <1>22, <1>23, <1>24,
     <1>25, <1>26, <1>27, <1>28
  DEF Next, Consumer, Source, Forwarder, Terminated

(***************************************************************************)
(* The last call.                                                          *)
(***************************************************************************)
LEMMA LastCallStep ==
    ASSUME TypeOK, LastCall, NoLateWork, [Next]_vars
    PROVE  LastCall' /\ NoLateWork'
<1> USE DEF joins, stream, ghost, TypeOK, LastCall, NoLateWork
<1>1. CASE UNCHANGED vars
  BY <1>1 DEF vars
<1>2. CASE StartFails
  BY <1>2 DEF StartFails, ReturnError
<1>3. CASE Visited
  BY <1>3 DEF Visited
<1>4. CASE WalkFails
  BY <1>4 DEF WalkFails, ReturnError
<1>5. CASE Merge
  BY <1>5 DEF Merge
<1>6. CASE ReceiveRetry
  BY <1>6 DEF ReceiveRetry
<1>7. CASE StreamClosed
  BY <1>7 DEF StreamClosed
<1>8. CASE SeeCancellation
  BY <1>8 DEF SeeCancellation
<1>9. CASE Skip
  BY <1>9 DEF Skip
<1>10. CASE Check
  BY <1>10 DEF Check
<1>11. CASE Reconcile
  BY <1>11 DEF Reconcile, Begin
<1>12. CASE Reconciled
  BY <1>12 DEF Reconciled
<1>13. CASE ReconcileFails
  BY <1>13 DEF ReconcileFails
<1>14. CASE CloseMerged
  BY <1>14 DEF CloseMerged
<1>15. CASE Cancel
  BY <1>15 DEF Cancel
<1>16. ASSUME NEW p \in Paths, Visit(p)
       PROVE  LastCall' /\ NoLateWork'
  BY <1>16 DEF Visit, Begin
<1>17. ASSUME NEW p \in Paths, TimerFires(p)
       PROVE  LastCall' /\ NoLateWork'
  BY <1>17 DEF TimerFires
<1>18. ASSUME NEW s \in Sources, StartSource(s)
       PROVE  LastCall' /\ NoLateWork'
  BY <1>18 DEF StartSource
<1>19. ASSUME NEW s \in Sources, ReceiveEvent(s)
       PROVE  LastCall' /\ NoLateWork'
  BY <1>19 DEF ReceiveEvent
<1>20. ASSUME NEW s \in Sources, Discard(s)
       PROVE  LastCall' /\ NoLateWork'
  BY <1>20 DEF Discard
<1>21. ASSUME NEW s \in Sources, TakeUp(s)
       PROVE  LastCall' /\ NoLateWork'
  BY <1>21 DEF TakeUp
<1>22. ASSUME NEW s \in Sources, Send(s)
       PROVE  LastCall' /\ NoLateWork'
  BY <1>22 DEF Send
<1>23. ASSUME NEW s \in Sources, Stop(s)
       PROVE  LastCall' /\ NoLateWork'
  BY <1>23 DEF Stop
<1>24. ASSUME NEW s \in Sources, Forward(s)
       PROVE  LastCall' /\ NoLateWork'
  BY <1>24 DEF Forward
<1>25. ASSUME NEW s \in Sources, Rendezvous(s)
       PROVE  LastCall' /\ NoLateWork'
  BY <1>25 DEF Rendezvous
<1>26. ASSUME NEW s \in Sources, ForwarderEnds(s)
       PROVE  LastCall' /\ NoLateWork'
  BY <1>26 DEF ForwarderEnds
<1>27. ASSUME NEW s \in Sources, NEW p \in Paths, Sweep(s, p)
       PROVE  LastCall' /\ NoLateWork'
  BY <1>27 DEF Sweep
<1>28. ASSUME NEW s \in Sources, NEW p \in Paths, Change(s, p)
       PROVE  LastCall' /\ NoLateWork'
  BY <1>28 DEF Change
<1> QED
  BY <1>1, <1>2, <1>3, <1>4, <1>5, <1>6, <1>7, <1>8, <1>9, <1>10, <1>11, <1>12, <1>13,
     <1>14, <1>15, <1>16, <1>17, <1>18, <1>19, <1>20, <1>21, <1>22, <1>23, <1>24,
     <1>25, <1>26, <1>27, <1>28
  DEF Next, Consumer, Source, Forwarder, Terminated

(***************************************************************************)
(* Nothing goes astray.                                                    *)
(***************************************************************************)

\* The context stays done.
LEMMA DoneStays ==
    ASSUME [Next]_vars, CtxDone
    PROVE  CtxDone'
<1> USE DEF joins, stream, ghost, CtxDone
<1>1. CASE UNCHANGED vars
  BY <1>1 DEF vars
<1>2. CASE StartFails
  BY <1>2 DEF StartFails, ReturnError
<1>3. CASE Visited
  BY <1>3 DEF Visited
<1>4. CASE WalkFails
  BY <1>4 DEF WalkFails, ReturnError
<1>5. CASE Merge
  BY <1>5 DEF Merge
<1>6. CASE ReceiveRetry
  BY <1>6 DEF ReceiveRetry
<1>7. CASE StreamClosed
  BY <1>7 DEF StreamClosed
<1>8. CASE SeeCancellation
  BY <1>8 DEF SeeCancellation
<1>9. CASE Skip
  BY <1>9 DEF Skip
<1>10. CASE Check
  BY <1>10 DEF Check
<1>11. CASE Reconcile
  BY <1>11 DEF Reconcile, Begin
<1>12. CASE Reconciled
  BY <1>12 DEF Reconciled
<1>13. CASE ReconcileFails
  BY <1>13 DEF ReconcileFails
<1>14. CASE CloseMerged
  BY <1>14 DEF CloseMerged
<1>15. CASE Cancel
  BY <1>15 DEF Cancel
<1>16. ASSUME NEW p \in Paths, Visit(p)
       PROVE  CtxDone'
  BY <1>16 DEF Visit, Begin
<1>17. ASSUME NEW p \in Paths, TimerFires(p)
       PROVE  CtxDone'
  BY <1>17 DEF TimerFires
<1>18. ASSUME NEW s \in Sources, StartSource(s)
       PROVE  CtxDone'
  BY <1>18 DEF StartSource
<1>19. ASSUME NEW s \in Sources, ReceiveEvent(s)
       PROVE  CtxDone'
  BY <1>19 DEF ReceiveEvent
<1>20. ASSUME NEW s \in Sources, Discard(s)
       PROVE  CtxDone'
  BY <1>20 DEF Discard
<1>21. ASSUME NEW s \in Sources, TakeUp(s)
       PROVE  CtxDone'
  BY <1>21 DEF TakeUp
<1>22. ASSUME NEW s \in Sources, Send(s)
       PROVE  CtxDone'
  BY <1>22 DEF Send
<1>23. ASSUME NEW s \in Sources, Stop(s)
       PROVE  CtxDone'
  BY <1>23 DEF Stop
<1>24. ASSUME NEW s \in Sources, Forward(s)
       PROVE  CtxDone'
  BY <1>24 DEF Forward
<1>25. ASSUME NEW s \in Sources, Rendezvous(s)
       PROVE  CtxDone'
  BY <1>25 DEF Rendezvous
<1>26. ASSUME NEW s \in Sources, ForwarderEnds(s)
       PROVE  CtxDone'
  BY <1>26 DEF ForwarderEnds
<1>27. ASSUME NEW s \in Sources, NEW p \in Paths, Sweep(s, p)
       PROVE  CtxDone'
  BY <1>27 DEF Sweep
<1>28. ASSUME NEW s \in Sources, NEW p \in Paths, Change(s, p)
       PROVE  CtxDone'
  BY <1>28 DEF Change
<1> QED
  BY <1>1, <1>2, <1>3, <1>4, <1>5, <1>6, <1>7, <1>8, <1>9, <1>10, <1>11, <1>12, <1>13,
     <1>14, <1>15, <1>16, <1>17, <1>18, <1>19, <1>20, <1>21, <1>22, <1>23, <1>24,
     <1>25, <1>26, <1>27, <1>28
  DEF Next, Consumer, Source, Forwarder, Terminated

LEMMA AccountedStep ==
    ASSUME TypeOK, Phases, Joins, Accounted, [Next]_vars
    PROVE  Accounted'
<1> SUFFICES ASSUME ~CtxDone', NEW x \in owed', x \notin lost'
             PROVE  Held(x)'
  BY DEF Accounted
<1>0. /\ ~CtxDone
      /\ x \in Paths
      /\ x \in owed /\ x \notin lost => Held(x)
  BY DoneStays, TypeStep DEF Accounted, TypeOK
<1> USE PathsAssumption DEF joins, stream, ghost, CtxDone, Held, HeldBy, Running
<1>1. CASE UNCHANGED vars
  BY <1>1, <1>0 DEF vars
<1>2. CASE StartFails
  BY <1>2, <1>0 DEF StartFails, ReturnError
<1>3. CASE Visited
  BY <1>3, <1>0 DEF Visited
<1>4. CASE WalkFails
  BY <1>4, <1>0 DEF WalkFails, ReturnError
<1>5. CASE Merge
  BY <1>5, <1>0 DEF Merge
<1>6. CASE ReceiveRetry
  <2>1. Elements(retries) = {at'} \cup Elements(retries')
    BY <1>6, TailFacts DEF ReceiveRetry, TypeOK
  <2> QED
    BY <1>6, <1>0, <2>1 DEF ReceiveRetry
<1>7. CASE StreamClosed
  BY <1>7, <1>0 DEF StreamClosed
<1>8. CASE SeeCancellation
  BY <1>8, <1>0 DEF SeeCancellation
<1>9. CASE Skip
  BY <1>9, <1>0 DEF Skip
<1>10. CASE Check
  BY <1>10, <1>0 DEF Check
<1>11. CASE Reconcile
  BY <1>11, <1>0 DEF Reconcile, Begin
<1>12. CASE Reconciled
  BY <1>12, <1>0 DEF Reconciled
<1>13. CASE ReconcileFails
  <2>1. at \in Paths /\ timers \in [Paths -> Nat]
    BY <1>13 DEF ReconcileFails, TypeOK, Phases, Item
  <2>2. timers' = [timers EXCEPT ![at] = @ + 1]
    BY <1>13 DEF ReconcileFails
  <2>3. timers'[at] > 0 /\ \A y \in Paths : timers[y] > 0 => timers'[y] > 0
    BY <2>1, <2>2
  <2>4. x = at \/ Held(x)
    BY <1>13, <1>0 DEF ReconcileFails
  <2> QED
    BY <1>13, <1>0, <2>1, <2>3, <2>4 DEF ReconcileFails
<1>14. CASE CloseMerged
  BY <1>14, <1>0 DEF CloseMerged
<1>15. CASE Cancel
  BY <1>15, <1>0 DEF Cancel
<1>16. ASSUME NEW p \in Paths, Visit(p)
       PROVE  Held(x)'
  BY <1>16, <1>0 DEF Visit, Begin
<1>17. ASSUME NEW p \in Paths, TimerFires(p)
       PROVE  Held(x)'
  <2>1. Elements(Append(retries, p)) = Elements(retries) \cup {p}
    BY AppendFacts DEF TypeOK
  <2> QED
    BY <1>17, <1>0, <2>1 DEF TimerFires, TypeOK
<1>18. ASSUME NEW s \in Sources, StartSource(s)
       PROVE  Held(x)'
  BY <1>18, <1>0 DEF StartSource
<1>19. ASSUME NEW s \in Sources, ReceiveEvent(s)
       PROVE  Held(x)'
  BY <1>19, <1>0 DEF ReceiveEvent
<1>20. ASSUME NEW s \in Sources, Discard(s)
       PROVE  Held(x)'
  BY <1>20, <1>0 DEF Discard, Phases
<1>21. ASSUME NEW s \in Sources, TakeUp(s)
       PROVE  Held(x)'
  <2>1. Elements(kernel[s]) = {Head(kernel[s])} \cup Elements(Tail(kernel[s]))
    BY <1>21, TailFacts DEF TakeUp, TypeOK
  <2> QED
    BY <1>21, <1>0, <2>1 DEF TakeUp, TypeOK
<1>22. ASSUME NEW s \in Sources, Send(s)
       PROVE  Held(x)'
  <2>1. Elements(Append(channel[s], offer[s])) = Elements(channel[s]) \cup {offer[s]}
    BY <1>22, AppendFacts DEF Send, TypeOK, Item
  <2> QED
    BY <1>22, <1>0, <2>1 DEF Send, TypeOK
<1>23. ASSUME NEW s \in Sources, Stop(s)
       PROVE  Held(x)'
  BY <1>23, <1>0 DEF Stop
<1>24. ASSUME NEW s \in Sources, Forward(s)
       PROVE  Held(x)'
  <2>1. Elements(channel[s]) = {Head(channel[s])} \cup Elements(Tail(channel[s]))
    BY <1>24, TailFacts DEF Forward, TypeOK
  <2> QED
    BY <1>24, <1>0, <2>1 DEF Forward, TypeOK, Receiving
<1>25. ASSUME NEW s \in Sources, Rendezvous(s)
       PROVE  Held(x)'
  BY <1>25, <1>0 DEF Rendezvous, TypeOK, Receiving
<1>26. ASSUME NEW s \in Sources, ForwarderEnds(s)
       PROVE  Held(x)'
  BY <1>26, <1>0 DEF ForwarderEnds
<1>27. ASSUME NEW s \in Sources, NEW p \in Paths, Sweep(s, p)
       PROVE  Held(x)'
  BY <1>27, <1>0 DEF Sweep
<1>28. ASSUME NEW s \in Sources, NEW p \in Paths, Change(s, p)
       PROVE  Held(x)'
  <2>1. Elements(Append(kernel[s], p)) = Elements(kernel[s]) \cup {p}
    BY AppendFacts DEF TypeOK
  <2>2. CASE kernel' = [kernel EXCEPT ![s] = Append(@, p)] /\ lost' = lost
    <3>1. kernel'[s] = Append(kernel[s], p)
      BY <2>2 DEF TypeOK
    <3>2. \A y \in Sources : Elements(kernel[y]) \subseteq Elements(kernel'[y])
      BY <2>1, <2>2, <3>1 DEF TypeOK
    <3>3. p \in Elements(kernel'[s])
      BY <2>1, <3>1
    <3> QED
      BY <1>28, <1>0, <2>2, <3>2, <3>3 DEF Change
  <2>3. CASE lost' = lost \cup {p} /\ kernel' = kernel
    BY <1>28, <1>0, <2>3 DEF Change
  <2>4. CASE /\ p \in Watches[s] => ~Running(s)
             /\ p \in Watches[s] \cup Sweeps[s]
             /\ kernel' = kernel /\ lost' = lost
    <3>1. CASE Running(s)
      BY <1>28, <1>0, <2>4, <3>1 DEF Change
    <3>2. CASE ~Running(s)
      <4>1. status[s] = "off"
        BY <1>0, <3>2 DEF Joins, TypeOK
      <4>2. unvisited = Paths
        BY <1>28, <4>1 DEF Change, Phases
      <4> QED
        BY <1>28, <1>0, <4>2 DEF Change
    <3> QED
      BY <3>1, <3>2
  <2> QED
    BY <1>28, <2>2, <2>3, <2>4 DEF Change
<1> QED
  BY <1>1, <1>2, <1>3, <1>4, <1>5, <1>6, <1>7, <1>8, <1>9, <1>10, <1>11, <1>12, <1>13,
     <1>14, <1>15, <1>16, <1>17, <1>18, <1>19, <1>20, <1>21, <1>22, <1>23, <1>24,
     <1>25, <1>26, <1>27, <1>28
  DEF Next, Consumer, Source, Forwarder, Terminated

(***************************************************************************)
(* The theorems about the orchestrator.                                    *)
(***************************************************************************)

\* The invariant holds at the start and every step preserves it.
THEOREM WatcherInvariant == Spec => []IndInv
<1>1. Init => IndInv
  BY InitTypeOK, SourcesAssumption
  DEF Init, IndInv, Phases, Joins, LastCall, NoLateWork, Accounted, Held
<1>2. IndInv /\ [Next]_vars => IndInv'
  BY TypeStep, PhasesStep, JoinsStep, LastCallStep, AccountedStep DEF IndInv
<1> QED
  BY <1>1, <1>2, PTL DEF Spec

\* Types, and no channel or queue above its capacity.
THEOREM TypeCorrect == Spec => []TypeOK
<1>1. IndInv => TypeOK
  BY DEF IndInv
<1> QED
  BY <1>1, WatcherInvariant, PTL

\* Every path that changed or failed is on its way to the consumer or was dropped
\* by a full queue: no interleaving of the goroutines, the timers and the start-up
\* walk loses one.
THEOREM NothingGoesAstray == Spec => []Accounted
<1>1. IndInv => Accounted
  BY DEF IndInv
<1> QED
  BY <1>1, WatcherInvariant, PTL

\* A nil return of Run has joined every forwarder and every source.
THEOREM ShutdownJoins == Spec => []CleanShutdown
<1>1. IndInv => CleanShutdown
  BY DEF IndInv, Phases, Joins, CleanShutdown
<1> QED
  BY <1>1, WatcherInvariant, PTL

\* At most one reconciliation begins after the cancellation.
THEOREM OneLateCall == Spec => []NoLateWork
<1>1. IndInv => NoLateWork
  BY DEF IndInv
<1> QED
  BY <1>1, WatcherInvariant, PTL

\* Run returns nil only when its context was cancelled, which is what the process
\* takes for granted when it ends with zero (WatcherStops).
THEOREM NilMeansCancelled ==
    ASSUME Sources # {}
    PROVE  Spec => [](run = "returned" /\ ~err => cancelled)
<1> DEFINE Inv == run = "returned" /\ ~err => cancelled
<1>1. Init => Inv
  BY DEF Init
<1>2. IndInv /\ Inv /\ [Next]_vars => Inv'
  <2> SUFFICES ASSUME IndInv, Inv, [Next]_vars
               PROVE  Inv'
    OBVIOUS
  <2>1. run # "returned" /\ run' = "returned" => err' \/ StreamClosed
    BY DEF Next, Consumer, Source, Forwarder, StartFails, Visited, WalkFails, ReturnError,
                Merge, ReceiveRetry, SeeCancellation, Skip, Check, Reconcile, Reconciled,
                ReconcileFails, Visit, StartSource, ReceiveEvent, Discard, CloseMerged, Cancel,
                Terminated, TimerFires, TakeUp, Send, Stop, Sweep, Forward, Rendezvous,
                ForwarderEnds, Change, vars
  <2>2. ASSUME StreamClosed
        PROVE  cancelled'
    <3>1. PICK s \in Sources : TRUE
      OBVIOUS
    <3>2. status[s] = "closed" /\ run # "returned"
      BY <2>2 DEF StreamClosed, IndInv, Joins
    <3> QED
      BY <2>2, <3>2 DEF StreamClosed, IndInv, Joins, CtxDone
  <2>3. cancelled => cancelled'
    BY DEF Next, Consumer, Source, Forwarder, StartFails, Visited, WalkFails, ReturnError,
                Merge, ReceiveRetry, StreamClosed, SeeCancellation, Skip, Check, Reconcile,
                Reconciled, ReconcileFails, Visit, StartSource, ReceiveEvent, Discard,
                CloseMerged, Cancel, Terminated, TimerFires, TakeUp, Send, Stop, Sweep,
                Forward, Rendezvous, ForwarderEnds, Change, vars
  <2>4. run = "returned" => UNCHANGED err
    BY DEF Next, Consumer, Source, Forwarder, StartFails, Visited, WalkFails, ReturnError,
                Merge, ReceiveRetry, StreamClosed, SeeCancellation, Skip, Check, Reconcile,
                Reconciled, ReconcileFails, Visit, StartSource, ReceiveEvent, Discard,
                CloseMerged, Cancel, Terminated, TimerFires, TakeUp, Send, Stop, Sweep,
                Forward, Rendezvous, ForwarderEnds, Change, vars
  <2> QED
    BY <2>1, <2>2, <2>3, <2>4
<1> QED
  BY WatcherInvariant, <1>1, <1>2, PTL DEF Spec

(***************************************************************************)
(* The orchestrator implements WorkList.                                   *)
(***************************************************************************)

\* The steps that only take a path from one place to the next, or none.
Moves ==
    \/ UNCHANGED vars \/ Merge \/ ReceiveRetry \/ SeeCancellation \/ Check \/ CloseMerged
    \/ \E s \in Sources :
         \/ StartSource(s) \/ ReceiveEvent(s) \/ TakeUp(s) \/ Send(s)
         \/ Forward(s) \/ Rendezvous(s) \/ ForwarderEnds(s)
         \/ \E p \in Paths : Sweep(s, p)

\* A move loses no path and makes none.
LEMMA MovesKeepHeld ==
    ASSUME TypeOK, Phases, Joins, Moves, NEW x \in Paths
    PROVE  Held(x)' <=> Held(x)
<1> USE PathsAssumption DEF joins, stream, ghost, CtxDone, Held, HeldBy, Running
<1>1. CASE UNCHANGED vars
  BY <1>1 DEF vars
<1>2. CASE Merge
  BY <1>2 DEF Merge
<1>3. CASE ReceiveRetry
  <2>1. Elements(retries) = {at'} \cup Elements(retries')
    BY <1>3, TailFacts DEF ReceiveRetry, TypeOK
  <2> QED
    BY <1>3, <2>1 DEF ReceiveRetry
<1>4. CASE SeeCancellation
  BY <1>4 DEF SeeCancellation
<1>5. CASE Check
  BY <1>5 DEF Check
<1>6. CASE CloseMerged
  BY <1>6 DEF CloseMerged
<1>7. ASSUME NEW s \in Sources, StartSource(s)
      PROVE  Held(x)' <=> Held(x)
  BY <1>7 DEF StartSource, Phases
<1>8. ASSUME NEW s \in Sources, ReceiveEvent(s)
      PROVE  Held(x)' <=> Held(x)
  BY <1>8 DEF ReceiveEvent, TypeOK
<1>9. ASSUME NEW s \in Sources, TakeUp(s)
      PROVE  Held(x)' <=> Held(x)
  <2>1. Elements(kernel[s]) = {Head(kernel[s])} \cup Elements(Tail(kernel[s]))
    BY <1>9, TailFacts DEF TakeUp, TypeOK
  <2> QED
    BY <1>9, <2>1 DEF TakeUp, TypeOK
<1>10. ASSUME NEW s \in Sources, Send(s)
       PROVE  Held(x)' <=> Held(x)
  <2>1. Elements(Append(channel[s], offer[s])) = Elements(channel[s]) \cup {offer[s]}
    BY <1>10, AppendFacts DEF Send, TypeOK, Item
  <2> QED
    BY <1>10, <2>1 DEF Send, TypeOK
<1>11. ASSUME NEW s \in Sources, Forward(s)
       PROVE  Held(x)' <=> Held(x)
  <2>1. Elements(channel[s]) = {Head(channel[s])} \cup Elements(Tail(channel[s]))
    BY <1>11, TailFacts DEF Forward, TypeOK
  <2> QED
    BY <1>11, <2>1 DEF Forward, TypeOK, Receiving
<1>12. ASSUME NEW s \in Sources, Rendezvous(s)
       PROVE  Held(x)' <=> Held(x)
  BY <1>12 DEF Rendezvous, TypeOK, Receiving
<1>13. ASSUME NEW s \in Sources, ForwarderEnds(s)
       PROVE  Held(x)' <=> Held(x)
  BY <1>13 DEF ForwarderEnds
<1>14. ASSUME NEW s \in Sources, NEW p \in Paths, Sweep(s, p)
       PROVE  Held(x)' <=> Held(x)
  BY <1>14 DEF Sweep, TypeOK
<1> QED
  BY <1>1, <1>2, <1>3, <1>4, <1>5, <1>6, <1>7, <1>8, <1>9, <1>10, <1>11, <1>12, <1>13,
     <1>14 DEF Moves

\* A move is out of the work list's sight.
LEMMA MovesUnseen ==
    ASSUME TypeOK, Phases, Joins, Moves
    PROVE  UNCHANGED Work!vars
<1>1. Waiting' = Waiting
  BY MovesKeepHeld DEF Waiting
<1>2. owed' = owed /\ lost' = lost /\ CtxDone' = CtxDone
  BY DEF Moves, Merge, ReceiveRetry, SeeCancellation, Check, CloseMerged, StartSource,
         ReceiveEvent, TakeUp, Send, Forward, Rendezvous, ForwarderEnds, Sweep, vars,
         joins, stream, ghost, CtxDone
<1>3. Serving' = Serving
  BY DEF Moves, Merge, ReceiveRetry, SeeCancellation, Check, CloseMerged, StartSource,
         ReceiveEvent, TakeUp, Send, Forward, Rendezvous, ForwarderEnds, Sweep, vars,
         joins, stream, ghost, Serving
<1> QED
  BY <1>1, <1>2, <1>3 DEF Work!vars

LEMMA WorkInit == Init => Work!Init
<1> SUFFICES ASSUME Init PROVE Work!Init
  OBVIOUS
<1>1. Waiting = Paths
  BY DEF Init, Waiting, Held
<1>2. Serving = Nothing /\ ~CtxDone
  BY DEF Init, Serving, CtxDone
<1> QED
  BY <1>1, <1>2 DEF Init, Work!Init

\* A change puts its path somewhere, unless a queue is full or the agent is stopping.
LEMMA ChangeIsChange ==
    ASSUME TypeOK, Phases, Joins, NEW s \in Sources, NEW p \in Paths, Change(s, p)
    PROVE  Work!Change(p)
<1> USE PathsAssumption DEF joins, stream, ghost, CtxDone, Held, HeldBy, Running
<1>1. owed' = owed \cup {p} /\ UNCHANGED <<run, at, cancelled>>
  BY DEF Change
<1>2. Serving' = Serving /\ CtxDone' = CtxDone
  BY <1>1 DEF Serving
<1>3. CASE kernel' = [kernel EXCEPT ![s] = Append(@, p)] /\ lost' = lost
  <2>1. kernel'[s] = Append(kernel[s], p) /\ \A y \in Sources \ {s} : kernel'[y] = kernel[y]
    BY <1>3 DEF TypeOK
  <2>2. Elements(kernel'[s]) = Elements(kernel[s]) \cup {p}
    BY <2>1, AppendFacts DEF TypeOK
  <2>3. \A x \in Paths : Held(x)' <=> Held(x) \/ x = p
    BY <2>1, <2>2 DEF Change
  <2>4. Waiting' = Waiting \cup {p}
    BY <2>3 DEF Waiting
  <2> QED
    BY <1>1, <1>2, <1>3, <2>4 DEF Work!Change
<1>4. CASE /\ kernel' = kernel
           /\ \/ lost' = lost \cup {p}
              \/ /\ lost' = lost
                 /\ (p \in Watches[s] => ~Running(s)) /\ p \in Watches[s] \cup Sweeps[s]
  <2>1. \A x \in Paths : Held(x)' <=> Held(x)
    BY <1>4 DEF Change
  <2>2. Waiting' = Waiting
    BY <2>1 DEF Waiting
  <2>3. CASE lost' = lost \cup {p}
    BY <1>1, <1>2, <2>2, <2>3 DEF Work!Change
  <2>4. CASE lost' = lost /\ (p \in Watches[s] => ~Running(s)) /\ p \in Watches[s] \cup Sweeps[s]
    <3>1. CASE Running(s)
      <4>1. Held(p)
        BY <2>4, <3>1
      <4> QED
        BY <1>1, <1>2, <2>2, <2>4, <4>1 DEF Work!Change, Waiting
    <3>2. CASE status[s] = "off"
      <4>1. run = "starting"
        BY <3>2 DEF Change, Phases
      <4>2. Held(p)
        BY <4>1 DEF Phases
      <4> QED
        BY <1>1, <1>2, <2>2, <2>4, <4>2 DEF Work!Change, Waiting
    <3>3. CASE status[s] = "closed"
      BY <1>1, <1>2, <2>2, <2>4, <3>3 DEF Work!Change, Joins
    <3> QED
      BY <3>1, <3>2, <3>3 DEF TypeOK
  <2> QED
    BY <1>4, <2>3, <2>4
<1> QED
  BY <1>3, <1>4 DEF Change

\* A step that can take only p out of the waiting ones.
LEMMA TakenOrKept ==
    ASSUME NEW p \in Paths, Held(p),
           \A x \in Paths : Held(x)' => Held(x),
           \A x \in Paths \ {p} : Held(x) => Held(x)'
    PROVE  p \in Waiting /\ Waiting' \in {Waiting, Waiting \ {p}}
<1>1. CASE Held(p)'
  <2>1. \A x \in Paths : Held(x)' <=> Held(x)
    BY <1>1
  <2>2. Waiting' = Waiting
    BY <2>1 DEF Waiting
  <2> QED
    BY <2>2 DEF Waiting
<1>2. CASE ~Held(p)'
  <2>1. \A x \in Paths : Held(x)' <=> Held(x) /\ x # p
    BY <1>2
  <2>2. Waiting' = Waiting \ {p}
    BY <2>1 DEF Waiting
  <2> QED
    BY <2>2 DEF Waiting
<1> QED
  BY <1>1, <1>2

\* A reconciliation begins for a path that waited for it.
LEMMA BeginsService ==
    ASSUME TypeOK, Phases, NEW p \in Paths,
           Visit(p) \/ (Reconcile /\ at = p)
    PROVE  Work!Serve(p)
<1> USE PathsAssumption DEF joins, stream, ghost, Held, HeldBy, Running
<1>1. Serving = Nothing /\ Serving' = p /\ CtxDone' = CtxDone
  BY DEF Visit, Reconcile, Begin, Serving, CtxDone
<1>2. /\ Held(p)
      /\ \A x \in Paths : Held(x)' => Held(x)
      /\ \A x \in Paths \ {p} : Held(x) => Held(x)'
  BY DEF Visit, Reconcile, Begin
<1>3. p \in Waiting /\ Waiting' \in {Waiting, Waiting \ {p}}
  BY <1>2, TakenOrKept
<1>4. owed' = owed \ {p} /\ lost' = lost \ {p}
  BY DEF Visit, Reconcile, Begin
<1> QED
  BY <1>1, <1>3, <1>4 DEF Work!Serve

\* It ends, well or badly; or it ends the agent.
LEMMA EndsService ==
    ASSUME TypeOK, Phases, Visited \/ Reconciled \/ ReconcileFails \/ WalkFails \/ StartFails
    PROVE  Work!Next
<1> USE PathsAssumption DEF joins, stream, ghost, Held, HeldBy, Running
<1>1. CASE Visited \/ Reconciled
  <2>1. Serving \in Paths /\ Serving' = Nothing /\ CtxDone' = CtxDone
    BY <1>1 DEF Visited, Reconciled, Serving, CtxDone, Phases, TypeOK, Item
  <2>2. \A x \in Paths : Held(x)' <=> Held(x)
    BY <1>1 DEF Visited, Reconciled
  <2>3. Work!Finish
    BY <1>1, <2>1, <2>2 DEF Visited, Reconciled, Waiting, Work!Finish
  <2> QED
    BY <2>3 DEF Work!Next
<1>2. CASE ReconcileFails
  <2>1. at \in Paths /\ Serving = at /\ Serving' = Nothing /\ CtxDone' = CtxDone
    BY <1>2 DEF ReconcileFails, Serving, CtxDone, Phases, TypeOK, Item
  <2>2. /\ timers'[at] > 0
        /\ \A x \in Paths \ {at} : timers'[x] = timers[x]
    BY <1>2, <2>1 DEF ReconcileFails, TypeOK
  <2>3. \A x \in Paths : Held(x)' <=> Held(x) \/ x = at
    BY <1>2, <2>1, <2>2 DEF ReconcileFails
  <2>4. Waiting' = Waiting \cup {at}
    BY <2>1, <2>3 DEF Waiting
  <2>5. Work!Fail
    BY <1>2, <2>1, <2>4 DEF ReconcileFails, Work!Fail
  <2> QED
    BY <2>5 DEF Work!Next
<1>3. CASE WalkFails \/ StartFails
  <2>1. Serving' = Nothing /\ CtxDone' /\ owed' = owed \cup ({Serving} \ {Nothing})
    BY <1>3 DEF WalkFails, StartFails, ReturnError, Serving, CtxDone, Phases
  <2>2. \A x \in Paths : Held(x)' <=> Held(x)
    BY <1>3 DEF WalkFails, StartFails, ReturnError
  <2>3. Work!GiveUp
    BY <1>3, <2>1, <2>2 DEF WalkFails, StartFails, Waiting, Work!GiveUp
  <2> QED
    BY <2>3 DEF Work!Next
<1> QED
  BY <1>1, <1>2, <1>3

\* A timer passes its path on, or finds no room for it.
LEMMA TimerPassesOrDrops ==
    ASSUME TypeOK, Phases, NEW p \in Paths, TimerFires(p)
    PROVE  [Work!Next]_(Work!vars)
<1> USE PathsAssumption DEF joins, stream, ghost, Held, HeldBy, Running
<1>1. Serving' = Serving /\ CtxDone' = CtxDone /\ owed' = owed
  BY DEF TimerFires, Serving, CtxDone
<1>2. /\ timers[p] > 0
      /\ \A x \in Paths \ {p} : timers'[x] = timers[x]
  BY DEF TimerFires, TypeOK
<1>3. CASE retries' = Append(retries, p) /\ lost' = lost
  <2>1. Elements(retries') = Elements(retries) \cup {p}
    BY <1>3, AppendFacts DEF TypeOK
  <2>2. \A x \in Paths : Held(x)' <=> Held(x)
    BY <1>2, <2>1 DEF TimerFires
  <2> QED
    BY <1>1, <1>3, <2>2 DEF Waiting, Work!vars
<1>4. CASE retries' = retries /\ lost' = lost \cup {p}
  <2>1. /\ Held(p)
        /\ \A x \in Paths : Held(x)' => Held(x)
        /\ \A x \in Paths \ {p} : Held(x) => Held(x)'
    BY <1>2, <1>4 DEF TimerFires, TypeOK
  <2>2. p \in Waiting /\ Waiting' \in {Waiting, Waiting \ {p}}
    BY <2>1, TakenOrKept
  <2>3. Work!Drop(p)
    BY <1>1, <1>4, <2>2 DEF Work!Drop
  <2> QED
    BY <2>3 DEF Work!Next
<1> QED
  BY <1>3, <1>4 DEF TimerFires

\* Only an agent that is stopping throws away what waits.
LEMMA StopDiscards ==
    ASSUME TypeOK, Phases, Joins,
           \/ Cancel \/ StreamClosed \/ Skip
           \/ \E s \in Sources : Stop(s) \/ Discard(s)
    PROVE  Work!Next
<1> USE PathsAssumption DEF joins, stream, ghost, Held, HeldBy, Running
<1>1. CASE Cancel \/ StreamClosed
  <2>1. Serving' = Serving /\ CtxDone'
    BY <1>1 DEF Cancel, StreamClosed, Serving, CtxDone
  <2>2. \A x \in Paths : Held(x)' <=> Held(x)
    BY <1>1 DEF Cancel, StreamClosed
  <2>3. Work!Stop
    BY <1>1, <2>1, <2>2 DEF Cancel, StreamClosed, Waiting, Work!Stop
  <2> QED
    BY <2>3 DEF Work!Next
<1>2. ASSUME Serving' = Serving, CtxDone, CtxDone', owed' = owed, lost' = lost,
             \A x \in Paths : Held(x)' => Held(x)
      PROVE  Work!Next
  <2>1. Work!Discard
    BY <1>2 DEF Waiting, Work!Discard
  <2> QED
    BY <2>1 DEF Work!Next
<1>3. CASE Skip
  <2>1. Serving' = Serving /\ CtxDone /\ CtxDone' /\ owed' = owed /\ lost' = lost
    BY <1>3 DEF Skip, Serving, CtxDone
  <2>2. \A x \in Paths : Held(x)' => Held(x)
    BY <1>3 DEF Skip
  <2> QED
    BY <1>2, <2>1, <2>2
<1>4. ASSUME NEW s \in Sources, Stop(s)
      PROVE  Work!Next
  <2>1. Serving' = Serving /\ CtxDone /\ CtxDone' /\ owed' = owed /\ lost' = lost
    BY <1>4 DEF Stop, Serving, CtxDone
  <2>2. Elements(kernel'[s]) = {} /\ \A y \in Sources \ {s} : kernel'[y] = kernel[y]
    BY <1>4 DEF Stop, TypeOK, Elements
  <2>3. \A x \in Paths : Held(x)' => Held(x)
    BY <1>4, <2>2 DEF Stop, TypeOK
  <2> QED
    BY <1>2, <2>1, <2>3
<1>5. ASSUME NEW s \in Sources, Discard(s)
      PROVE  Work!Next
  <2>1. Serving' = Serving /\ CtxDone /\ CtxDone' /\ owed' = owed /\ lost' = lost
    BY <1>5 DEF Discard, Serving, CtxDone, Phases
  <2>2. \A x \in Paths : Held(x)' => Held(x)
    BY <1>5 DEF Discard, TypeOK
  <2> QED
    BY <1>2, <2>1, <2>2
<1> QED
  BY <1>1, <1>3, <1>4, <1>5

LEMMA WorkStep ==
    ASSUME IndInv, [Next]_vars
    PROVE  [Work!Next]_(Work!vars)
<1> USE DEF IndInv
<1>1. CASE Moves
  BY <1>1, MovesUnseen
<1>2. ASSUME NEW s \in Sources, NEW p \in Paths, Change(s, p)
      PROVE  Work!Next
  BY <1>2, ChangeIsChange DEF Work!Next
<1>3. ASSUME NEW p \in Paths, Visit(p)
      PROVE  Work!Next
  BY <1>3, BeginsService DEF Work!Next
<1>4. CASE Reconcile
  <2>1. at \in Paths
    BY <1>4 DEF Reconcile, Phases, TypeOK, Item
  <2> QED
    BY <1>4, <2>1, BeginsService DEF Work!Next
<1>5. CASE Visited \/ Reconciled \/ ReconcileFails \/ WalkFails \/ StartFails
  BY <1>5, EndsService
<1>6. ASSUME NEW p \in Paths, TimerFires(p)
      PROVE  [Work!Next]_(Work!vars)
  BY <1>6, TimerPassesOrDrops
<1>7. CASE \/ Cancel \/ StreamClosed \/ Skip
           \/ \E s \in Sources : Stop(s) \/ Discard(s)
  BY <1>7, StopDiscards
<1> QED
  BY <1>1, <1>2, <1>3, <1>4, <1>5, <1>6, <1>7
  DEF Next, Consumer, Source, Forwarder, Terminated, Moves

\* For any sources, capacities and interleavings the orchestrator is a plain work
\* list: this is what the trees' models take for granted of it.
THEOREM WatcherServes == Spec => ServesWorkList
<1>1. Init => Work!Init
  BY WorkInit
<1>2. IndInv /\ [Next]_vars => [Work!Next]_(Work!vars)
  BY WorkStep
<1> QED
  BY <1>1, <1>2, WatcherInvariant, PTL DEF Spec, ServesWorkList, Work!Spec

(***************************************************************************)
(* The process: how far the container has come.                            *)
(***************************************************************************)

\* The k-th getter on the way to the watcher, and how many there are.
Port(k) == IF k \in {1, 6} THEN "matcher" ELSE IF k \in {2, 4} THEN "source" ELSE "target"
Stages  == IF cfg.polls THEN 6 ELSE 5

\* After k of them: those still to be called, and what has been built.
Ahead(k) ==
    /\ calls \in Seq({"matcher"} \cup Sides) /\ Len(calls) = Stages - k
    /\ \A i \in 1..(Stages - k) : calls[i] = Port(k + i)

Built(k) ==
    /\ Ahead(k)
    /\ matcher <=> k >= 1
    /\ root["source"] # Nil <=> k >= 2
    /\ root["target"] # Nil <=> k >= 3
    /\ polled <=> k = 6
    /\ k >= 1 => ~NewGlobFails(cfg.ignore)

Pristine ==
    /\ calls = <<>> /\ ~matcher /\ ~polled
    /\ \A s \in Sides : root[s] = Nil

\* Every adapter of a side is built on its cached root.
OneRoot == \A s \in Sides : uses[s] = (IF root[s] = Nil THEN {} ELSE {root[s]})

ProcessType ==
    /\ args \in CommandLine
    /\ step \in {"parse", "notify", "wire", "watch", "cleanup", "exited", "killed"}
    /\ matcher \in BOOLEAN /\ polled \in BOOLEAN
    /\ root \in [Sides -> 0..MaxRoots]
    /\ uses \in [Sides -> SUBSET (1..MaxRoots)] /\ fds \in [Sides -> SUBSET (1..MaxRoots)]
    /\ signals \in {"default", "caught", "delivered"}
    /\ code \in {None, 0, 1, 2}

ProcessInv ==
    /\ ProcessType
    /\ step \in {"parse", "notify"} => Pristine
    /\ step \in {"parse", "notify", "wire", "watch", "cleanup"} => OneRoot /\ fds = uses
    /\ step \in {"parse", "notify", "wire", "watch"} => code = None
    /\ step \in {"notify", "wire", "watch", "cleanup"} => Verdict = None /\ cfg = Config
    /\ step = "parse" => cfg = Refused
    /\ step = "wire" => \E k \in 0..Stages : Built(k)
    /\ step = "watch" => Built(Stages)
    /\ step = "exited" => \A s \in Sides : fds[s] = {}
    /\ code = 1 => Verdict = None
    /\ step = "cleanup" => code # 2
    /\ code = 2 => Verdict = 2 /\ cfg = Refused /\ \A s \in Sides : uses[s] = {}

USE DEF Nil, None

\* Nothing asks the command line twice.
LEMMA ArgsStay ==
    ASSUME [ProcessNext]_processVars
    PROVE  /\ args' = args
           /\ Verdict' = Verdict /\ Config' = Config
           /\ cfg' = cfg => Stages' = Stages
<1>1. args' = args
  BY DEF ProcessNext, processVars, Run, Parse, NotifyContext, Wired, WatcherStops, Cleanup,
         GetMatcher, GetSourceRoot, GetTargetRoot, GetRoot, WiringFails, WatcherFails, Signal
<1> QED
  BY <1>1 DEF Verdict, Config, Stages

\* The getters are wired in the order of their numbers, and taking the head of
\* those ahead leaves those ahead of the next.
LEMMA WiringInOrder ==
    ASSUME calls' = Wiring', cfg' = cfg
    PROVE  Ahead(0)'
<1> DEFINE P == {"matcher"} \cup Sides
           E == EventSourcePorts
<1>1. UsecasePorts \in Seq(P) /\ Len(UsecasePorts) = 3
  BY DEF UsecasePorts, Sides
<1>2. /\ E \in Seq(P) /\ Len(E) = Stages - 3 /\ Stages \in {5, 6}
      /\ E[1] = "source" /\ E[2] = "target" /\ (Stages = 6 => E[3] = "matcher")
  <2> DEFINE two == <<"source", "target">>
  <2>1. two \in Seq(P) /\ Len(two) = 2 /\ two[1] = "source" /\ two[2] = "target"
    BY DEF Sides
  <2> HIDE DEF two
  <2>2. CASE cfg.polls
    <3>1. Stages = 6 /\ E = two \o <<"matcher">>
      BY <2>2 DEF EventSourcePorts, Stages, two
    <3>2. <<"matcher">> \in Seq(P) /\ Len(<<"matcher">>) = 1 /\ <<"matcher">>[1] = "matcher"
      OBVIOUS
    <3> HIDE DEF E, P
    <3>3. /\ E \in Seq(P) /\ Len(E) = 3
          /\ \A i \in 1..3 : E[i] = IF i <= 2 THEN two[i] ELSE <<"matcher">>[i - 2]
      BY <2>1, <3>1, <3>2, ConcatProperties
    <3> QED
      BY <2>1, <3>1, <3>2, <3>3
  <2>3. CASE ~cfg.polls
    <3>1. Stages = 5 /\ E = two \o << >>
      BY <2>3 DEF EventSourcePorts, Stages, two
    <3> HIDE DEF E, P
    <3>2. two \o << >> = two
      BY <2>1
    <3> QED
      BY <2>1, <3>1, <3>2
  <2> QED
    BY <2>2, <2>3
<1>3. /\ Wiring \in Seq(P) /\ Len(Wiring) = Stages
      /\ \A i \in 1..3 : Wiring[i] = UsecasePorts[i]
      /\ \A i \in 4..Stages : Wiring[i] = EventSourcePorts[i - 3]
  <2>1. Wiring = UsecasePorts \o E
    BY DEF Wiring
  <2> HIDE DEF P, E
  <2>2. /\ Wiring \in Seq(P) /\ Len(Wiring) = 3 + Len(E)
        /\ \A i \in 1..(3 + Len(E)) :
              Wiring[i] = IF i <= 3 THEN UsecasePorts[i] ELSE E[i - 3]
    <3> DEFINE U == UsecasePorts
    <3>1. U \in Seq(P) /\ E \in Seq(P) /\ Len(U) = 3
      BY <1>1, <1>2
    <3> HIDE DEF U
    <3>2. /\ U \o E \in Seq(P) /\ Len(U \o E) = Len(U) + Len(E)
          /\ \A i \in 1..(Len(U) + Len(E)) :
                (U \o E)[i] = IF i <= Len(U) THEN U[i] ELSE E[i - Len(U)]
      BY <3>1, ConcatProperties, Zenon
    <3> QED
      BY <3>1, <3>2, <2>1 DEF U
  <2>3. 3 + Len(E) = Stages
    BY <1>2
  <2>4. \A i \in 1..3 : Wiring[i] = UsecasePorts[i]
    BY <1>2, <2>2, <2>3
  <2>5. \A i \in 4..Stages : Wiring[i] = E[i - 3]
    BY <1>2, <2>2, <2>3
  <2> QED
    BY <2>2, <2>3, <2>4, <2>5 DEF E
<1>4. Stages' = Stages /\ Stages \in {5, 6} /\ Wiring' = Wiring
  BY DEF Stages, Wiring, UsecasePorts, EventSourcePorts
<1>5. ASSUME NEW i \in 1..Stages
      PROVE  Wiring[i] = Port(i)
  <2>1. i \in {1, 2, 3, 4, 5, 6} /\ (i = 6 => Stages = 6)
    BY <1>4, <1>5
  <2> QED
    BY <1>2, <1>3, <1>4, <2>1 DEF UsecasePorts, Port
<1> QED
  BY <1>3, <1>4, <1>5 DEF Ahead

LEMMA NextGetter ==
    ASSUME NEW k \in 0..Stages, Ahead(k)
    PROVE  /\ calls # <<>> <=> k < Stages
           /\ k < Stages => Head(calls) = Port(k + 1)
           /\ k < Stages /\ calls' = Tail(calls) /\ cfg' = cfg => Ahead(k + 1)'
<1>1. Stages \in Nat /\ k \in Nat /\ k <= Stages
  BY DEF Stages
<1>2. calls \in Seq({"matcher"} \cup Sides) /\ Len(calls) = Stages - k
  BY DEF Ahead
<1>3. calls # <<>> <=> k < Stages
  BY <1>1, <1>2
<1>4. ASSUME k < Stages
      PROVE  Head(calls) = Port(k + 1)
  <2>1. Head(calls) = calls[1]
    BY <1>1, <1>2, <1>4
  <2> QED
    BY <1>1, <1>4, <2>1 DEF Ahead
<1>5. ASSUME k < Stages, calls' = Tail(calls), cfg' = cfg
      PROVE  Ahead(k + 1)'
  <2>1. Stages' = Stages
    BY <1>5 DEF Stages
  <2>2. Tail(calls) \in Seq({"matcher"} \cup Sides) /\ Len(Tail(calls)) = Stages - (k + 1)
    BY <1>1, <1>2, <1>3, <1>5
  <2>3. ASSUME NEW i \in 1..(Stages - (k + 1))
        PROVE  Tail(calls)[i] = Port(k + 1 + i)
    <3>1. Tail(calls)[i] = calls[i + 1]
      BY <1>1, <1>2, <1>3, <1>5
    <3>2. i + 1 \in 1..(Stages - k) /\ k + (i + 1) = k + 1 + i
      BY <1>1
    <3> QED
      BY <3>1, <3>2 DEF Ahead
  <2> QED
    BY <1>5, <2>1, <2>2, <2>3 DEF Ahead
<1> QED
  BY <1>3, <1>4, <1>5
(***************************************************************************)
(* The invariant, action by action.                                        *)
(***************************************************************************)
LEMMA InitProcessInv == ProcessInit => ProcessInv
<1> SUFFICES ASSUME ProcessInit
             PROVE  ProcessInv
  OBVIOUS
<1>1. ProcessType
  <2>1. MaxRoots \in Nat
    BY BoundAssumption
  <2>2. /\ root \in [Sides -> 0..MaxRoots]
        /\ uses \in [Sides -> SUBSET (1..MaxRoots)] /\ fds \in [Sides -> SUBSET (1..MaxRoots)]
    BY <2>1 DEF ProcessInit
  <2> QED
    BY <2>2 DEF ProcessInit, ProcessType
<1>2. Pristine /\ OneRoot /\ fds = uses
  BY DEF ProcessInit, Pristine, OneRoot
<1> QED
  BY <1>1, <1>2 DEF ProcessInit, ProcessInv

LEMMA ParseInv == ProcessInv /\ Parse => ProcessInv'
<1> SUFFICES ASSUME ProcessInv, Parse
             PROVE  ProcessInv'
  OBVIOUS
<1>0. args' = args /\ Verdict' = Verdict /\ Config' = Config
  BY ArgsStay DEF ProcessNext, Run
<1>1. Verdict \in {None, 0, 2}
  BY DEF Verdict
<1>2. Pristine' /\ OneRoot' /\ fds' = uses' /\ code = None /\ cfg = Refused
  BY DEF Parse, ProcessInv, Pristine, OneRoot, container
<1>3. ProcessType'
  BY <1>1 DEF Parse, ProcessInv, ProcessType, Exit, container
<1>4. \A s \in Sides : uses'[s] = {} /\ fds'[s] = {}
  BY <1>2 DEF OneRoot, Pristine
<1> QED
  BY <1>0, <1>1, <1>2, <1>3, <1>4 DEF Parse, ProcessInv, Exit, container

LEMMA NotifyInv == ProcessInv /\ NotifyContext => ProcessInv'
<1> SUFFICES ASSUME ProcessInv, NotifyContext
             PROVE  ProcessInv'
  OBVIOUS
<1>0. args' = args /\ Verdict' = Verdict /\ Config' = Config
  BY ArgsStay DEF ProcessNext, Run
<1>1. ProcessType' /\ OneRoot' /\ fds' = uses'
  BY DEF NotifyContext, ProcessInv, ProcessType, OneRoot
<1>2. Ahead(0)'
  BY WiringInOrder, <1>0 DEF NotifyContext, Wiring, EventSourcePorts
<1>3. Built(0)' /\ Stages' \in {5, 6}
  BY <1>2 DEF NotifyContext, ProcessInv, Pristine, Built, Sides, Stages
<1> QED
  BY <1>0, <1>1, <1>3 DEF NotifyContext, ProcessInv

LEMMA MatcherInv == ProcessInv /\ GetMatcher => ProcessInv'
<1> SUFFICES ASSUME ProcessInv, GetMatcher
             PROVE  ProcessInv'
  OBVIOUS
<1>0. args' = args /\ Verdict' = Verdict /\ Config' = Config
  BY ArgsStay DEF ProcessNext, Run
<1>1. ProcessType' /\ OneRoot' /\ fds' = uses'
  BY DEF GetMatcher, ProcessInv, ProcessType, OneRoot
<1>2. Stages \in {5, 6} /\ Stages' = Stages
  BY DEF Stages, GetMatcher
<1>3. PICK k \in 0..Stages : Built(k)
  BY DEF GetMatcher, ProcessInv
<1>4. k < Stages /\ Port(k + 1) = "matcher" /\ Ahead(k + 1)'
  BY <1>3, NextGetter DEF Built, GetMatcher
<1>5. k \in {0, 5}
  BY <1>2, <1>4 DEF Port
<1>6. Built(k + 1)'
  BY <1>2, <1>3, <1>4, <1>5 DEF GetMatcher, Built
<1>7. k + 1 \in 0..Stages
  BY <1>2, <1>4
<1> QED
  BY <1>0, <1>1, <1>2, <1>6, <1>7 DEF GetMatcher, ProcessInv

LEMMA RootInv == ASSUME NEW s \in Sides PROVE ProcessInv /\ GetRoot(s) => ProcessInv'
<1> SUFFICES ASSUME ProcessInv, GetRoot(s)
             PROVE  ProcessInv'
  OBVIOUS
<1>0. args' = args /\ Verdict' = Verdict /\ Config' = Config
  BY ArgsStay DEF ProcessNext, Run, GetSourceRoot, GetTargetRoot, Sides
<1> USE DEF Sides
<1>1. PICK fd \in 1..MaxRoots :
         /\ root[s] # Nil => fd = root[s]
         /\ root' = [root EXCEPT ![s] = fd]
         /\ fds' = [fds EXCEPT ![s] = @ \cup {fd}]
         /\ uses' = [uses EXCEPT ![s] = @ \cup {fd}]
  BY DEF GetRoot
<1>2. MaxRoots \in Nat
  BY BoundAssumption
<1>3. ProcessType'
  <2>1. root' \in [Sides -> 0..MaxRoots]
    BY <1>1, <1>2 DEF ProcessInv, ProcessType
  <2>2. uses' \in [Sides -> SUBSET (1..MaxRoots)] /\ fds' \in [Sides -> SUBSET (1..MaxRoots)]
    BY <1>1 DEF ProcessInv, ProcessType
  <2> QED
    BY <2>1, <2>2 DEF GetRoot, ProcessInv, ProcessType
<1>4. OneRoot' /\ fds' = uses'
  <2>1. OneRoot /\ fds = uses /\ fd # Nil
    BY <1>2 DEF GetRoot, ProcessInv
  <2>2. uses'[s] = {fd} /\ root'[s] = fd
    BY <1>1, <2>1 DEF OneRoot, ProcessInv, ProcessType
  <2>3. \A x \in Sides \ {s} : uses'[x] = uses[x] /\ root'[x] = root[x]
    BY <1>1 DEF ProcessInv, ProcessType
  <2>4. fds' = uses'
    BY <1>1, <2>1
  <2> QED
    BY <2>1, <2>2, <2>3, <2>4 DEF OneRoot
<1>5. Stages \in {5, 6} /\ Stages' = Stages
  BY DEF Stages, GetRoot
<1>6. PICK k \in 0..Stages : Built(k)
  BY DEF GetRoot, ProcessInv
<1>7. k < Stages /\ Port(k + 1) = s /\ Ahead(k + 1)'
  BY <1>6, NextGetter DEF Built, GetRoot
<1>8. \/ k \in {1, 3} /\ s = "source"
      \/ k \in {2, 4} /\ s = "target"
  BY <1>5, <1>7 DEF Port
<1>9. Built(k + 1)'
  BY <1>1, <1>2, <1>5, <1>6, <1>7, <1>8 DEF GetRoot, Built, ProcessInv, ProcessType
<1>10. k + 1 \in 0..Stages
  BY <1>5, <1>7
<1> QED
  BY <1>0, <1>3, <1>4, <1>5, <1>9, <1>10 DEF GetRoot, ProcessInv

\* The steps that build nothing.
LEMMA OtherInv ==
    ASSUME ProcessInv,
           \/ WiringFails \/ Wired \/ WatcherStops \/ WatcherFails \/ Cleanup \/ Signal
           \/ UNCHANGED processVars
    PROVE  ProcessInv'
<1>0. args' = args /\ Verdict' = Verdict /\ Config' = Config /\ (cfg' = cfg => Stages' = Stages)
  BY ArgsStay DEF ProcessNext, Run
<1>1. CASE WiringFails
  <2>1. ProcessType' /\ OneRoot' /\ fds' = uses'
    BY <1>1 DEF WiringFails, container, ProcessInv, ProcessType, OneRoot
  <2> QED
    BY <1>0, <1>1, <2>1 DEF WiringFails, container, ProcessInv
<1>2. CASE Wired
  <2>1. ProcessType' /\ OneRoot' /\ fds' = uses'
    BY <1>2 DEF Wired, container, ProcessInv, ProcessType, OneRoot
  <2>2. PICK k \in 0..Stages : Built(k)
    BY <1>2 DEF Wired, ProcessInv
  <2>3. k = Stages
    BY <1>2, <2>2, NextGetter DEF Wired, Built, Stages
  <2>4. Built(Stages)'
    BY <1>0, <1>2, <2>2, <2>3 DEF Wired, container, Built, Ahead
  <2> QED
    BY <1>0, <1>2, <2>1, <2>4 DEF Wired, container, ProcessInv
<1>3. CASE WatcherStops \/ WatcherFails
  <2>1. ProcessType' /\ OneRoot' /\ fds' = uses'
    BY <1>3 DEF WatcherStops, WatcherFails, container, ProcessInv, ProcessType, OneRoot
  <2> QED
    BY <1>0, <1>3, <2>1 DEF WatcherStops, WatcherFails, container, ProcessInv
<1>4. CASE Cleanup
  <2>1. \A s \in Sides : fds'[s] = {}
    BY <1>4 DEF Cleanup, ProcessInv, OneRoot, ProcessType
  <2>2. ProcessType'
    BY <1>4, BoundAssumption DEF Cleanup, ProcessInv, ProcessType
  <2> QED
    BY <1>0, <1>4, <2>1, <2>2 DEF Cleanup, ProcessInv
<1>5. CASE Signal
  <2>1. ProcessType' /\ UNCHANGED <<cfg, calls, matcher, root, uses, polled, fds, code>>
    BY <1>5 DEF Signal, container, ProcessInv, ProcessType
  <2>2. step' \in {step, "killed"}
    BY <1>5 DEF Signal
  <2>3. (Pristine => Pristine') /\ (OneRoot => OneRoot')
    BY <2>1 DEF Pristine, OneRoot
  <2>4. \A k : Built(k) => Built(k)'
    BY <1>0, <2>1 DEF Built, Ahead
  <2> QED
    BY <1>0, <1>5, <2>1, <2>2, <2>3, <2>4 DEF ProcessInv
<1>6. CASE UNCHANGED processVars
  <2>1. UNCHANGED <<step, cfg, calls, matcher, root, uses, polled, fds, signals, code>>
    BY <1>6 DEF processVars
  <2>2. ProcessType'
    BY <1>0, <2>1 DEF ProcessInv, ProcessType
  <2>3. (Pristine => Pristine') /\ (OneRoot => OneRoot')
    BY <2>1 DEF Pristine, OneRoot
  <2>4. \A k : Built(k) => Built(k)'
    BY <1>0, <2>1 DEF Built, Ahead
  <2> QED
    BY <1>0, <2>1, <2>2, <2>3, <2>4 DEF ProcessInv
<1> QED
  BY <1>1, <1>2, <1>3, <1>4, <1>5, <1>6


(***************************************************************************)
(* The command line.                                                       *)
(***************************************************************************)
LEMMA CommandLineFacts ==
    ASSUME NEW a \in CommandLine
    PROVE  /\ a.parsed \in {"ok", "help", "error"}
           /\ a.fileMode \in ModeFlags /\ a.dirMode \in ModeFlags /\ a.owner \in OwnerFlags
<1>1. Unset \in ModeFlags /\ Unset \in OwnerFlags
  BY DEF ModeFlags, OwnerFlags
<1> QED
  BY <1>1 DEF CommandLine, Starting, Overriding, Ignoring

\* What the container has built and what run still has to call always add up, no
\* descriptor is open that Close would miss, and a code says how far it came.
THEOREM ContainerInvariant == ProcessSpec => []ProcessInv
<1>1. ProcessInv /\ [ProcessNext]_processVars => ProcessInv'
  BY ParseInv, NotifyInv, MatcherInv, RootInv, OtherInv
  DEF ProcessNext, Run, GetSourceRoot, GetTargetRoot, Sides
<1> QED
  BY InitProcessInv, <1>1, PTL DEF ProcessSpec

\* Whichever getter failed and whenever a signal came, an orderly exit of run has
\* closed every root that was opened.
THEOREM DescriptorsReleased == ProcessSpec => []ReleasesAll
<1>1. ProcessInv => ReleasesAll
  BY DEF ProcessInv, ReleasesAll
<1> QED
  BY ContainerInvariant, <1>1, PTL

\* When the watcher runs, all adapters of a side share the one open root, the poller
\* is there exactly if the interval asked for it, and every pattern is understood.
THEOREM WatcherConfigured == ProcessSpec => []RunsAsConfigured
<1>1. ASSUME ProcessInv, step = "watch"
      PROVE  RunsAsConfigured
  <2>1. /\ Built(Stages) /\ OneRoot /\ fds = uses /\ Verdict = None /\ cfg = Config
        /\ args \in CommandLine
    BY <1>1 DEF ProcessInv, ProcessType
  <2>2. \A s \in Sides : root[s] # Nil
    BY <2>1 DEF Built, Stages, Sides
  <2>3. \A s \in Sides : uses[s] = {root[s]} /\ fds[s] = uses[s]
    BY <2>1, <2>2 DEF OneRoot
  <2>4. polled = (args.interval = "positive")
    <3>1. cfg.polls = (args.interval = "positive")
      BY <2>1, Zenon DEF Config
    <3>2. polled <=> cfg.polls
      BY <2>1 DEF Built, Stages
    <3>3. polled \in BOOLEAN
      BY <1>1 DEF ProcessInv, ProcessType
    <3> QED
      BY <3>1, <3>2, <3>3, Zenon
  <2>5. args.parsed \in {"ok", "help", "error"}
    BY <2>1, CommandLineFacts
  <2>6. args.parsed = "ok" /\ args.roots /\ args.log /\ ~args.version
    BY <2>1, <2>5 DEF Verdict
  <2>7. \A p \in args.ignore : ~BadPattern(p)
    BY <2>1 DEF Built, Stages, Config, NewGlobFails, Ignore
  <2> QED
    BY <2>3, <2>4, <2>6, <2>7 DEF RunsAsConfigured
<1>2. ProcessInv => RunsAsConfigured
  BY <1>1 DEF RunsAsConfigured
<1> QED
  BY ContainerInvariant, <1>2, PTL

\* Zero for help and version whatever else is missing, two only before anything was
\* opened.
THEOREM ExitCodesTell == ProcessSpec => []ExitTells
<1>1. ProcessInv => ExitTells
  BY DEF ProcessInv, ProcessType, ExitTells, Verdict
<1> QED
  BY ContainerInvariant, <1>1, PTL

(***************************************************************************)
(* The overrides.                                                          *)
(***************************************************************************)

\* A mode that was accepted is the number given, and chmod keeps it.
LEMMA ModeFacts ==
    ASSUME NEW f \in ModeFlags, parseMode(f) # Refused
    PROVE  /\ parseMode(f) = f /\ f.set \in BOOLEAN
           /\ f.set <=> f # Unset
           /\ f.set => f.value \in 0..(PermLimit - 1)
<1>1. Malformed # Unset /\ \A m : Given(m) # Unset /\ Given(m) # Malformed
  <2>1. Malformed.set # Unset.set /\ \A m : Given(m).set # Unset.set
    BY DEF Malformed, Unset, Given
  <2>2. \A m : "value" \in DOMAIN Given(m) /\ "value" \notin DOMAIN Malformed
    BY DEF Malformed, Given
  <2> QED
    BY <2>1, <2>2
<1>2. CASE f = Unset
  BY <1>2 DEF parseMode, Unset
<1>3. CASE f = Malformed
  BY <1>1, <1>3 DEF parseMode
<1>4. ASSUME NEW m \in ModeArgs, f = Given(m)
      PROVE  /\ parseMode(f) = f /\ f.set = TRUE /\ f # Unset
             /\ f.value \in 0..(PermLimit - 1)
  <2>1. m \in Nat /\ f.value = m /\ f.set = TRUE
    BY <1>4, BoundAssumption DEF Given
  <2>2. parseMode(f) = IF m < PermLimit THEN f ELSE Refused
    BY <1>1, <1>4, <2>1 DEF parseMode
  <2> QED
    BY <1>1, <1>4, <2>1, <2>2, OverridesAssumption
<1> QED
  BY <1>2, <1>3, <1>4 DEF ModeFlags

\* An owner that was accepted is the pair given, each id within its width.
LEMMA OwnerFacts ==
    ASSUME NEW f \in OwnerFlags, parseOwner(f) # Refused
    PROVE  /\ parseOwner(f) = f /\ f.set \in BOOLEAN
           /\ f.set <=> f # Unset
           /\ f.set => f.value.uid \in 0..(IdLimit - 1) /\ f.value.gid \in 0..(IdLimit - 1)
<1>1. Malformed # Unset /\ \A m : Given(m) # Unset /\ Given(m) # Malformed
  <2>1. Malformed.set # Unset.set /\ \A m : Given(m).set # Unset.set
    BY DEF Malformed, Unset, Given
  <2>2. \A m : "value" \in DOMAIN Given(m) /\ "value" \notin DOMAIN Malformed
    BY DEF Malformed, Given
  <2> QED
    BY <2>1, <2>2
<1>2. CASE f = Unset
  BY <1>2 DEF parseOwner, Unset
<1>3. CASE f = Malformed
  BY <1>1, <1>3 DEF parseOwner
<1>4. ASSUME NEW o \in [uid : IdArgs, gid : IdArgs], f = Given(o)
      PROVE  /\ parseOwner(f) = f /\ f.set = TRUE /\ f # Unset
             /\ f.value.uid \in 0..(IdLimit - 1) /\ f.value.gid \in 0..(IdLimit - 1)
  <2>1. o.uid \in Nat /\ o.gid \in Nat /\ f.value = o /\ f.set = TRUE
    BY <1>4, BoundAssumption DEF Given
  <2>2. parseOwner(f) = IF o.uid < IdLimit /\ o.gid < IdLimit THEN f ELSE Refused
    BY <1>1, <1>4, <2>1 DEF parseOwner
  <2> QED
    BY <1>1, <1>4, <2>1, <2>2, OverridesAssumption
<1> QED
  BY <1>2, <1>3, <1>4 DEF OwnerFlags

\* What is applied to an entry is what the flags promise, and is within the widths
\* that chmod and chown take.
LEMMA AppliedIsPromised ==
    ASSUME ProcessInv, step = "watch",
           NEW kind \in {"file", "dir"}, NEW source \in Attributes
    PROVE  /\ apply(cfg.overrides, kind, source) = Promised(kind, source)
           /\ Promised(kind, source) \in
                 [mode : 0..(PermLimit - 1), uid : 0..(IdLimit - 1), gid : 0..(IdLimit - 1)]
<1>1. cfg = Config /\ Verdict = None /\ args \in CommandLine
  BY DEF ProcessInv, ProcessType
<1>2. /\ args.fileMode \in ModeFlags /\ args.dirMode \in ModeFlags
      /\ args.owner \in OwnerFlags
  BY <1>1, CommandLineFacts
<1>3. parseOverrides(args) # Refused
  BY <1>1 DEF Verdict
<1>4. /\ cfg.overrides = [fileMode |-> parseMode(args.fileMode),
                          dirMode  |-> parseMode(args.dirMode),
                          owner    |-> parseOwner(args.owner)]
      /\ parseMode(args.fileMode) # Refused /\ parseMode(args.dirMode) # Refused
      /\ parseOwner(args.owner) # Refused
  <2> DEFINE parsed == [fileMode |-> parseMode(args.fileMode),
                        dirMode  |-> parseMode(args.dirMode),
                        owner    |-> parseOwner(args.owner)]
  <2>1. ~(\E f \in DOMAIN parsed : parsed[f] = Refused) /\ parseOverrides(args) = parsed
    BY <1>3 DEF parseOverrides
  <2>2. parsed["fileMode"] # Refused /\ parsed["dirMode"] # Refused /\ parsed["owner"] # Refused
    BY <2>1
  <2> QED
    BY <1>1, <2>1, <2>2 DEF Config
<1>5. cfg.overrides = [fileMode |-> args.fileMode, dirMode |-> args.dirMode, owner |-> args.owner]
  BY <1>2, <1>4, ModeFacts, OwnerFacts
<1> DEFINE flag == IF kind = "dir" THEN args.dirMode ELSE args.fileMode
<1>6. /\ flag.set \in BOOLEAN /\ (flag.set <=> flag # Unset)
      /\ flag.set => flag.value \in 0..(PermLimit - 1)
  BY <1>2, <1>4, ModeFacts
<1>7. /\ args.owner.set \in BOOLEAN /\ (args.owner.set <=> args.owner # Unset)
      /\ args.owner.set => /\ args.owner.value.uid \in 0..(IdLimit - 1)
                           /\ args.owner.value.gid \in 0..(IdLimit - 1)
  BY <1>2, <1>4, OwnerFacts
<1>8. /\ source.mode \in 0..(PermLimit - 1) /\ source.uid \in 0..(IdLimit - 1)
      /\ source.gid \in 0..(IdLimit - 1)
  BY OverridesAssumption DEF Attributes
<1>9. apply(cfg.overrides, kind, source) =
        [mode |-> IF flag.set THEN flag.value ELSE source.mode,
         uid  |-> IF args.owner.set THEN args.owner.value.uid ELSE source.uid,
         gid  |-> IF args.owner.set THEN args.owner.value.gid ELSE source.gid]
  BY <1>5 DEF apply, Override, Owner
<1>10. Promised(kind, source) =
        [mode |-> IF flag.set THEN flag.value ELSE source.mode,
         uid  |-> IF args.owner.set THEN args.owner.value.uid ELSE source.uid,
         gid  |-> IF args.owner.set THEN args.owner.value.gid ELSE source.gid]
  BY <1>6, <1>7 DEF Promised
<1> HIDE DEF flag
<1> QED
  BY <1>6, <1>7, <1>8, <1>9, <1>10

LEMMA SmallMod == ASSUME NEW n \in Nat, NEW x \in 0..(n - 1) PROVE x % n = x
OBVIOUS

\* One reconciliation enforces what it is given, and the next finds nothing to do.
LEMMA SyncIsIdempotent ==
    ASSUME NEW overrides, NEW kind, NEW source, NEW target \in Attributes,
           apply(overrides, kind, source) \in
              [mode : 0..(PermLimit - 1), uid : 0..(IdLimit - 1), gid : 0..(IdLimit - 1)]
    PROVE  LET src    == apply(overrides, kind, source)
               synced == syncMetadata(overrides, kind, source, target)
           IN  /\ synced.attrs.mode = src.mode
               /\ synced.attrs.uid = src.uid \/ src.uid = Keep
               /\ synced.attrs.gid = src.gid \/ src.gid = Keep
               /\ syncMetadata(overrides, kind, source, synced.attrs).event
                    => Keep \in {src.uid, src.gid}
<1> DEFINE src    == apply(overrides, kind, source)
           synced == syncMetadata(overrides, kind, source, target)
<1>1. PermLimit \in Nat /\ src.mode % PermLimit = src.mode
  BY SmallMod, OverridesAssumption
<1>2. synced.attrs.mode = src.mode
  BY <1>1 DEF syncMetadata
<1>3. synced.attrs.uid = src.uid \/ src.uid = Keep
  BY DEF syncMetadata, Chowned
<1>4. synced.attrs.gid = src.gid \/ src.gid = Keep
  BY DEF syncMetadata, Chowned
<1>5. syncMetadata(overrides, kind, source, synced.attrs).event
        => synced.attrs.mode # src.mode \/ synced.attrs.uid # src.uid \/ synced.attrs.gid # src.gid
  <2> DEFINE attrs == synced.attrs
  <2> HIDE DEF attrs
  <2>1. syncMetadata(overrides, kind, source, attrs).event
          => attrs.mode # src.mode \/ attrs.uid # src.uid \/ attrs.gid # src.gid
    BY DEF syncMetadata
  <2> QED
    BY <2>1 DEF attrs
<1> QED
  BY <1>2, <1>3, <1>4, <1>5

\* Every accepted flag but an id of Keep (2^32 - 1) is enforced by one reconciliation,
\* for every width of modes and ids: no accepted value is one that chmod would cut, and
\* the one that chown takes for "keep" is the only one that is left alone.
THEOREM FlagsEnforced == ProcessSpec => []Enforced
<1>1. ASSUME ProcessInv
      PROVE  Enforced
  <2>1. ASSUME step = "watch",
               NEW kind \in {"file", "dir"}, NEW source \in Attributes, NEW target \in Attributes
        PROVE  LET promised == Promised(kind, source)
                   synced   == syncMetadata(cfg.overrides, kind, source, target)
               IN  /\ \A f \in {"mode", "uid", "gid"} :
                        synced.attrs[f] = promised[f] \/ (f # "mode" /\ promised[f] = Keep)
                   /\ syncMetadata(cfg.overrides, kind, source, synced.attrs).event
                        => Keep \in {promised.uid, promised.gid}
    BY <1>1, <2>1, AppliedIsPromised, SyncIsIdempotent
  <2> QED
    BY <2>1 DEF Enforced
<1> QED
  BY ContainerInvariant, <1>1, PTL

(***************************************************************************)
(* The ignore patterns.                                                    *)
(***************************************************************************)
LEMMA SubPath ==
    ASSUME NEW path \in BoundedPaths, NEW i \in DOMAIN path
    PROVE  /\ DOMAIN SubSeq(path, 1, i) = 1..i
           /\ 1..i \subseteq DOMAIN path
           /\ \A j \in 1..i : SubSeq(path, 1, i)[j] = path[j]
<1>1. PICK k \in 1..MaxDepth : path \in [1..k -> NamesUpTo(Letters, MaxName)]
  BY DEF BoundedPaths, BoundedSeqs
<1>2. k \in Nat /\ i \in 1..k
  BY <1>1, BoundAssumption
<1>3. path \in Seq(NamesUpTo(Letters, MaxName)) /\ Len(path) = k
  BY <1>1, <1>2
<1> QED
  BY <1>1, <1>2, <1>3

\* The exact difference between walks and events, for every set of patterns and every
\* path: what only the walks leave out is what lies below a match of a pattern with a
\* slash, and all of that; a pattern without a slash matches a name at any depth.
THEOREM PrunedIsIgnored == ProcessSpec => []PruningIsIgnoring
<1> DEFINE Below(path) ==
      \E p \in cfg.ignore, i \in DOMAIN path :
        /\ i < Len(path)
        /\ HasSlash(p) /\ Match(p, Joined(SubSeq(path, 1, i)))
<1>1. ASSUME NEW path \in BoundedPaths
      PROVE  Len(path) \in DOMAIN path /\ SubSeq(path, 1, Len(path)) = path
  <2>1. PICK k \in 1..MaxDepth : path \in [1..k -> NamesUpTo(Letters, MaxName)]
    BY <1>1 DEF BoundedPaths, BoundedSeqs
  <2>2. path \in Seq(NamesUpTo(Letters, MaxName)) /\ Len(path) = k /\ k \in Nat /\ k >= 1
    BY <2>1, BoundAssumption
  <2> QED
    BY <2>1, <2>2
<1>2. ASSUME NEW path \in BoundedPaths, Pruned(cfg.ignore, path)
      PROVE  Matches(cfg.ignore, path) \/ Below(path)
  <2>1. PICK i \in DOMAIN path : Matches(cfg.ignore, SubSeq(path, 1, i))
    BY <1>2 DEF Pruned
  <2> DEFINE above == SubSeq(path, 1, i)
  <2>2. CASE above = path
    BY <2>1, <2>2
  <2>3. CASE above # path
    <3>1. PICK p \in cfg.ignore :
             IF HasSlash(p) THEN Match(p, Joined(above))
                            ELSE \E j \in DOMAIN above : Match(p, above[j])
      BY <2>1 DEF Matches
    <3>2. CASE HasSlash(p)
      <4>1. i < Len(path)
        <5>1. PICK k \in 1..MaxDepth : path \in [1..k -> NamesUpTo(Letters, MaxName)]
          BY DEF BoundedPaths, BoundedSeqs
        <5>2. Len(path) = k /\ k \in Nat /\ i \in 1..k
          BY <5>1, BoundAssumption
        <5>3. i # Len(path)
          BY <1>1, <2>3
        <5> QED
          BY <5>2, <5>3
      <4> QED
        BY <3>1, <3>2, <4>1
    <3>3. CASE ~HasSlash(p)
      <4>1. PICK j \in DOMAIN above : Match(p, above[j])
        BY <3>1, <3>3
      <4>2. j \in DOMAIN path /\ above[j] = path[j]
        BY <4>1, SubPath
      <4>3. Match(p, path[j])
        BY <4>1, <4>2
      <4> QED
        BY <3>3, <4>2, <4>3 DEF Matches
    <3> QED
      BY <3>2, <3>3
  <2> QED
    BY <2>2, <2>3
<1>3. ASSUME NEW path \in BoundedPaths, Matches(cfg.ignore, path)
      PROVE  Pruned(cfg.ignore, path)
  BY <1>1, <1>3 DEF Pruned
<1>4. ASSUME NEW path \in BoundedPaths, Below(path)
      PROVE  Pruned(cfg.ignore, path)
  <2>1. PICK p \in cfg.ignore, i \in DOMAIN path :
           HasSlash(p) /\ Match(p, Joined(SubSeq(path, 1, i)))
    BY <1>4
  <2>2. Matches(cfg.ignore, SubSeq(path, 1, i))
    BY <2>1 DEF Matches
  <2> QED
    BY <2>2 DEF Pruned
<1>5. ASSUME NEW path \in BoundedPaths
      PROVE  Pruned(cfg.ignore, path) <=> Matches(cfg.ignore, path) \/ Below(path)
  BY <1>2, <1>3, <1>4
<1>6. PruningIsIgnoring
  BY <1>5 DEF PruningIsIgnoring
<1> QED
  BY <1>6, PTL

\* The built-in pattern, token by token.
LEMMA PlumbingMatches ==
    ASSUME NEW name \in NamesUpTo(Letters, MaxName),
           Len(name) >= 2, name[1] = ".", name[2] = "."
    PROVE  Match(<<".", ".", "*">>, name)
<1> DEFINE n == Len(name)
           cut == [i \in 0..3 |-> IF i = 3 THEN n ELSE i]
           pattern == <<".", ".", "*">>
<1>1. PICK k \in 1..MaxName : name \in [1..k -> Letters]
  BY DEF NamesUpTo, BoundedSeqs
<1>2. k \in Nat /\ name \in Seq(Letters) /\ n = k /\ n \in Nat
  BY <1>1, BoundAssumption
<1>3. Len(pattern) = 3 /\ pattern[1] = "." /\ pattern[2] = "." /\ pattern[3] = "*"
  OBVIOUS
<1> HIDE DEF pattern
<1>4. /\ cut \in [0..Len(pattern) -> 0..Len(name)]
      /\ cut[0] = 0 /\ cut[1] = 1 /\ cut[2] = 2 /\ cut[3] = n
  BY <1>2, <1>3
<1>5. SubSeq(name, 1, 1) = <<".">> /\ SubSeq(name, 2, 2) = <<".">>
  <2>1. ASSUME NEW i \in {1, 2}
        PROVE  SubSeq(name, i, i) = <<".">>
    <3> DEFINE one == SubSeq(name, i, i)
    <3>1. name[i] = "." /\ name[i] \in Letters
      BY <1>2
    <3>2. one \in Seq(Letters) /\ Len(one) = 1 /\ one[1] = name[i]
      BY <1>2
    <3>3. <<".">> \in Seq(Letters) /\ Len(<<".">>) = 1 /\ <<".">>[1] = "."
      BY <3>1
    <3> HIDE DEF one
    <3>4. one = <<".">>
      BY <3>1, <3>2, <3>3, SeqEqual
    <3> QED
      BY <3>4 DEF one
  <2> QED
    BY <2>1
<1>6. "/" \notin Range(SubSeq(name, 3, n))
  <2>1. "/" \notin Letters
    BY BoundAssumption
  <2>2. SubSeq(name, 3, n) \in Seq(Letters)
    BY <1>2
  <2>3. Range(SubSeq(name, 3, n)) \subseteq Letters
    BY <2>2 DEF Range
  <2> QED
    BY <2>1, <2>3
<1> HIDE DEF cut, n
<1>7. ASSUME NEW i \in 1..Len(pattern)
      PROVE  /\ cut[i - 1] <= cut[i]
             /\ Takes(pattern[i], SubSeq(name, cut[i - 1] + 1, cut[i]))
  <2>1. i \in {1, 2, 3}
    BY <1>3
  <2>2. CASE i = 1
    BY <1>3, <1>4, <1>5, <2>2 DEF Takes
  <2>3. CASE i = 2
    BY <1>3, <1>4, <1>5, <2>3 DEF Takes
  <2>4. CASE i = 3
    BY <1>2, <1>3, <1>4, <1>6, <2>4 DEF Takes, n
  <2> QED
    BY <2>1, <2>2, <2>3, <2>4
<1> QED
  BY <1>3, <1>4, <1>7 DEF Match, pattern, n

\* Names that begin with two dots are ignored with all that is below them, whatever
\* the user's patterns are.
THEOREM PlumbingAlwaysIgnored == ProcessSpec => []PlumbingIgnored
<1>1. ASSUME ProcessInv, step = "watch", NEW path \in BoundedPaths, NEW i \in DOMAIN path,
             Len(path[i]) >= 2, path[i][1] = ".", path[i][2] = "."
      PROVE  Matches(cfg.ignore, path)
  <2>1. path[i] \in NamesUpTo(Letters, MaxName)
    BY DEF BoundedPaths, BoundedSeqs
  <2>2. Match(<<".", ".", "*">>, path[i])
    BY <1>1, <2>1, PlumbingMatches
  <2>3. <<".", ".", "*">> \in cfg.ignore
    BY <1>1 DEF ProcessInv, Config, Ignore, builtinIgnores
  <2>4. ~HasSlash(<<".", ".", "*">>)
    <3> DEFINE pattern == <<".", ".", "*">>
    <3>1. \A j \in DOMAIN pattern : pattern[j] # "/"
      OBVIOUS
    <3> QED
      BY <3>1 DEF HasSlash, Range
  <2> QED
    BY <2>2, <2>3, <2>4 DEF Matches
<1>2. ProcessInv => PlumbingIgnored
  BY <1>1 DEF PlumbingIgnored
<1> QED
  BY ContainerInvariant, <1>2, PTL

=============================================================================
