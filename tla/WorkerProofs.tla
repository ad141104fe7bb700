---------------------------- MODULE WorkerProofs ----------------------------
(***************************************************************************)
(* Theorems of the two parts that have a worker thread of their own: the   *)
(* diagnostic log, for any threads and any capacity, and the image cache,  *)
(* for any pictures, limits and bounds.                                    *)
(*                                                                         *)
(* The log.  NoLostWake is strengthened to the steps between the worker's  *)
(* last look at the ring and its sleep; NewestKept needs to know what is   *)
(* in the slots of the ring: consecutive lines up to the last accepted.    *)
(*                                                                         *)
(* The images.  PendingIsWorked is inductive with the types.               *)
(* OneJobPerFile needs what the two threads may rely on between a critical *)
(* section and an operation on the disk: that no list overlaps another     *)
(* (Apart), that what request() saw still holds when it comes back (Asks), *)
(* that what a prune removed has no job when the lists forget it           *)
(* (Forgets), and why the prunes keep to that: no file is adopted before a *)
(* restart (Fresh), or only the paths in a set O are not the newest of     *)
(* their pictures (Replaced).                                              *)
(***************************************************************************)
EXTENDS DiagnosticLogger, ImageCache, FiniteSetTheorems, SequenceTheorems,
        WellFoundedInduction, TLAPS

-----------------------------------------------------------------------------
(* Log: types *)

TypeInv == TypeOK /\ (wpc \in {"markFull", "mark"} => batch # <<>>)

LEMMA AfterType == \A i \in Slot : After(i) \in Slot
  BY BoundAssumption DEF After, Slot

LEMMA LastType ==
  ASSUME NEW s \in Seq(Nat), s # <<>>
  PROVE  Last(s) \in Nat
  BY DEF Last

LEMMA TypeInit == Init => TypeInv
  <1> SUFFICES ASSUME Init PROVE TypeInv
    OBVIOUS
  <1> USE DEF Init
  <1>1. ring \in [Slot -> Nat] /\ head \in Slot /\ tail \in Slot /\ count \in 0 .. Capacity
    BY BoundAssumption DEF Slot
  <1>2. wpc \in {"off", "wait"}
    BY Zenon
  <1>3. calls \in 0 .. MaxCalls
    BY BoundAssumption
  <1>4. file \in Seq(Nat) /\ batch \in Seq(Nat) /\ lost \subseteq Nat
    OBVIOUS
  <1>5. pc \in [Thread -> {"idle"}] /\ target \in [Thread -> Nat]
    OBVIOUS
  <1>6. QED
    BY <1>1, <1>2, <1>3, <1>4, <1>5 DEF TypeInv, TypeOK

LEMMA TypeCaller ==
  ASSUME TypeInv, NEW t \in Thread, Log(t) \/ Flush(t) \/ Going(t)
  PROVE  TypeInv'
  <1> USE DEF TypeInv, TypeOK, Goto, flags, writer
  <1>1. CASE Log(t) \/ Flush(t)
    <2>1. calls' \in 0 .. MaxCalls
      BY <1>1, BoundAssumption DEF Log, Flush, Call
    <2>2. \E at \in {"idle", "enqueue", "direct", "target"} : Goto(t, at)
      BY <1>1, Zenon DEF Log, Flush
    <2>3. QED
      BY <1>1, <2>1, <2>2 DEF Log, Flush, lines
  <1>2. CASE EnqueueLine(t)
    <2>1. CASE stopping
      BY <1>2, <2>1 DEF EnqueueLine, lines
    <2>2. CASE ~stopping
      <3>1. ring' \in [Slot -> Nat] /\ enqueued' \in Nat
        BY <1>2, <2>2 DEF EnqueueLine, Push
      <3>2. tail' \in Slot /\ head' \in Slot
        BY <1>2, <2>2, AfterType DEF EnqueueLine, Push
      <3>3. count' \in 0 .. Capacity
        BY <1>2, <2>2, BoundAssumption DEF EnqueueLine, Push
      <3>4. lost' \subseteq Nat
        <4>1. ring[head] \in Nat
          OBVIOUS
        <4>2. lost' = lost \/ lost' = lost \cup {ring[head]}
          BY <1>2, <2>2 DEF EnqueueLine, Push
        <4>3. QED
          BY <4>1, <4>2
      <3>5. QED
        BY <1>2, <3>1, <3>2, <3>3, <3>4 DEF EnqueueLine
    <2>3. QED
      BY <2>1, <2>2
  <1>3. CASE Signal(t) \/ Direct(t)
    BY <1>3 DEF Signal, Direct, lines
  <1>4. CASE FlushTarget(t) \/ FlushDone(t) \/ FlushTimeout(t)
    BY <1>4 DEF FlushTarget, FlushDone, FlushTimeout, lines
  <1>5. QED
    BY <1>1, <1>2, <1>3, <1>4 DEF Going

LEMMA TypeWork ==
  ASSUME TypeInv, Work
  PROVE  TypeInv'
  <1> USE DEF TypeInv, TypeOK, others, flags, caller
  <1>1. CASE WaitSema \/ Check
    BY <1>1 DEF WaitSema, Check, lines
  <1>2. CASE TakeLine
    <2>1. hand' \in Nat /\ head' \in Slot
      BY <1>2, AfterType DEF TakeLine
    <2>2. count' \in 0 .. Capacity
      BY <1>2, BoundAssumption DEF TakeLine
    <2>3. QED
      BY <1>2, <2>1, <2>2 DEF TakeLine
  <1>3. CASE Fits
    BY <1>3 DEF Fits, lines
  <1>4. CASE Full \/ Drained
    <2>1. file \o batch \in Seq(Nat)
      OBVIOUS
    <2>2. QED
      BY <1>4, <2>1 DEF Full, Drained, lines
  <1>5. CASE MarkFull \/ Mark
    <2>1. written' \in Nat
      BY <1>5, LastType DEF MarkFull, Mark
    <2>2. batch' \in Seq(Nat) /\ hand' \in Nat
      <3>1. <<hand>> \in Seq(Nat) /\ <<>> \in Seq(Nat)
        OBVIOUS
      <3>2. batch' = <<hand>> \/ batch' = <<>>
        BY <1>5, Zenon DEF MarkFull, Mark
      <3>3. batch' \in Seq(Nat)
        BY <3>1, <3>2, Zenon
      <3>4. QED
        BY <1>5, <3>3 DEF MarkFull, Mark
    <2>3. QED
      BY <1>5, <2>1, <2>2 DEF MarkFull, Mark, lines
  <1>6. QED
    BY <1>1, <1>2, <1>3, <1>4, <1>5 DEF Work

LEMMA TypeNext == TypeInv /\ [Next]_vars => TypeInv'
  <1> SUFFICES ASSUME TypeInv, [Next]_vars
               PROVE  TypeInv'
    OBVIOUS
  <1>1. ASSUME NEW t \in Thread, Log(t) \/ Flush(t) \/ Going(t)
        PROVE  TypeInv'
    BY <1>1, TypeCaller
  <1>2. CASE Shutdown \/ Closing
    BY <1>2
    DEF Shutdown, Closing, Stop, Wake, Join, Close, Goto, TypeInv, TypeOK, flags, lines,
        writer
  <1>3. CASE Work
    BY <1>3, TypeWork
  <1>4. CASE UNCHANGED vars
    BY <1>4 DEF vars, TypeInv, TypeOK, flags, lines, caller, writer
  <1>5. QED
    BY <1>1, <1>2, <1>3, <1>4 DEF Next

LEMMA TypeAlways == Spec => []TypeInv
  BY TypeInit, TypeNext, PTL DEF Spec

\* The state keeps its type: head, tail and count stay within the ring, and the
\* semaphore within its one permit.
THEOREM TypeCorrect == Spec => []TypeOK
  <1>1. TypeInv => TypeOK
    BY DEF TypeInv
  <1>2. QED
    BY <1>1, TypeAlways, PTL

-----------------------------------------------------------------------------
(* No lost wake-up *)

Waking == sema = 1 \/ \E t \in Thread : pc[t] \in {"signal", "wake"}

\* A line accepted after the worker has found the ring empty has its wake-up
\* under way, already before the worker sleeps.
WakeInv == count > 0 /\ wpc \in {"wait", "drained", "mark", "check"} => Waking

LEMMA WakeNext ==
  ASSUME TypeInv, WakeInv, [Next]_vars
  PROVE  WakeInv'
  <1> USE DEF WakeInv, Waking, TypeInv, TypeOK
  <1>1. ASSUME NEW t \in Thread, EnqueueLine(t)
        PROVE  WakeInv'
    BY <1>1 DEF EnqueueLine, Goto
  <1>2. ASSUME NEW t \in Thread, Signal(t)
        PROVE  WakeInv'
    BY <1>2 DEF Signal
  <1>3. ASSUME NEW t \in Thread,
               Log(t) \/ Flush(t) \/ Direct(t) \/ FlushTarget(t) \/ FlushDone(t)
                 \/ FlushTimeout(t)
        PROVE  WakeInv'
    BY <1>3
    DEF Log, Flush, Direct, FlushTarget, FlushDone, FlushTimeout, Goto, lines, writer
  <1>4. CASE Shutdown \/ Stop \/ Join \/ Close
    BY <1>4, MainAssumption DEF Shutdown, Stop, Join, Close, Goto, lines, writer
  <1>5. CASE Wake
    BY <1>5 DEF Wake
  <1>6. CASE WaitSema \/ Fits \/ Full \/ MarkFull
    BY <1>6 DEF WaitSema, Fits, Full, MarkFull
  <1>7. CASE TakeLine
    BY <1>7 DEF TakeLine
  <1>8. CASE Drained \/ Mark \/ Check
    BY <1>8 DEF Drained, Mark, Check, others, caller, lines
  <1>9. CASE UNCHANGED vars
    BY <1>9 DEF vars, lines, caller, writer
  <1>10. QED
    BY <1>1, <1>2, <1>3, <1>4, <1>5, <1>6, <1>7, <1>8, <1>9
    DEF Next, Going, Closing, Work

\* The worker never sleeps on a line nobody will wake it for (one permit for any
\* number of lines in log, sceKernelWaitSema in logWorker).
THEOREM AlwaysWoken == Spec => []NoLostWake
  <1>1. Init => WakeInv
    BY DEF Init, WakeInv
  <1>2. TypeInv /\ WakeInv /\ [Next]_vars => WakeInv'
    BY WakeNext
  <1>3. WakeInv => NoLostWake
    BY DEF WakeInv, Waking, NoLostWake
  <1>4. QED
    BY <1>1, <1>2, <1>3, TypeAlways, PTL DEF Spec

-----------------------------------------------------------------------------
(* The newest lines are kept *)

\* The slot i places after the head.
Place(i) == IF head + i < Capacity THEN head + i ELSE head + i - Capacity

\* The ring holds the last `count` lines accepted, in order; tail is the next slot.
RingInv ==
    /\ count <= enqueued
    /\ tail = Place(count)
    /\ \A i \in 0 .. count - 1 : ring[Place(i)] = enqueued - count + 1 + i

KeptInv == RingInv /\ NewestKept

LEMMA PushKept ==
  ASSUME TypeInv, KeptInv, Push
  PROVE  KeptInv'
  <1> USE BoundAssumption DEF KeptInv, RingInv, NewestKept, TypeInv, TypeOK, Slot
  <1>1. CASE count = Capacity
    <2>1. ring[head] = enqueued - Capacity + 1 /\ tail = head
      <3>1. Place(0) = head /\ 0 \in 0 .. count - 1
        BY <1>1 DEF Place
      <3>2. ring[Place(0)] = enqueued - count + 1 + 0
        BY <3>1
      <3>3. QED
        BY <1>1, <3>1, <3>2 DEF Place
    <2>2. /\ head' = After(head) /\ tail' = After(head) /\ count' = Capacity
          /\ enqueued' = enqueued + 1 /\ lost' = lost \cup {ring[head]}
          /\ ring' = [ring EXCEPT ![tail] = enqueued + 1]
      BY <1>1, <2>1 DEF Push
    <2>3. NewestKept'
      BY <2>1, <2>2
    <2>4. count' <= enqueued' /\ tail' = Place(count)'
      BY <1>1, <2>1, <2>2 DEF After, Place
    <2>5. ASSUME NEW i \in 0 .. count' - 1
          PROVE  ring'[Place(i)'] = enqueued' - count' + 1 + i
      <3>1. CASE i = Capacity - 1
        BY <1>1, <2>1, <2>2, <3>1 DEF After, Place
      <3>2. CASE i # Capacity - 1
        <4>1. Place(i)' = Place(i + 1) /\ Place(i + 1) # tail /\ Place(i + 1) \in Slot
          BY <1>1, <2>1, <2>2, <3>2 DEF After, Place
        <4>2. ring[Place(i + 1)] = enqueued - count + 1 + (i + 1)
          <5>1. i + 1 \in 0 .. count - 1
            BY <1>1, <2>1, <2>2, <3>2
          <5>2. QED
            BY <5>1
        <4>3. QED
          BY <1>1, <2>1, <2>2, <4>1, <4>2
      <3>3. QED
        BY <3>1, <3>2
    <2>6. QED
      BY <2>3, <2>4, <2>5
  <1>2. CASE count # Capacity
    <2>1. /\ head' = head /\ tail' = After(tail) /\ count' = count + 1
          /\ enqueued' = enqueued + 1 /\ lost' = lost
          /\ ring' = [ring EXCEPT ![tail] = enqueued + 1]
      BY <1>2 DEF Push
    <2>2. NewestKept'
      BY <2>1
    <2>3. count' <= enqueued' /\ tail' = Place(count)'
      BY <1>2, <2>1 DEF After, Place
    <2>4. ASSUME NEW i \in 0 .. count' - 1
          PROVE  ring'[Place(i)'] = enqueued' - count' + 1 + i
      <3>1. CASE i = count
        BY <1>2, <2>1, <3>1 DEF Place
      <3>2. CASE i # count
        <4>1. Place(i)' = Place(i) /\ Place(i) # tail /\ Place(i) \in Slot
          BY <1>2, <2>1, <3>2 DEF Place
        <4>2. i \in 0 .. count - 1
          BY <2>1, <3>2
        <4>3. ring[Place(i)] = enqueued - count + 1 + i
          BY <4>2
        <4>4. QED
          BY <2>1, <4>1, <4>3
      <3>3. QED
        BY <3>1, <3>2
    <2>5. QED
      BY <2>2, <2>3, <2>4
  <1>3. QED
    BY <1>1, <1>2

LEMMA TakeKept ==
  ASSUME TypeInv, KeptInv, TakeLine
  PROVE  KeptInv'
  <1> USE BoundAssumption DEF KeptInv, RingInv, NewestKept, TypeInv, TypeOK, Slot
  <1>1. UNCHANGED <<ring, tail, enqueued, lost>>
    BY DEF TakeLine
  <1>2. CASE count > 0
    <2>1. head' = After(head) /\ count' = count - 1
      BY <1>2 DEF TakeLine
    <2>2. count' <= enqueued' /\ tail' = Place(count)'
      BY <1>1, <1>2, <2>1 DEF After, Place
    <2>3. ASSUME NEW i \in 0 .. count' - 1
          PROVE  ring'[Place(i)'] = enqueued' - count' + 1 + i
      <3>1. Place(i)' = Place(i + 1)
        BY <2>1 DEF After, Place
      <3>2. i + 1 \in 0 .. count - 1
        BY <2>1
      <3>3. ring[Place(i + 1)] = enqueued - count + 1 + (i + 1)
        BY <3>2
      <3>4. QED
        BY <1>1, <2>1, <3>1, <3>3
    <2>4. QED
      BY <1>1, <2>2, <2>3
  <1>3. CASE count = 0
    BY <1>1, <1>3 DEF TakeLine, Place
  <1>4. QED
    BY <1>2, <1>3

LEMMA KeptNext ==
  ASSUME TypeInv, KeptInv, [Next]_vars
  PROVE  KeptInv'
  <1>1. CASE Push
    BY <1>1, PushKept
  <1>2. CASE TakeLine
    BY <1>2, TakeKept
  <1>3. CASE UNCHANGED lines
    BY <1>3 DEF lines, KeptInv, RingInv, NewestKept, Place
  <1>4. Push \/ TakeLine \/ UNCHANGED lines
    BY DEF Next, Going, Closing, Work, vars, others, Log, Flush, EnqueueLine, Signal, Direct,
           FlushTarget, FlushDone, FlushTimeout, Shutdown, Stop, Wake, Join, Close,
           WaitSema, Fits, Full, MarkFull, Drained, Mark, Check
  <1>5. QED
    BY <1>1, <1>2, <1>3, <1>4

\* A line is dropped only when Capacity newer ones have been accepted (the ring of
\* log: "newest diagnostics preserved").
THEOREM NewestAreKept == Spec => []NewestKept
  <1>1. Init => KeptInv
    BY BoundAssumption DEF Init, KeptInv, RingInv, NewestKept, Place
  <1>2. TypeInv /\ KeptInv /\ [Next]_vars => KeptInv'
    BY KeptNext
  <1>3. KeptInv => NewestKept
    BY DEF KeptInv
  <1>4. QED
    BY <1>1, <1>2, <1>3, TypeAlways, PTL DEF Spec

-----------------------------------------------------------------------------
(* Image cache: sequences of jobs *)

\* A set of natural numbers has a least one.
LEMMA LeastNatural ==
  ASSUME NEW T \in SUBSET Nat, T # {}
  PROVE  \E x \in T : \A y \in T : x <= y
  <1>1. PICK x \in T : \A y \in T : ~(<<y, x>> \in OpToRel(<, Nat))
    BY WFMin, NatLessThanWellFounded, Zenon
  <1>2. \A y \in T : ~(y < x)
    BY <1>1 DEF OpToRel
  <1>3. QED
    BY <1>2

\* g walks along q and keeps the jobs of the paths in S.
Kept(g, q, S, n) ==
  IF n = 0 THEN <<>> ELSE IF q[n].path \in S THEN Append(g[n - 1], q[n]) ELSE g[n - 1]
Walks(g, q, S, m) == g = [n \in 0 .. m |-> Kept(g, q, S, n)]

LEMMA WalkExists ==
  ASSUME NEW q, NEW S, NEW m \in Nat
  PROVE  \E g : Walks(g, q, S, m)
  <1> DEFINE Bad == {n \in Nat : ~\E g : Walks(g, q, S, n)}
  <1>1. SUFFICES ASSUME Bad # {} PROVE FALSE
    OBVIOUS
  <1>2. PICK n \in Bad : \A k \in Bad : n <= k
    <2>1. Bad \in SUBSET Nat
      OBVIOUS
    <2> HIDE DEF Bad
    <2>2. QED
      BY <1>1, <2>1, LeastNatural
  <1>3. n \in Nat /\ ~\E g : Walks(g, q, S, n)
    BY <1>2
  <1>4. CASE n = 0
    <2> DEFINE h == [k \in 0 .. 0 |-> <<>>]
    <2>1. Walks(h, q, S, 0)
      BY DEF Walks, Kept
    <2>2. QED
      BY <1>3, <1>4, <2>1
  <1>5. CASE n # 0
    <2>1. n - 1 \in Nat /\ n - 1 \notin Bad
      BY <1>2, <1>3, <1>5
    <2>2. PICK g : Walks(g, q, S, n - 1)
      BY <2>1
    <2> DEFINE h == [k \in 0 .. n |-> Kept(g, q, S, k)]
    <2>3. ASSUME NEW k \in 0 .. n - 1 PROVE h[k] = g[k]
      <3>1. g[k] = Kept(g, q, S, k)
        BY <2>2, Zenon DEF Walks
      <3>2. QED
        BY <1>3, <3>1
    <2>4. ASSUME NEW k \in 0 .. n PROVE h[k] = Kept(h, q, S, k)
      <3>1. CASE k = 0
        BY <1>3, <3>1 DEF Kept
      <3>2. CASE k # 0
        <4>1. k - 1 \in 0 .. n - 1
          BY <1>3, <3>2
        <4>2. h[k - 1] = g[k - 1]
          BY <2>3, <4>1, Zenon
        <4>3. QED
          BY <4>2 DEF Kept
      <3>3. QED
        BY <3>1, <3>2
    <2>5. h = [k \in 0 .. n |-> h[k]]
      OBVIOUS
    <2>6. Walks(h, q, S, n)
      <3> HIDE DEF h
      <3>1. QED
        BY <2>4, <2>5 DEF Walks
    <2>7. QED
      BY <1>3, <2>6
  <1>6. QED
    BY <1>4, <1>5

\* What holds before the first step and is kept by every step up to m holds up to m.
LEMMA UpTo ==
  ASSUME NEW m \in Nat, NEW Good, 0 \in Good, \A n \in 1 .. m : n - 1 \in Good => n \in Good
  PROVE  \A n \in 0 .. m : n \in Good
  <1> DEFINE Bad == {n \in 0 .. m : n \notin Good}
  <1>1. SUFFICES ASSUME Bad # {} PROVE FALSE
    OBVIOUS
  <1>2. PICK n \in Bad : \A k \in Bad : n <= k
    <2>1. Bad \in SUBSET Nat
      OBVIOUS
    <2> HIDE DEF Bad
    <2>2. QED
      BY <1>1, <2>1, LeastNatural
  <1>3. n \in 1 .. m /\ n - 1 \in 0 .. m /\ n - 1 \notin Bad
    BY <1>2
  <1>4. QED
    BY <1>2, <1>3

LEMMA PathsFacts ==
  /\ QueuedPaths(<<>>) = {}
  /\ \A T : \A q \in Seq(T) :
       /\ QueuedPaths(q) = {q[k].path : k \in 1 .. Len(q)}
       /\ \A j \in T : QueuedPaths(Append(q, j)) = QueuedPaths(q) \cup {j.path}
  <1>1. QueuedPaths(<<>>) = {}
    BY DEF QueuedPaths
  <1>2. ASSUME NEW T, NEW q \in Seq(T)
        PROVE  QueuedPaths(q) = {q[k].path : k \in 1 .. Len(q)}
    BY LenProperties DEF QueuedPaths
  <1>3. ASSUME NEW T, NEW q \in Seq(T), NEW j \in T
        PROVE  QueuedPaths(Append(q, j)) = QueuedPaths(q) \cup {j.path}
    <2> DEFINE a == Append(q, j)
    <2>1. /\ a \in Seq(T) /\ Len(q) \in Nat /\ Len(a) = Len(q) + 1
          /\ a[Len(q) + 1] = j /\ \A k \in 1 .. Len(q) : a[k] = q[k]
      BY AppendProperties, LenProperties
    <2> HIDE DEF a
    <2>2. QueuedPaths(a) = {a[k].path : k \in 1 .. Len(q) + 1}
      BY <1>2, <2>1
    <2>3. QueuedPaths(q) = {q[k].path : k \in 1 .. Len(q)}
      BY <1>2
    <2>4. 1 .. Len(q) + 1 = 1 .. Len(q) \cup {Len(q) + 1}
      BY <2>1
    <2>5. QueuedPaths(a) = QueuedPaths(q) \cup {j.path}
      BY <2>1, <2>2, <2>3, <2>4
    <2>6. QED
      BY <2>5 DEF a
  <1>4. QED
    BY <1>1, <1>2, <1>3

LEMMA PathIn == ASSUME NEW T, NEW q \in Seq(T), NEW k \in 1 .. Len(q) PROVE q[k].path \in QueuedPaths(q)
  BY LenProperties DEF QueuedPaths

Distinct(q) == \A k, l \in DOMAIN q : q[k].path = q[l].path => k = l

LEMMA DistinctIn ==
  ASSUME NEW T, NEW q \in Seq(T)
  PROVE  /\ Distinct(q) <=> \A k, l \in 1 .. Len(q) : q[k].path = q[l].path => k = l
         /\ \A p : p \in QueuedPaths(q) <=> \E k \in 1 .. Len(q) : q[k].path = p
  BY LenProperties DEF Distinct, QueuedPaths

LEMMA DistinctAppend ==
  ASSUME NEW T, NEW q \in Seq(T), Distinct(q), NEW j \in T, j.path \notin QueuedPaths(q)
  PROVE  Distinct(Append(q, j))
  <1> DEFINE a == Append(q, j)
  <1>1. PICK n \in Nat : n = Len(q)
    BY LenProperties
  <1>2. /\ a \in Seq(T) /\ Len(a) = n + 1
        /\ a[n + 1] = j /\ \A k \in 1 .. n : a[k] = q[k]
    BY <1>1, AppendProperties
  <1> HIDE DEF a
  <1>3. \A k \in 1 .. n : q[k].path # j.path
    BY <1>1, DistinctIn
  <1>4. \A k, l \in 1 .. n : q[k].path = q[l].path => k = l
    BY <1>1, DistinctIn
  <1>5. ASSUME NEW k \in 1 .. n + 1, NEW l \in 1 .. n + 1, a[k].path = a[l].path PROVE k = l
    <2>1. k \in 1 .. n \/ k = n + 1
      OBVIOUS
    <2>2. l \in 1 .. n \/ l = n + 1
      OBVIOUS
    <2>3. QED
      BY <1>2, <1>3, <1>4, <1>5, <2>1, <2>2
  <1>6. Distinct(a)
    BY <1>2, <1>5, DistinctIn
  <1>7. QED
    BY <1>6 DEF a

LEMMA OnlyFacts ==
  ASSUME NEW T, NEW q \in Seq(T), NEW S
  PROVE  /\ Only(q, S) \in Seq(T)
         /\ QueuedPaths(Only(q, S)) = QueuedPaths(q) \cap S
         /\ Distinct(q) => Distinct(Only(q, S))
  <1> DEFINE g == CHOOSE g : Walks(g, q, S, Len(q))
             First(n) == {q[k].path : k \in 1 .. n}
             Good == {n \in 0 .. Len(q) :
                        /\ g[n] \in Seq(T)
                        /\ QueuedPaths(g[n]) = First(n) \cap S
                        /\ Distinct(q) => Distinct(g[n])}
  <1>1. Walks(g, q, S, Len(q))
    BY WalkExists, LenProperties
  <1>2. Only(q, S) = g[Len(q)]
    BY DEF Only, Walks, Kept
  <1> HIDE DEF g
  <1>3. \A n \in 0 .. Len(q) : g[n] = Kept(g, q, S, n)
    BY <1>1, Zenon DEF Walks
  <1>4. 0 \in Good
    <2>1. 0 \in 0 .. Len(q)
      BY LenProperties
    <2>2. g[0] = <<>>
      BY <1>3, <2>1 DEF Kept
    <2>3. First(0) = {}
      OBVIOUS
    <2>4. g[0] \in Seq(T)
      BY <2>2
    <2>5. QueuedPaths(g[0]) = First(0) \cap S
      <3> HIDE DEF First
      <3>1. QED
        BY <2>2, <2>3, PathsFacts
    <2>6. Distinct(g[0])
      BY <2>2 DEF Distinct
    <2>7. QED
      BY <2>1, <2>4, <2>5, <2>6
  <1>5. ASSUME NEW n \in 1 .. Len(q), n - 1 \in Good PROVE n \in Good
    <2>1. g[n] = IF q[n].path \in S THEN Append(g[n - 1], q[n]) ELSE g[n - 1]
      BY <1>3 DEF Kept
    <2>2. First(n) = First(n - 1) \cup {q[n].path} /\ q[n] \in T
      OBVIOUS
    <2>3. /\ g[n - 1] \in Seq(T) /\ QueuedPaths(g[n - 1]) = First(n - 1) \cap S
          /\ Distinct(q) => Distinct(g[n - 1])
      BY <1>5, Zenon
    <2>4. QueuedPaths(Append(g[n - 1], q[n])) = QueuedPaths(g[n - 1]) \cup {q[n].path}
      BY <2>2, <2>3, PathsFacts
    <2>8. Distinct(q) => q[n].path \notin First(n - 1)
      BY DistinctIn
    <2> HIDE DEF First
    <2>5. CASE q[n].path \in S
      <3>1. g[n] = Append(g[n - 1], q[n]) /\ g[n] \in Seq(T)
        BY <2>1, <2>2, <2>3, <2>5, AppendProperties
      <3>2. QueuedPaths(g[n]) = First(n) \cap S
        BY <2>2, <2>3, <2>4, <2>5, <3>1
      <3>3. n \in 0 .. Len(q)
        OBVIOUS
      <3>4. Distinct(q) => Distinct(g[n])
        BY <2>2, <2>3, <2>8, <3>1, DistinctAppend
      <3>5. QED
        BY <3>1, <3>2, <3>3, <3>4
    <2>6. CASE q[n].path \notin S
      BY <2>1, <2>2, <2>3, <2>6
    <2>7. QED
      BY <2>5, <2>6
  <1>6. Len(q) \in Good
    <2> HIDE DEF Good
    <2>1. Len(q) \in Nat /\ \A n \in 1 .. Len(q) : n - 1 \in Good => n \in Good
      BY <1>5, LenProperties
    <2>2. \A n \in 0 .. Len(q) : n \in Good
      BY <1>4, <2>1, UpTo
    <2>3. QED
      BY <2>1, <2>2
  <1>7. First(Len(q)) = QueuedPaths(q)
    BY DEF QueuedPaths
  <1>8. /\ g[Len(q)] \in Seq(T) /\ QueuedPaths(g[Len(q)]) = First(Len(q)) \cap S
        /\ Distinct(q) => Distinct(g[Len(q)])
    BY <1>6, Zenon
  <1>9. QED
    BY <1>2, <1>7, <1>8

LEMMA ConcatPaths ==
  ASSUME NEW T, NEW q \in Seq(T), NEW r \in Seq(T)
  PROVE  q \o r \in Seq(T) /\ QueuedPaths(q \o r) = QueuedPaths(q) \cup QueuedPaths(r)
  <1> DEFINE c == q \o r
  <1>1. /\ c \in Seq(T) /\ Len(q) \in Nat /\ Len(r) \in Nat /\ Len(c) = Len(q) + Len(r)
        /\ \A k \in 1 .. Len(c) : c[k] = IF k <= Len(q) THEN q[k] ELSE r[k - Len(q)]
    BY ConcatProperties, LenProperties
  <1> HIDE DEF c
  <1>2. QueuedPaths(c) \subseteq QueuedPaths(q) \cup QueuedPaths(r)
    <2>1. SUFFICES ASSUME NEW k \in 1 .. Len(c) PROVE c[k].path \in QueuedPaths(q) \cup QueuedPaths(r)
      BY <1>1, PathsFacts
    <2>2. (k \in 1 .. Len(q) /\ c[k] = q[k]) \/ (k - Len(q) \in 1 .. Len(r) /\ c[k] = r[k - Len(q)])
      BY <1>1
    <2>3. QED
      BY <2>2, PathIn
  <1>3. ASSUME NEW k \in 1 .. Len(q) PROVE q[k].path \in QueuedPaths(c)
    <2>1. k \in 1 .. Len(c) /\ c[k] = q[k]
      BY <1>1
    <2>2. QED
      BY <1>1, <2>1, PathIn
  <1>4. ASSUME NEW k \in 1 .. Len(r) PROVE r[k].path \in QueuedPaths(c)
    <2>1. k + Len(q) \in 1 .. Len(c) /\ ~(k + Len(q) <= Len(q)) /\ (k + Len(q)) - Len(q) = k
      BY <1>1
    <2>3. c[k + Len(q)] = r[k]
      BY <1>1, <2>1
    <2>2. QED
      BY <1>1, <2>1, <2>3, PathIn
  <1>5. QueuedPaths(q) \cup QueuedPaths(r) \subseteq QueuedPaths(c)
    BY <1>3, <1>4, PathsFacts
  <1>6. QED
    BY <1>1, <1>2, <1>5 DEF c

LEMMA HeadPaths ==
  ASSUME NEW T, NEW q \in Seq(T), q # <<>>
  PROVE  /\ Head(q) \in T /\ Tail(q) \in Seq(T)
         /\ QueuedPaths(q) \subseteq {Head(q).path} \cup QueuedPaths(Tail(q))
  <1>1. /\ Head(q) \in T /\ Tail(q) \in Seq(T) /\ Len(q) \in Nat \ {0} /\ Len(Tail(q)) = Len(q) - 1
        /\ Head(q) = q[1] /\ \A k \in 1 .. Len(Tail(q)) : Tail(q)[k] = q[k + 1]
    BY HeadTailProperties, LenProperties, EmptySeq
  <1>2. ASSUME NEW k \in 1 .. Len(q) PROVE q[k].path \in {Head(q).path} \cup QueuedPaths(Tail(q))
    <2>1. k = 1 \/ (k - 1 \in 1 .. Len(Tail(q)) /\ Tail(q)[k - 1] = q[k])
      BY <1>1
    <2>2. k - 1 \in 1 .. Len(Tail(q)) => Tail(q)[k - 1].path \in QueuedPaths(Tail(q))
      BY <1>1, PathIn
    <2>3. QED
      BY <1>1, <2>1, <2>2
  <1>3. QED
    BY <1>1, <1>2, PathsFacts

LEMMA FrontFacts ==
  ASSUME NEW T, NEW q \in Seq(T), Len(q) >= 1
  PROVE  /\ Front(q) \in Seq(T) /\ Len(q) \in Nat \ {0} /\ Len(Front(q)) = Len(q) - 1
         /\ Last(q) = q[Len(q)] /\ \A k \in 1 .. Len(Front(q)) : Front(q)[k] = q[k]
  <1>1. PICK n \in Nat \ {0} : n = Len(q)
    BY LenProperties
  <1> DEFINE f == SubSeq(q, 1, n - 1)
  <1>2. \A k \in 1 .. n - 1 : q[k] \in T
    BY <1>1
  <1>3. f \in Seq(T) /\ Len(f) = IF 1 <= n - 1 THEN n - 1 - 1 + 1 ELSE 0
    BY <1>2, SubSeqProperties
  <1>4. \A k \in 1 .. n - 1 - 1 + 1 : f[k] = q[1 + k - 1]
    BY <1>2, SubSeqProperties
  <1>5. Front(q) = f /\ Last(q) = q[n]
    BY <1>1 DEF Front, Last
  <1> HIDE DEF f
  <1>6. Len(f) = n - 1 /\ n - 1 - 1 + 1 = n - 1 /\ \A k \in 1 .. n - 1 : 1 + k - 1 = k
    BY <1>3
  <1>7. QED
    BY <1>1, <1>3, <1>4, <1>5, <1>6

LEMMA LastPaths ==
  ASSUME NEW T, NEW q \in Seq(T), Len(q) >= 1
  PROVE  /\ Front(q) \in Seq(T)
         /\ QueuedPaths(q) \subseteq {Last(q).path} \cup QueuedPaths(Front(q))
  <1>1. /\ Front(q) \in Seq(T) /\ Len(q) \in Nat \ {0} /\ Len(Front(q)) = Len(q) - 1
        /\ Last(q) = q[Len(q)] /\ \A k \in 1 .. Len(Front(q)) : Front(q)[k] = q[k]
    BY FrontFacts
  <1>2. ASSUME NEW k \in 1 .. Len(q) PROVE q[k].path \in {Last(q).path} \cup QueuedPaths(Front(q))
    <2>1. k = Len(q) \/ (k \in 1 .. Len(Front(q)) /\ Front(q)[k] = q[k])
      BY <1>1
    <2>2. QED
      BY <1>1, <2>1, PathIn
  <1>3. QED
    BY <1>1, <1>2, PathsFacts

LEMMA DistinctPush ==
  ASSUME NEW T, NEW q \in Seq(T), Distinct(q), NEW j \in T, j.path \notin QueuedPaths(q)
  PROVE  Distinct(<<j>> \o q)
  <1> DEFINE one == <<j>>
             a == one \o q
  <1>1. PICK n \in Nat : n = Len(q)
    BY LenProperties
  <1>2. one \in Seq(T) /\ Len(one) = 1 /\ one[1] = j
    OBVIOUS
  <1> HIDE DEF one
  <1>3. /\ a \in Seq(T) /\ Len(a) = 1 + n
        /\ \A k \in 1 .. 1 + n : a[k] = IF k <= 1 THEN one[k] ELSE q[k - 1]
    BY <1>1, <1>2, ConcatProperties
  <1> HIDE DEF a
  <1>4. a[1] = j /\ \A k \in 2 .. 1 + n : a[k] = q[k - 1] /\ k - 1 \in 1 .. n
    BY <1>2, <1>3
  <1>5. \A k \in 1 .. n : q[k].path # j.path
    BY <1>1, DistinctIn
  <1>6. \A k, l \in 1 .. n : q[k].path = q[l].path => k = l
    BY <1>1, DistinctIn
  <1>7. ASSUME NEW k \in 1 .. 1 + n, NEW l \in 1 .. 1 + n, a[k].path = a[l].path PROVE k = l
    <2>1. k \in 2 .. 1 + n \/ k = 1
      OBVIOUS
    <2>2. l \in 2 .. 1 + n \/ l = 1
      OBVIOUS
    <2>3. QED
      BY <1>4, <1>5, <1>6, <1>7, <2>1, <2>2
  <1>8. Distinct(a)
    BY <1>3, <1>7, DistinctIn
  <1>9. QED
    BY <1>8 DEF a, one

LEMMA DistinctTail ==
  ASSUME NEW T, NEW q \in Seq(T), Distinct(q), q # <<>>
  PROVE  /\ Distinct(Tail(q)) /\ Tail(q) \in Seq(T)
         /\ Head(q).path \in QueuedPaths(q)
         /\ QueuedPaths(Tail(q)) = QueuedPaths(q) \ {Head(q).path}
  <1>1. PICK n \in Nat \ {0} : n = Len(q)
    BY LenProperties, EmptySeq
  <1> DEFINE a == Tail(q)
  <1>2. a \in Seq(T) /\ Len(a) = n - 1 /\ Head(q) = q[1] /\ \A k \in 1 .. n - 1 : a[k] = q[k + 1]
    BY <1>1, HeadTailProperties
  <1> HIDE DEF a
  <1>3. \A k, l \in 1 .. n : q[k].path = q[l].path => k = l
    BY <1>1, DistinctIn
  <1>4. \A k \in 1 .. n - 1 : k + 1 \in 1 .. n /\ k + 1 # 1
    OBVIOUS
  <1>5. Distinct(a)
    <2>1. \A k, l \in 1 .. n - 1 : a[k].path = a[l].path => k = l
      BY <1>2, <1>3, <1>4
    <2>2. QED
      BY <1>2, <2>1, DistinctIn
  <1>6. Head(q).path \in QueuedPaths(q)
    BY <1>1, <1>2, DistinctIn
  <1>7. QueuedPaths(a) \subseteq QueuedPaths(q) \ {Head(q).path}
    <2>1. ASSUME NEW k \in 1 .. n - 1 PROVE a[k].path \in QueuedPaths(q) /\ a[k].path # Head(q).path
      BY <1>1, <1>2, <1>3, <1>4, DistinctIn
    <2>2. QED
      BY <1>2, <2>1, DistinctIn
  <1>8. QueuedPaths(q) \subseteq {Head(q).path} \cup QueuedPaths(a)
    BY HeadPaths DEF a
  <1>9. QED
    BY <1>2, <1>5, <1>6, <1>7, <1>8 DEF a

LEMMA DistinctFront ==
  ASSUME NEW T, NEW q \in Seq(T), Distinct(q), Len(q) >= 1
  PROVE  /\ Distinct(Front(q)) /\ Front(q) \in Seq(T)
         /\ QueuedPaths(Front(q)) = QueuedPaths(q) \ {Last(q).path}
  <1>1. PICK n \in Nat \ {0} : n = Len(q)
    BY LenProperties
  <1> DEFINE a == Front(q)
  <1>2. a \in Seq(T) /\ Len(a) = n - 1 /\ Last(q) = q[n] /\ \A k \in 1 .. n - 1 : a[k] = q[k]
    BY <1>1, FrontFacts
  <1> HIDE DEF a
  <1>3. \A k, l \in 1 .. n : q[k].path = q[l].path => k = l
    BY <1>1, DistinctIn
  <1>4. \A k \in 1 .. n - 1 : k \in 1 .. n /\ k # n
    OBVIOUS
  <1>5. Distinct(a)
    <2>1. \A k, l \in 1 .. n - 1 : a[k].path = a[l].path => k = l
      BY <1>2, <1>3, <1>4
    <2>2. QED
      BY <1>2, <2>1, DistinctIn
  <1>6. QueuedPaths(a) \subseteq QueuedPaths(q) \ {Last(q).path}
    <2>1. ASSUME NEW k \in 1 .. n - 1 PROVE a[k].path \in QueuedPaths(q) /\ a[k].path # Last(q).path
      <3>1. k \in 1 .. n /\ n \in 1 .. n /\ k # n /\ a[k] = q[k] /\ Last(q) = q[n]
        BY <1>2, <1>4
      <3>2. q[k].path # q[n].path
        BY <1>3, <3>1
      <3>3. QED
        BY <1>1, <3>1, <3>2, PathIn
    <2>2. QED
      BY <1>2, <2>1, DistinctIn
  <1>7. QueuedPaths(q) \subseteq {Last(q).path} \cup QueuedPaths(a)
    BY LastPaths DEF a
  <1>8. QED
    BY <1>2, <1>5, <1>6, <1>7 DEF a

\* Jobs of distinct paths are as many as the paths.
LEMMA DistinctCount ==
  ASSUME NEW T, NEW q \in Seq(T), Distinct(q)
  PROVE  Cardinality(QueuedPaths(q)) = Len(q)
  <1>1. PICK n \in Nat : n = Len(q)
    BY LenProperties
  <1> DEFINE b == [k \in 1 .. n |-> q[k].path]
  <1>2. b \in Bijection(1 .. n, QueuedPaths(q))
    <2>1. \A k, l \in 1 .. n : q[k].path = q[l].path => k = l
      BY <1>1, DistinctIn
    <2>2. b \in [1 .. n -> QueuedPaths(q)]
      BY <1>1, PathIn
    <2>3. \A p \in QueuedPaths(q) : \E k \in 1 .. n : b[k] = p
      BY <1>1, DistinctIn
    <2>4. QED
      BY <2>1, <2>2, <2>3 DEF Bijection, Injection, Surjection, IsInjective
  <1>3. QED
    BY <1>1, <1>2, FS_CountingElements DEF ExistsBijection

-----------------------------------------------------------------------------
(* Image cache: every pending path has a job *)

AnyPath == Paths \cup {NoPath}
JobSet == [path : AnyPath, attempt : Nat]

WorkerAt == {"idle", "open", "body", "normalize", "unlink", "rename", "valid", "invalid", "discard",
             "drop", "publish", "sweep", "forget", "finish", "fail", "requeue", "giveup"}
UiAt == {"rest", "stat", "adopt", "enqueue", "decode", "snap", "sweep", "forget"}
WorkerState == [at : WorkerAt, job : JobSet, gone : SUBSET Paths]
UiState == [at : UiAt, path : AnyPath, active : AnyPath, gone : SUBSET Paths]
CatalogOK == latest = [i \in Images |-> latest[i]] /\ \A i \in Images : PathOf(i) \in Paths

CacheType ==
  /\ queue \in Seq(JobSet)
  /\ worker \in WorkerState
  /\ ui \in UiState
  /\ current \in AnyPath
  /\ CatalogOK

JobsInv == CacheType /\ PendingIsWorked

LEMMA CatalogKept == CatalogOK /\ UNCHANGED latest => CatalogOK'
  BY DEF CatalogOK, PathOf

LEMMA IdleTypes == NoJob \in JobSet /\ Idle \in WorkerState /\ Resting \in UiState
  <1>1. NoJob \in JobSet
    BY DEF NoJob, JobSet, AnyPath
  <1>2. QED
    BY <1>1 DEF Idle, Resting, WorkerState, WorkerAt, UiState, UiAt, AnyPath

LEMMA CacheInitInv == CacheInit => JobsInv
  <1> SUFFICES ASSUME CacheInit PROVE JobsInv
    OBVIOUS
  <1>1. /\ queue = <<>> /\ pending = {} /\ worker = Idle /\ ui = Resting /\ current = NoPath
        /\ CatalogOK
    BY DEF CacheInit, Blank, CatalogOK
  <1>3. CacheType
    <2>1. queue \in Seq(JobSet) /\ current \in AnyPath
      BY <1>1 DEF AnyPath
    <2>2. QED
      BY <1>1, <2>1, IdleTypes DEF CacheType
  <1>4. QED
    BY <1>1, <1>3 DEF JobsInv, PendingIsWorked

LEMMA LookupJobs == ASSUME JobsInv, NEW i \in Images, Lookup(i) PROVE JobsInv'
  <1> DEFINE p == PathOf(i)
             old == QueuedPaths(queue) \cap Siblings(p)
             again == p \in failed /\ p \notin (ready \cup pending \cup cooling)
             rest == Without(queue, old)
             more == IF again THEN <<Job(p, 0)>> ELSE <<>>
  <1>1. /\ queue' = rest \o more
        /\ pending' = (pending \ old) \cup (IF again THEN {p} ELSE {})
        /\ ui' = ui \/ \E stop \in {"decode", "stat"} : ui' = [ui EXCEPT !.at = stop, !.path = p]
        /\ UNCHANGED <<worker, current, latest>>
    BY DEF Lookup, NextStop, screen
  <1>2. CacheType /\ PendingIsWorked /\ p \in AnyPath /\ Job(p, 0) \in JobSet
    BY DEF JobsInv, CacheType, CatalogOK, UiState, UiAt, AnyPath, JobSet, Job
  <1>3. rest \in Seq(JobSet) /\ QueuedPaths(rest) = QueuedPaths(queue) \cap (QueuedPaths(queue) \ old)
    BY <1>2, OnlyFacts DEF Without, CacheType
  <1>4. more \in Seq(JobSet) /\ QueuedPaths(more) = IF again THEN {p} ELSE {}
    <2>1. QueuedPaths(<<Job(p, 0)>>) = {p}
      BY DEF QueuedPaths, Job
    <2>2. <<Job(p, 0)>> \in Seq(JobSet) /\ <<>> \in Seq(JobSet)
      BY <1>2
    <2>3. QED
      BY <2>1, <2>2, PathsFacts
  <1> HIDE DEF rest, more
  <1>5. queue' \in Seq(JobSet) /\ QueuedPaths(queue') = QueuedPaths(rest) \cup QueuedPaths(more)
    BY <1>1, <1>3, <1>4, ConcatPaths
  <1>6. CacheType'
    <2>1. ui' \in UiState
      BY <1>1, <1>2 DEF CacheType, UiState, UiAt
    <2>2. QED
      BY <1>1, <1>2, <1>5, <2>1, CatalogKept DEF CacheType
  <1>7. PendingIsWorked'
    <2>1. QueuedPaths(queue)' = QueuedPaths(queue')
      BY DEF QueuedPaths
    <2>2. QED
      BY <1>1, <1>2, <1>3, <1>4, <1>5, <2>1 DEF PendingIsWorked, Held
  <1>8. QED
    BY <1>6, <1>7 DEF JobsInv

LEMMA EnqueueJobs == ASSUME JobsInv, Enqueue PROVE JobsInv'
  <1> DEFINE p == ui.path
             full == Len(queue) >= MaxQueue
             dropped == IF full THEN {Last(queue).path} ELSE {}
             kept == IF full THEN Front(queue) ELSE queue
             add == ~paused /\ p \notin QueuedPaths(queue) /\ p \notin pending
  <1>1. /\ queue' = IF add THEN <<Job(p, 0)>> \o kept ELSE queue
        /\ pending' = IF add THEN (pending \ dropped) \cup {p} ELSE pending
        /\ ui' = Resting
        /\ UNCHANGED <<worker, current, latest>>
    BY DEF Enqueue, screen, active
  <1>2. CacheType /\ PendingIsWorked /\ p \in AnyPath /\ Job(p, 0) \in JobSet
    BY DEF JobsInv, CacheType, CatalogOK, UiState, UiAt, AnyPath, JobSet, Job
  <1>3. kept \in Seq(JobSet) /\ QueuedPaths(queue) \subseteq QueuedPaths(kept) \cup dropped
    <2>1. CASE ~full
      BY <1>2, <2>1 DEF CacheType
    <2>2. CASE full
      <3>1. queue \in Seq(JobSet) /\ Len(queue) >= 1
        BY <1>2, <2>2, CacheAssumption, LenProperties DEF CacheType
      <3>2. QED
        BY <2>2, <3>1, LastPaths
    <2>3. QED
      BY <2>1, <2>2
  <1>4. <<Job(p, 0)>> \in Seq(JobSet) /\ QueuedPaths(<<Job(p, 0)>>) = {p}
    BY <1>2 DEF QueuedPaths, Job
  <1> HIDE DEF kept, dropped
  <1>5. /\ queue' \in Seq(JobSet)
        /\ QueuedPaths(queue') = IF add THEN {p} \cup QueuedPaths(kept) ELSE QueuedPaths(queue)
    <2> DEFINE one == <<Job(p, 0)>>
    <2>1. one \o kept \in Seq(JobSet) /\ QueuedPaths(one \o kept) = {p} \cup QueuedPaths(kept)
      <3> HIDE DEF one
      <3>1. one \in Seq(JobSet) /\ QueuedPaths(one) = {p}
        BY <1>4 DEF one
      <3>2. QED
        BY <1>3, <3>1, ConcatPaths
    <2>2. QED
      BY <1>1, <1>2, <2>1 DEF CacheType
  <1>6. CacheType'
    BY <1>1, <1>2, <1>5, IdleTypes, CatalogKept DEF CacheType
  <1>7. PendingIsWorked'
    <2>1. QueuedPaths(queue)' = QueuedPaths(queue')
      BY DEF QueuedPaths
    <2>2. QED
      BY <1>1, <1>2, <1>3, <1>5, <2>1 DEF PendingIsWorked, Held
  <1>8. QED
    BY <1>6, <1>7 DEF JobsInv

LEMMA KeepJobs ==
  ASSUME JobsInv, NEW S, Keep(S), UNCHANGED <<worker, ui, current, latest>>
  PROVE  JobsInv'
  <1>1. /\ queue' = Only(queue, S)
        /\ pending' = pending \ (QueuedPaths(queue) \ S)
    BY DEF Keep
  <1>2. CacheType /\ PendingIsWorked
    BY DEF JobsInv
  <1>3. queue' \in Seq(JobSet) /\ QueuedPaths(queue') = QueuedPaths(queue) \cap S
    BY <1>1, <1>2, OnlyFacts DEF CacheType
  <1>4. QueuedPaths(queue)' = QueuedPaths(queue')
    BY DEF QueuedPaths
  <1>5. CacheType'
    BY <1>1, <1>2, <1>3, CatalogKept DEF CacheType
  <1>6. PendingIsWorked'
    BY <1>1, <1>2, <1>3, <1>4 DEF PendingIsWorked, Held
  <1>7. QED
    BY <1>5, <1>6 DEF JobsInv

\* The lists of the jobs are cleared together, the one the worker holds aside.
LEMMA ClearJobs ==
  ASSUME JobsInv, queue' = <<>>, pending' = pending \ QueuedPaths(queue),
         UNCHANGED <<worker, ui, current, latest>>
  PROVE  JobsInv'
  <1>1. CacheType /\ PendingIsWorked
    BY DEF JobsInv
  <1>2. QueuedPaths(queue)' = {}
    BY DEF QueuedPaths
  <1>3. CacheType'
    BY <1>1, CatalogKept DEF CacheType
  <1>4. PendingIsWorked'
    BY <1>1, <1>2 DEF PendingIsWorked, Held
  <1>5. QED
    BY <1>3, <1>4 DEF JobsInv

LEMMA TakeJobs == ASSUME JobsInv, Take PROVE JobsInv'
  <1>1. CacheType /\ PendingIsWorked
    BY DEF JobsInv
  <1>2. /\ queue # <<>> /\ queue' = Tail(queue) /\ worker.at = "idle"
        /\ worker' = [Idle EXCEPT !.at = "open", !.job = Head(queue)]
        /\ current' = Head(queue).path
        /\ UNCHANGED <<pending, ui, latest>>
    BY DEF Take, screen
  <1>3. /\ Head(queue) \in JobSet /\ Tail(queue) \in Seq(JobSet)
        /\ QueuedPaths(queue) \subseteq {Head(queue).path} \cup QueuedPaths(Tail(queue))
    BY <1>1, <1>2, HeadPaths DEF CacheType
  <1>4. worker'.at = "open" /\ worker'.job = Head(queue)
    BY <1>2 DEF Idle
  <1>5. CacheType'
    <2>1. worker' \in WorkerState
      BY <1>2, <1>3, IdleTypes DEF WorkerState, WorkerAt
    <2>2. current' \in AnyPath
      BY <1>2, <1>3 DEF JobSet
    <2>3. QED
      BY <1>1, <1>2, <1>3, <2>1, <2>2, CatalogKept DEF CacheType
  <1>6. PendingIsWorked'
    <2>1. QueuedPaths(queue)' = QueuedPaths(Tail(queue))
      BY <1>2 DEF QueuedPaths
    <2>2. Held' = {Head(queue).path}
      BY <1>4 DEF Held
    <2>3. QED
      BY <1>1, <1>2, <1>3, <2>1, <2>2 DEF PendingIsWorked, Held
  <1>7. QED
    BY <1>5, <1>6 DEF JobsInv

LEMMA RequeueJobs == ASSUME JobsInv, Requeue PROVE JobsInv'
  <1>1. CacheType /\ PendingIsWorked
    BY DEF JobsInv
  <1>2. /\ queue' = Append(queue, worker.job) /\ worker.at = "requeue"
        /\ worker' = [worker EXCEPT !.at = "finish"]
        /\ UNCHANGED <<pending, ui, current, latest>>
    BY DEF Requeue, screen, active
  <1>3. worker.job \in JobSet /\ queue' \in Seq(JobSet)
    BY <1>1, <1>2, AppendProperties DEF CacheType, WorkerState, WorkerAt
  <1>4. QueuedPaths(queue)' = QueuedPaths(queue) \cup {worker.job.path}
    <2>1. QueuedPaths(Append(queue, worker.job)) = QueuedPaths(queue) \cup {worker.job.path}
      BY <1>1, <1>3, PathsFacts DEF CacheType
    <2>2. QED
      BY <1>2, <2>1 DEF QueuedPaths
  <1>5. CacheType'
    <2>1. worker' \in WorkerState
      BY <1>1, <1>2 DEF CacheType, WorkerState, WorkerAt
    <2>2. QED
      BY <1>1, <1>2, <1>3, <2>1, CatalogKept DEF CacheType
  <1>6. PendingIsWorked'
    BY <1>1, <1>2, <1>4 DEF PendingIsWorked, Held
  <1>7. QED
    BY <1>5, <1>6 DEF JobsInv

\* A step of the worker that gives up no job with a place among the pending.
LEMMA WorkerGoesOn ==
  ASSUME JobsInv, worker' \in WorkerState, current' \in AnyPath, UNCHANGED <<queue, ui, latest>>,
         pending' \subseteq pending, (pending' \cap Held) \subseteq Held'
  PROVE  JobsInv'
  <1>1. CacheType /\ PendingIsWorked
    BY DEF JobsInv
  <1>2. CacheType'
    BY <1>1, CatalogKept DEF CacheType
  <1>3. QueuedPaths(queue)' = QueuedPaths(queue)
    BY DEF QueuedPaths
  <1>4. PendingIsWorked'
    BY <1>1, <1>3 DEF PendingIsWorked
  <1>5. QED
    BY <1>2, <1>4 DEF JobsInv

LEMMA WorkerJobs == ASSUME JobsInv, WorkerStep PROVE JobsInv'
  <1>1. worker \in WorkerState /\ current \in AnyPath
    BY DEF JobsInv, CacheType
  <1> USE DEF Held
  <1>2. CASE OpenFile \/ Unlink \/ Rename \/ Discard \/ \E ok \in BOOLEAN : Fetched(ok) \/ WriteNormalized(ok)
    <2>1. /\ \E at \in {"body", "discard", "normalize", "invalid", "unlink", "rename", "valid", "drop"} :
               worker' = [worker EXCEPT !.at = at]
          /\ worker.at \notin {"idle", "sweep", "forget", "finish"}
          /\ UNCHANGED <<queue, pending, ui, latest, current>>
      BY <1>2 DEF OpenFile, Unlink, Rename, Discard, Fetched, WriteNormalized, lists, active, screen
    <2>2. worker' \in WorkerState /\ Held' = Held
      BY <1>1, <2>1 DEF WorkerState, WorkerAt
    <2>3. QED
      BY <1>1, <2>1, <2>2, WorkerGoesOn
  <1>3. CASE Settle
    <2>1. /\ \E at \in {"discard", "publish", "fail"} : worker' = [worker EXCEPT !.at = at]
          /\ worker.at \in {"valid", "invalid"} /\ current' = NoPath
          /\ UNCHANGED <<queue, pending, ui, latest>>
      BY <1>3 DEF Settle, lists, screen
    <2>2. worker' \in WorkerState /\ Held' = Held /\ current' \in AnyPath
      BY <1>1, <2>1 DEF WorkerState, WorkerAt, AnyPath
    <2>3. QED
      BY <1>1, <2>1, <2>2, WorkerGoesOn
  <1>4. CASE Fail
    <2>1. /\ worker' = [worker EXCEPT !.at = "requeue", !.job.attempt = @ + 1]
             \/ worker' = [worker EXCEPT !.at = "giveup"]
          /\ worker.at = "fail" /\ UNCHANGED <<queue, pending, ui, latest, current>>
      BY <1>4 DEF Fail, lists, active, screen
    <2>2. worker' \in WorkerState /\ Held' = Held
      <3>1. worker.job \in JobSet /\ worker.job.attempt + 1 \in Nat
        BY <1>1 DEF WorkerState, JobSet
      <3>2. [worker.job EXCEPT !.attempt = @ + 1] \in JobSet
        BY <3>1 DEF JobSet
      <3>3. CASE worker' = [worker EXCEPT !.at = "giveup"]
        BY <1>1, <2>1, <3>3 DEF WorkerState, WorkerAt
      <3>4. CASE worker' = [worker EXCEPT !.at = "requeue", !.job.attempt = @ + 1]
        <4>1. worker' = [[worker EXCEPT !.at = "requeue"] EXCEPT !.job = [worker.job EXCEPT !.attempt = @ + 1]]
          BY <1>1, <3>4 DEF WorkerState
        <4>2. worker'.job.path = worker.job.path
          BY <1>1, <3>1, <4>1 DEF WorkerState, JobSet
        <4>3. QED
          BY <1>1, <2>1, <3>2, <4>1, <4>2 DEF WorkerState, WorkerAt
      <3>5. QED
        BY <2>1, <3>3, <3>4
    <2>3. QED
      BY <1>1, <2>1, <2>2, WorkerGoesOn
  <1>5. CASE Drop
    <2>1. /\ pending' = pending \ {worker.job.path} /\ current' = NoPath /\ worker' = Idle
          /\ worker.at = "drop" /\ UNCHANGED <<queue, ui, latest>>
      BY <1>5 DEF Drop, screen
    <2>2. QED
      BY <1>1, <2>1, IdleTypes, WorkerGoesOn DEF AnyPath
  <1>6. CASE MarkReady \/ MarkFailed
    <2>1. /\ \E at \in {"sweep", "finish"} : worker' = [worker EXCEPT !.at = at]
          /\ worker.at \in {"publish", "giveup"} /\ pending' = pending \ {worker.job.path}
          /\ UNCHANGED <<queue, ui, latest, current>>
      BY <1>6 DEF MarkReady, MarkFailed, active, screen
    <2>2. worker' \in WorkerState
      BY <1>1, <2>1 DEF WorkerState, WorkerAt
    <2>3. QED
      BY <1>1, <2>1, <2>2, WorkerGoesOn
  <1>7. CASE WorkerSweep \/ WorkerForget \/ Finish
    <2>1. /\ worker.at \in {"sweep", "forget", "finish"} /\ pending' \subseteq pending
          /\ UNCHANGED <<queue, ui, latest, current>>
      BY <1>7 DEF WorkerSweep, WorkerForget, Finish, Erase, lists, active, screen
    <2>2. worker' \in WorkerState
      <3>1. Present(worker.job.path, NoPath) \subseteq Paths
        BY DEF Present, Siblings
      <3>2. QED
        BY <1>1, <1>7, <3>1, IdleTypes DEF WorkerSweep, WorkerForget, Finish, WorkerState, WorkerAt
    <2>3. QED
      BY <1>1, <2>1, <2>2, WorkerGoesOn
  <1>8. QED
    BY <1>2, <1>3, <1>4, <1>5, <1>6, <1>7, TakeJobs, RequeueJobs DEF WorkerStep

\* A step of the drawing thread that adds nothing to the lists of the jobs.
LEMMA UiGoesOn ==
  ASSUME JobsInv, ui' \in UiState, pending' \subseteq pending, UNCHANGED <<queue, worker, current>>,
         CatalogOK'
  PROVE  JobsInv'
  <1>1. CacheType /\ PendingIsWorked
    BY DEF JobsInv
  <1>2. QueuedPaths(queue)' = QueuedPaths(queue) /\ Held' = Held
    BY DEF QueuedPaths, Held
  <1>3. CacheType'
    BY <1>1 DEF CacheType
  <1>4. PendingIsWorked'
    BY <1>1, <1>2 DEF PendingIsWorked
  <1>5. QED
    BY <1>3, <1>4 DEF JobsInv

LEMMA UiJobs == ASSUME JobsInv, UiStep PROVE JobsInv'
  <1>1. ui \in UiState /\ current \in AnyPath /\ CatalogOK
    BY DEF JobsInv, CacheType
  <1>2. CASE Stat \/ Adopt \/ Decode \/ Snap
    <2>1. UNCHANGED <<queue, pending, worker, current, latest>>
      BY <1>2 DEF Stat, Adopt, Decode, Snap, lists, active, screen
    <2>2. ui' \in UiState
      BY <1>1, <1>2, IdleTypes DEF Stat, Adopt, Decode, Snap, UiState, UiAt
    <2>3. QED
      BY <1>1, <2>1, <2>2, UiGoesOn, CatalogKept
  <1>3. CASE Sweep \/ Forget
    <2>1. UNCHANGED <<queue, worker, current, latest>> /\ pending' \subseteq pending
      BY <1>3 DEF Sweep, Forget, Erase, lists, active, screen
    <2>2. ui' \in UiState
      <3>1. Present(ui.path, ui.active) \subseteq Paths
        BY DEF Present, Siblings
      <3>2. QED
        BY <1>1, <1>3, <3>1 DEF Sweep, Forget, UiState, UiAt
    <2>3. QED
      BY <1>1, <2>1, <2>2, UiGoesOn, CatalogKept
  <1>4. QED
    BY <1>2, <1>3, EnqueueJobs DEF UiStep

LEMMA UserJobs ==
  ASSUME JobsInv, UserStep \/ SyncImages \/ Linger \/ \E p \in Paths : Cool(p) \/ RefreshCatalog(p)
  PROVE  JobsInv'
  <1>1. ui \in UiState /\ current \in AnyPath /\ CatalogOK
    BY DEF JobsInv, CacheType
  <1>2. CASE StopMoving \/ Resume \/ SetNetworkPaused \/ Linger \/ \E p \in Paths : Cool(p)
    <2>1. UNCHANGED <<queue, pending, worker, ui, current, latest>>
      BY <1>2 DEF StopMoving, Resume, SetNetworkPaused, Linger, Cool, lists, active, screen
    <2>2. QED
      BY <1>1, <2>1, UiGoesOn, CatalogKept
  <1>3. CASE \E p \in Paths : RefreshCatalog(p)
    <2>1. PICK p \in Paths : /\ latest' = [latest EXCEPT ![p[1]] = p[2]]
                             /\ UNCHANGED <<queue, pending, worker, ui, current>>
      BY <1>3 DEF RefreshCatalog, lists, active
    <2>2. p[1] \in Images /\ p = <<p[1], p[2]>>
      BY PathsAssumption DEF Images
    <2>3. \A i \in Images : latest'[i] = IF i = p[1] THEN p[2] ELSE latest[i]
      BY <1>1, <2>1, <2>2 DEF CatalogOK
    <2>4. CatalogOK'
      BY <1>1, <2>1, <2>2, <2>3 DEF CatalogOK, PathOf
    <2>5. QED
      BY <1>1, <2>1, <2>4, UiGoesOn
  <1>4. CASE SyncImages \/ \E S \in SUBSET Images : StartMoving(S)
    <2>1. UNCHANGED <<worker, ui, current, latest>> /\ \E S : Keep(S)
      BY <1>4 DEF SyncImages, StartMoving, screen
    <2>2. QED
      BY <2>1, KeepJobs
  <1>5. CASE Suspend \/ \E S \in SUBSET Images : SwitchCatalog(S)
    <2>1. /\ queue' = <<>> /\ pending' = pending \ QueuedPaths(queue)
          /\ UNCHANGED <<worker, ui, current, latest>>
      BY <1>5 DEF Suspend, SwitchCatalog, active
    <2>2. QED
      BY <2>1, ClearJobs
  <1>6. QED
    BY <1>2, <1>3, <1>4, <1>5 DEF UserStep

LEMMA CutJobs == ASSUME JobsInv, PowerCut PROVE JobsInv'
  <1>1. queue' = <<>> /\ pending' = {} /\ worker' = Idle /\ ui' = Resting /\ current' = NoPath
        /\ UNCHANGED latest
    BY DEF PowerCut
  <1>2. CatalogOK'
    BY <1>1, CatalogKept DEF JobsInv, CacheType
  <1>3. queue' \in Seq(JobSet) /\ current' \in AnyPath
    BY <1>1 DEF AnyPath
  <1>4. QED
    BY <1>1, <1>2, <1>3, IdleTypes DEF JobsInv, CacheType, PendingIsWorked

LEMMA CacheNextInv == JobsInv /\ [CacheNext]_cacheVars => JobsInv'
  <1> SUFFICES ASSUME JobsInv, [CacheNext]_cacheVars PROVE JobsInv'
    OBVIOUS
  <1>1. CASE UNCHANGED cacheVars
    <2>1. UNCHANGED <<queue, pending, worker, ui, current, latest>>
      BY <1>1 DEF cacheVars, lists, active, screen
    <2>2. QED
      BY <2>1, UiGoesOn, CatalogKept DEF JobsInv, CacheType
  <1>2. QED
    BY <1>1, LookupJobs, UiJobs, WorkerJobs, UserJobs, CutJobs DEF CacheNext

\* Every pending path has its job, in the queue or in the worker's hands, through retries,
\* cancellations, prunings by either thread, catalog updates and power cuts.
THEOREM PendingHasJob == CacheSpec => []PendingIsWorked
  <1>1. JobsInv => PendingIsWorked
    BY DEF JobsInv
  <1>2. QED
    BY <1>1, CacheInitInv, CacheNextInv, PTL DEF CacheSpec

-----------------------------------------------------------------------------
(* Image cache: one job per file *)

Queued == QueuedPaths(queue)
Latest == {PathOf(i) : i \in Images}
OnDisk == {q \in Paths : files[q] # "none"}
Working == Held \cup (IF worker.at = "sweep" THEN {worker.job.path} ELSE {})
Looking == ui.at \in {"stat", "adopt", "enqueue"}
Pruning == ui.at \in {"adopt", "snap", "sweep", "forget"}

\* The lists do not overlap, and what is queued or failed has no file.
Apart ==
  /\ Distinct(queue) /\ Held \cap Queued = {}
  /\ Queued \cup Held \subseteq pending
  /\ ready \cap pending = {} /\ failed \cap (pending \cup ready) = {}
  /\ (Queued \cup failed) \cap OnDisk = {}
  /\ worker.at \in {"drop", "requeue", "giveup"} => worker.job.path \notin OnDisk

\* What request() saw under the mutex still holds when it comes back to it.
Asks ==
  /\ Looking => ui.path \in Paths \ (ready \cup pending \cup failed)
  /\ ui.at = "enqueue" => ui.path \notin OnDisk

\* What a prune removed has no job, so the lists may forget it.
Forgets ==
  /\ ui.at = "forget" => ui.gone \cap (Queued \cup Held) = {}
  /\ worker.at = "forget" => worker.gone \cap (Queued \cup OnDisk) = {}

\* Before the first restart every file is ready or in the worker's hands: none is adopted.
Fresh ==
  /\ OnDisk \subseteq ready \cup Held
  /\ ~Pruning
  /\ worker.at = "forget" => worker.gone \subseteq ready

\* With one change of URL at most, only the paths in O are not the newest of their pictures.
Replaced(O) ==
  /\ O \cap Latest = {} /\ (refreshes = 0 => O = {})
  /\ OnDisk \cup ready \cup pending \cup failed \cup Working \subseteq Latest \cup O
  /\ ui.at # "rest" => ui.path \in Latest
  /\ \A o \in O \cap (Working \cup Queued) :
       /\ \A n \in OnDisk \cap Latest : n[1] = o[1] => n \in ready \cup Held
       /\ Pruning => ui.path[1] # o[1]
  /\ ui.at = "forget" => ui.gone \subseteq O
  /\ worker.at = "forget" => worker.gone \subseteq Latest \cup O /\ worker.gone \cap Latest \subseteq ready

Counts == refreshes \in Nat /\ crashes \in Nat /\ files = [q \in Paths |-> files[q]]
Excepted == ~(refreshes <= 1 \/ crashes = 0)

SafeWith(O) ==
  /\ Apart /\ Asks /\ Forgets
  /\ crashes = 0 => Fresh
  /\ refreshes <= 1 => Replaced(O)
  /\ refreshes <= 1 \/ crashes = 0

OneInv == JobsInv /\ Counts /\ (Excepted \/ \E O : SafeWith(O))

LEMMA SameQueue == UNCHANGED queue => Queued' = Queued /\ Distinct(queue)' = Distinct(queue)
  BY DEF Queued, QueuedPaths, Distinct
LEMMA SameWorker == UNCHANGED worker => Held' = Held /\ Working' = Working
  BY DEF Held, Working
LEMMA SameFiles == UNCHANGED files => OnDisk' = OnDisk
  BY DEF OnDisk
LEMMA SameLatest == UNCHANGED latest => Latest' = Latest
  BY DEF Latest, PathOf
LEMMA SameUi == UNCHANGED ui => Looking' = Looking /\ Pruning' = Pruning
  BY DEF Looking, Pruning

\* A step of the user, of the clock or of a settled frame: jobs leave the queue, no other list changes.
LEMMA CancelSafe ==
  ASSUME NEW O, SafeWith(O), Distinct(queue)', Queued' \subseteq Queued,
         pending' = pending \ (Queued \ Queued'),
         UNCHANGED <<files, ready, failed, worker, ui, latest, refreshes, crashes>>
  PROVE  SafeWith(O)'
  <1>1. /\ Held' = Held /\ Working' = Working /\ OnDisk' = OnDisk /\ Latest' = Latest
        /\ Looking' = Looking /\ Pruning' = Pruning
    BY SameWorker, SameFiles, SameLatest, SameUi
  <1>2. Apart /\ Asks /\ Forgets
    BY DEF SafeWith
  <1>3. Apart'
    BY <1>1, <1>2 DEF Apart
  <1>4. Asks' /\ Forgets'
    BY <1>1, <1>2 DEF Asks, Forgets
  <1>5. Fresh => Fresh'
    BY <1>1 DEF Fresh
  <1>6. Replaced(O) => Replaced(O)'
    BY <1>1 DEF Replaced
  <1>7. QED
    BY <1>3, <1>4, <1>5, <1>6 DEF SafeWith

LEMMA LookupSafe ==
  ASSUME JobsInv, NEW O, SafeWith(O), NEW i \in Images, Lookup(i)
  PROVE  SafeWith(O)'
  <1> DEFINE p == PathOf(i)
             old == QueuedPaths(queue) \cap Siblings(p)
             again == p \in failed /\ p \notin (ready \cup pending \cup cooling)
             rest == Without(queue, old)
  <1>1. /\ queue' = rest \o (IF again THEN <<Job(p, 0)>> ELSE <<>>)
        /\ pending' = (pending \ old) \cup (IF again THEN {p} ELSE {})
        /\ failed' = IF again THEN failed \ {p} ELSE failed
        /\ ui.at = "rest"
        /\ ui' = IF NextStop(p) = "rest" THEN ui ELSE [ui EXCEPT !.at = NextStop(p), !.path = p]
        /\ UNCHANGED <<files, ready, worker, latest, refreshes, crashes>>
    BY DEF Lookup, screen, bounds
  <1>2. queue \in Seq(JobSet) /\ ui \in UiState /\ p \in Paths /\ Job(p, 0) \in JobSet /\ Job(p, 0).path = p
    BY DEF JobsInv, CacheType, CatalogOK, AnyPath, JobSet, Job
  <1>3. Apart /\ Asks /\ Forgets
    BY DEF SafeWith
  <1>4. rest \in Seq(JobSet) /\ QueuedPaths(rest) = Queued \ old /\ Distinct(rest)
    BY <1>2, <1>3, OnlyFacts DEF Without, Apart, Queued
  <1> HIDE DEF rest
  <1>5. Distinct(queue)' /\ Queued' = (Queued \ old) \cup (IF again THEN {p} ELSE {})
    <2>1. Queued' = QueuedPaths(queue') /\ (Distinct(queue'))  = Distinct(queue)'
      BY DEF Queued, QueuedPaths, Distinct
    <2>2. CASE again
      <3> DEFINE j == Job(p, 0)
      <3>1. j \in JobSet /\ j.path = p /\ p \notin Queued \ old
        BY <1>2, <1>3, <2>2 DEF Apart
      <3>2. queue' = rest \o <<j>>
        BY <1>1, <2>2
      <3> HIDE DEF j
      <3>3. queue' = Append(rest, j)
        BY <1>4, <3>1, <3>2, AppendIsConcat
      <3>4. Distinct(queue') /\ QueuedPaths(queue') = (Queued \ old) \cup {p}
        BY <1>4, <3>1, <3>3, DistinctAppend, PathsFacts
      <3>5. QED
        BY <2>1, <2>2, <3>4
    <2>3. CASE ~again
      <3>1. queue' = rest
        BY <1>1, <1>4, <2>3, ConcatEmptySeq
      <3>2. QED
        BY <1>4, <2>1, <2>3, <3>1
    <2>4. QED
      BY <2>2, <2>3
  <1>6. /\ Held' = Held /\ Working' = Working /\ OnDisk' = OnDisk /\ Latest' = Latest
        /\ p \in Latest /\ old \subseteq Queued
    BY <1>1, SameWorker, SameFiles, SameLatest DEF Latest, Queued
  <1>7. /\ ui' = ui \/ (ui'.at \in {"decode", "stat"} /\ ui'.path = p)
        /\ ui'.at = "stat" => p \notin ready \cup pending \cup failed
    BY <1>1, <1>2 DEF NextStop, UiState
  <1> HIDE DEF p, old, again
  <1>8. again => p \in failed /\ p \notin ready \cup pending
    BY DEF again
  <1>9. Apart'
    BY <1>1, <1>3, <1>5, <1>6, <1>8 DEF Apart
  <1>10. Asks'
    <2>1. Looking' => ui'.at = "stat" /\ ui'.path = p /\ p \notin ready \cup pending \cup failed
      BY <1>1, <1>7 DEF Looking
    <2>2. ui'.at # "enqueue"
      BY <1>1, <1>7
    <2>3. p \notin failed => pending' \subseteq pending /\ failed' = failed
      BY <1>1, <1>8
    <2>4. QED
      BY <1>1, <1>2, <2>1, <2>2, <2>3 DEF Asks
  <1>11. Fresh => Fresh'
    BY <1>1, <1>6, <1>7 DEF Fresh, Pruning
  <1>12. Replaced(O) => Replaced(O)'
    <2> SUFFICES ASSUME Replaced(O) PROVE Replaced(O)'
      OBVIOUS
    <2>1. O \cap (Working' \cup Queued') \subseteq O \cap (Working \cup Queued)
      BY <1>5, <1>6 DEF Replaced
    <2>2. /\ pending' \cup failed' \subseteq Latest \cup O
          /\ ui'.at # "rest" => ui'.path \in Latest
          /\ ~Pruning' /\ ui'.at # "forget"
      BY <1>1, <1>6, <1>7 DEF Replaced, Pruning
    <2>3. QED
      BY <1>1, <1>6, <2>1, <2>2 DEF Replaced
  <1>13. worker.at = "forget" => p \notin worker.gone \/ p \in ready
    BY <1>6 DEF SafeWith, Fresh, Replaced
  <1>14. Forgets'
    BY <1>1, <1>3, <1>5, <1>6, <1>7, <1>8, <1>13 DEF Forgets
  <1>15. QED
    BY <1>1, <1>9, <1>10, <1>11, <1>12, <1>14 DEF SafeWith

LEMMA StatSafe ==
  ASSUME JobsInv, Counts, NEW O, SafeWith(O), Stat
  PROVE  SafeWith(O)'
  <1>1. /\ ui.at = "stat" /\ ui'.at \in {"adopt", "enqueue"} /\ ui'.path = ui.path
        /\ OnDisk' \subseteq OnDisk
        /\ ui'.at = "enqueue" => ui.path \notin OnDisk'
        /\ ui'.at = "adopt" => files[ui.path] # "none" /\ OnDisk' = OnDisk
        /\ UNCHANGED <<queue, pending, ready, failed, worker, latest, refreshes, crashes>>
    BY DEF Stat, lists, screen, bounds, JobsInv, CacheType, UiState, Counts, OnDisk
  <1>2. /\ Held' = Held /\ Working' = Working /\ Queued' = Queued /\ Latest' = Latest
        /\ Distinct(queue)' = Distinct(queue)
    BY <1>1, SameQueue, SameWorker, SameLatest
  <1>3. Apart /\ Asks /\ Forgets /\ ui.path \in Paths \ (ready \cup pending \cup failed)
    BY <1>1 DEF SafeWith, Asks, Looking
  <1>4. Apart' /\ Asks' /\ Forgets'
    BY <1>1, <1>2, <1>3 DEF Apart, Asks, Forgets, Looking
  <1>5. ui'.at = "adopt" => ui.path \in OnDisk
    BY <1>1, <1>3 DEF OnDisk
  <1>6. Fresh => Fresh'
    BY <1>1, <1>2, <1>3, <1>5 DEF Fresh, Pruning, Apart
  <1>7. Replaced(O) => Replaced(O)'
    BY <1>1, <1>2, <1>3, <1>5 DEF Replaced, Pruning, Apart
  <1>8. QED
    BY <1>1, <1>4, <1>6, <1>7 DEF SafeWith

LEMMA AdoptSafe ==
  ASSUME JobsInv, NEW O, SafeWith(O), Adopt
  PROVE  SafeWith(O)'
  <1>1. /\ ui.at = "adopt" /\ ui'.at = "snap" /\ ui'.path = ui.path /\ ready' = ready \cup {ui.path}
        /\ UNCHANGED <<files, queue, pending, failed, worker, latest, refreshes, crashes>>
    BY DEF Adopt, screen, bounds, JobsInv, CacheType, UiState
  <1>2. /\ Held' = Held /\ Working' = Working /\ Queued' = Queued /\ Latest' = Latest
        /\ OnDisk' = OnDisk /\ Distinct(queue)' = Distinct(queue)
    BY <1>1, SameQueue, SameWorker, SameLatest, SameFiles
  <1>3. Apart /\ Asks /\ Forgets /\ ui.path \notin ready \cup pending \cup failed
    BY <1>1 DEF SafeWith, Asks, Looking
  <1>4. Apart' /\ Asks' /\ Forgets'
    BY <1>1, <1>2, <1>3 DEF Apart, Asks, Forgets, Looking
  <1>5. ~Fresh
    BY <1>1 DEF Fresh, Pruning
  <1>6. Replaced(O) => Replaced(O)'
    BY <1>1, <1>2 DEF Replaced, Pruning
  <1>7. QED
    BY <1>1, <1>4, <1>5, <1>6 DEF SafeWith

LEMMA EnqueueSafe ==
  ASSUME JobsInv, NEW O, SafeWith(O), Enqueue
  PROVE  SafeWith(O)'
  <1> DEFINE p == ui.path
             full == Len(queue) >= MaxQueue
             dropped == IF full THEN {Last(queue).path} ELSE {}
             kept == IF full THEN Front(queue) ELSE queue
             add == ~paused /\ p \notin QueuedPaths(queue) /\ p \notin pending
  <1>1. /\ ui.at = "enqueue" /\ ui' = Resting
        /\ queue' = IF add THEN <<Job(p, 0)>> \o kept ELSE queue
        /\ pending' = IF add THEN (pending \ dropped) \cup {p} ELSE pending
        /\ UNCHANGED <<files, ready, failed, worker, latest, refreshes, crashes>>
    BY DEF Enqueue, active, screen, bounds
  <1>2. queue \in Seq(JobSet) /\ Job(p, 0) \in JobSet /\ Job(p, 0).path = p
    BY DEF JobsInv, CacheType, UiState, JobSet, Job
  <1>3. Apart /\ Asks /\ Forgets /\ p \notin ready \cup pending \cup failed \cup OnDisk
    BY <1>1 DEF SafeWith, Asks, Looking
  <1>4. /\ kept \in Seq(JobSet) /\ Distinct(kept)
        /\ QueuedPaths(kept) = Queued \ dropped /\ dropped \subseteq Queued
    <2>1. CASE ~full
      BY <1>2, <1>3, <2>1 DEF Apart, Queued
    <2>2. CASE full
      <3>1. Len(queue) >= 1
        BY <1>2, <2>2, CacheAssumption, LenProperties
      <3>2. /\ Front(queue) \in Seq(JobSet) /\ Distinct(Front(queue))
            /\ QueuedPaths(Front(queue)) = Queued \ {Last(queue).path}
        BY <1>2, <1>3, <3>1, DistinctFront DEF Apart, Queued
      <3>3. Last(queue).path \in Queued
        <4>1. Last(queue) = queue[Len(queue)] /\ Len(queue) \in Nat \ {0}
          BY <1>2, <3>1, FrontFacts, Zenon
        <4>3. PICK n \in Nat \ {0} : n = Len(queue)
          BY <4>1
        <4>2. QED
          BY <1>2, <4>1, <4>3, PathIn DEF Queued
      <3>4. QED
        BY <2>2, <3>2, <3>3
    <2>3. QED
      BY <2>1, <2>2
  <1>5. add \/ (~add /\ queue' = queue /\ pending' = pending)
    BY <1>1
  <1> HIDE DEF kept, dropped
  <1>6. /\ Distinct(queue)'
        /\ Queued' = IF add THEN (Queued \ dropped) \cup {p} ELSE Queued
    <2>1. CASE ~add
      BY <1>3, <1>5, <2>1, SameQueue DEF Apart
    <2>2. CASE add
      <3> DEFINE j == Job(p, 0)
      <3>1. j \in JobSet /\ j.path = p /\ p \notin QueuedPaths(kept) /\ queue' = <<j>> \o kept
        BY <1>1, <1>2, <1>4, <2>2 DEF Queued
      <3> HIDE DEF j
      <3>2. Distinct(<<j>> \o kept) /\ QueuedPaths(<<j>> \o kept) = {p} \cup QueuedPaths(kept)
        <4> DEFINE one == <<j>>
        <4>1. one \in Seq(JobSet)
          BY <3>1
        <4>2. QueuedPaths(one) = {p}
          BY <3>1 DEF QueuedPaths
        <4> HIDE DEF one
        <4>3. QueuedPaths(one \o kept) = {p} \cup QueuedPaths(kept)
          BY <1>4, <4>1, <4>2, ConcatPaths
        <4>4. QED
          BY <1>4, <3>1, <4>3, DistinctPush DEF one
      <3>3. Queued' = QueuedPaths(queue') /\ Distinct(queue)' = Distinct(queue')
        BY DEF Queued, QueuedPaths, Distinct
      <3>4. QED
        BY <1>4, <2>2, <3>1, <3>2, <3>3
    <2>3. QED
      BY <2>1, <2>2
  <1>7. /\ Held' = Held /\ Working' = Working /\ OnDisk' = OnDisk /\ Latest' = Latest
        /\ ui'.at = "rest"
    BY <1>1, SameWorker, SameFiles, SameLatest DEF Resting
  <1> HIDE DEF p, add
  <1>8. Apart'
    BY <1>1, <1>3, <1>4, <1>6, <1>7 DEF Apart
  <1>9. Asks'
    BY <1>7 DEF Asks, Looking
  <1>10. Fresh => Fresh'
    BY <1>1, <1>7 DEF Fresh, Pruning
  <1>11. Replaced(O) => p \in Latest
    BY <1>1 DEF Replaced, p
  <1>12. Replaced(O) => Replaced(O)'
    <2> SUFFICES ASSUME Replaced(O) PROVE Replaced(O)'
      OBVIOUS
    <2>1. O \cap (Working' \cup Queued') \subseteq O \cap (Working \cup Queued)
      BY <1>6, <1>7, <1>11 DEF Replaced
    <2>2. pending' \subseteq Latest \cup O
      BY <1>1, <1>11 DEF Replaced
    <2>3. ~Pruning'
      BY <1>7 DEF Pruning
    <2>4. QED
      BY <1>1, <1>7, <2>1, <2>2, <2>3 DEF Replaced
  <1>13. worker.at = "forget" => p \notin worker.gone
    BY <1>3, <1>11 DEF SafeWith, Fresh, Replaced
  <1>14. Forgets'
    BY <1>1, <1>3, <1>6, <1>7, <1>13 DEF Forgets
  <1>15. QED
    BY <1>1, <1>8, <1>9, <1>10, <1>12, <1>14 DEF SafeWith

LEMMA RestSafe ==
  ASSUME JobsInv, NEW O, SafeWith(O), Decode \/ Snap
  PROVE  SafeWith(O)'
  <1>1. /\ UNCHANGED <<files, queue, pending, ready, failed, worker, latest, refreshes, crashes>>
        /\ ui'.at = "rest" \/ (ui.at = "snap" /\ ui'.at = "sweep" /\ ui'.path = ui.path)
    <2>1. ui \in UiState
      BY DEF JobsInv, CacheType
    <2>2. CASE Decode
      BY <2>2 DEF Decode, lists, bounds, Resting
    <2>3. CASE Snap
      BY <2>1, <2>3 DEF Snap, lists, bounds, screen, UiState
    <2>4. QED
      BY <2>2, <2>3
  <1>2. /\ Held' = Held /\ Working' = Working /\ Queued' = Queued /\ Latest' = Latest
        /\ OnDisk' = OnDisk /\ Distinct(queue)' = Distinct(queue)
    BY <1>1, SameQueue, SameWorker, SameLatest, SameFiles
  <1>3. ui'.at \notin {"stat", "adopt", "enqueue", "forget"} /\ (Pruning' => Pruning)
    BY <1>1 DEF Pruning
  <1>4. Apart' /\ Asks' /\ Forgets'
    BY <1>1, <1>2, <1>3 DEF SafeWith, Apart, Asks, Forgets, Looking
  <1>5. Fresh => Fresh'
    BY <1>1, <1>2, <1>3 DEF Fresh
  <1>6. Replaced(O) => Replaced(O)'
    <2> SUFFICES ASSUME Replaced(O) PROVE Replaced(O)'
      OBVIOUS
    <2>1. (ui'.at # "rest" => ui'.path \in Latest) /\ (Pruning' => ui'.path = ui.path)
      BY <1>1 DEF Replaced, Pruning
    <2>2. QED
      BY <1>1, <1>2, <1>3, <2>1 DEF Replaced
  <1>7. QED
    BY <1>1, <1>4, <1>5, <1>6 DEF SafeWith

LEMMA LatestIsOne == \A n, m \in Latest : n[1] = m[1] => n = m
  BY DEF Latest, PathOf

LEMMA SweepSafe ==
  ASSUME JobsInv, NEW O, SafeWith(O), Sweep
  PROVE  SafeWith(O)'
  <1> DEFINE gone == Present(ui.path, ui.active)
  <1>1. /\ ui.at = "sweep" /\ ui'.at \in {"decode", "forget"} /\ ui'.path = ui.path
        /\ ui'.at = "forget" => ui'.gone = gone
        /\ files' = [q \in Paths |-> IF q \in gone THEN "none" ELSE files[q]]
        /\ UNCHANGED <<queue, pending, ready, failed, worker, latest, refreshes, crashes>>
    BY DEF Sweep, lists, bounds, screen, JobsInv, CacheType, UiState
  <1>2. gone \subseteq OnDisk /\ \A q \in gone : q[1] = ui.path[1] /\ q # ui.path
    BY DEF Present, Siblings, OnDisk
  <1>3. OnDisk' = OnDisk \ gone
    BY <1>1 DEF OnDisk
  <1> HIDE DEF gone
  <1>4. /\ Held' = Held /\ Working' = Working /\ Queued' = Queued /\ Latest' = Latest
        /\ Distinct(queue)' = Distinct(queue)
    BY <1>1, SameQueue, SameWorker, SameLatest
  <1>5. Apart /\ Forgets
    BY DEF SafeWith
  <1>6. ~Fresh /\ Pruning /\ ~Looking'
    BY <1>1 DEF Fresh, Pruning, Looking
  <1>7. Replaced(O) /\ refreshes <= 1
    BY <1>6 DEF SafeWith
  <1>8. gone \subseteq O
    BY <1>1, <1>2, <1>7, LatestIsOne DEF Replaced
  <1>9. gone \cap (Held \cup Working \cup Queued) = {}
    <2>1. \A g \in gone : g \notin Working \cup Queued
      BY <1>2, <1>6, <1>7, <1>8 DEF Replaced
    <2>2. QED
      BY <2>1 DEF Working
  <1>10. Apart'
    BY <1>1, <1>3, <1>4, <1>5 DEF Apart
  <1>11. Asks'
    BY <1>1, <1>6 DEF Asks
  <1>12. Forgets'
    BY <1>1, <1>3, <1>4, <1>5, <1>9 DEF Forgets
  <1>13. Replaced(O)'
    BY <1>1, <1>3, <1>4, <1>6, <1>7, <1>8 DEF Replaced
  <1>14. crashes # 0
    BY <1>6 DEF SafeWith
  <1>15. QED
    BY <1>1, <1>7, <1>10, <1>11, <1>12, <1>13, <1>14 DEF SafeWith

LEMMA ForgetSafe ==
  ASSUME JobsInv, NEW O, SafeWith(O), Forget
  PROVE  SafeWith(O)'
  <1>1. /\ ui.at = "forget" /\ ui'.at = "decode" /\ ui'.path = ui.path
        /\ ready' = ready \ ui.gone /\ failed' = failed \ ui.gone /\ pending' = pending \ ui.gone
        /\ UNCHANGED <<files, queue, worker, latest, refreshes, crashes>>
    BY DEF Forget, Erase, active, bounds, screen, JobsInv, CacheType, UiState
  <1>2. /\ Held' = Held /\ Working' = Working /\ Queued' = Queued /\ Latest' = Latest
        /\ OnDisk' = OnDisk /\ Distinct(queue)' = Distinct(queue)
    BY <1>1, SameQueue, SameWorker, SameLatest, SameFiles
  <1>3. Apart /\ Forgets /\ ui.gone \cap (Queued \cup Held) = {}
    BY <1>1 DEF SafeWith, Forgets
  <1>4. ~Fresh /\ ~Looking' /\ ~Pruning'
    BY <1>1 DEF Fresh, Pruning, Looking
  <1>5. Replaced(O) /\ refreshes <= 1 /\ crashes # 0
    BY <1>4 DEF SafeWith
  <1>6. ui.gone \cap Latest = {}
    BY <1>1, <1>5 DEF Replaced
  <1>7. Apart'
    BY <1>1, <1>2, <1>3 DEF Apart
  <1>8. Asks' /\ Forgets'
    BY <1>1, <1>2, <1>3, <1>4 DEF Asks, Forgets
  <1>9. Replaced(O)'
    BY <1>1, <1>2, <1>4, <1>5, <1>6 DEF Replaced
  <1>10. QED
    BY <1>1, <1>5, <1>7, <1>8, <1>9 DEF SafeWith

\* The worker goes on with its job; only the job's own file may appear.
LEMMA MovesSafe ==
  ASSUME NEW O, SafeWith(O),
         worker.at \notin {"idle", "sweep", "forget", "finish"},
         worker'.at \notin {"idle", "sweep", "forget", "finish"},
         worker'.job.path = worker.job.path,
         OnDisk' \subseteq OnDisk \cup {worker.job.path},
         worker'.at \in {"drop", "requeue", "giveup"} => worker.job.path \notin OnDisk',
         UNCHANGED <<queue, pending, ready, failed, ui, latest, refreshes, crashes>>
  PROVE  SafeWith(O)'
  <1>1. /\ Held = {worker.job.path} /\ Held' = Held /\ Working' = Working
    BY DEF Held, Working
  <1>2. /\ Queued' = Queued /\ Latest' = Latest /\ Looking' = Looking /\ Pruning' = Pruning
        /\ Distinct(queue)' = Distinct(queue) /\ OnDisk' \subseteq OnDisk \cup Held
    BY <1>1, SameQueue, SameLatest, SameUi
  <1>3. Apart /\ Asks /\ Forgets
    BY DEF SafeWith
  <1>4. Apart'
    BY <1>1, <1>2, <1>3 DEF Apart
  <1>5. Asks' /\ Forgets'
    BY <1>1, <1>2, <1>3 DEF Apart, Asks, Forgets, Looking
  <1>6. Fresh => Fresh'
    BY <1>1, <1>2 DEF Fresh
  <1>7. Replaced(O) => Replaced(O)'
    BY <1>1, <1>2 DEF Replaced, Working
  <1>8. QED
    BY <1>4, <1>5, <1>6, <1>7 DEF SafeWith

LEMMA TakeSafe ==
  ASSUME JobsInv, NEW O, SafeWith(O), Take
  PROVE  SafeWith(O)'
  <1> DEFINE h == Head(queue).path
  <1>1. /\ worker.at = "idle" /\ queue # <<>> /\ queue \in Seq(JobSet)
        /\ worker'.at = "open" /\ worker'.job = Head(queue) /\ queue' = Tail(queue)
        /\ UNCHANGED <<files, pending, ready, failed, ui, latest, refreshes, crashes>>
    BY DEF Take, screen, bounds, Idle, JobsInv, CacheType
  <1>2. Apart /\ Asks /\ Forgets
    BY DEF SafeWith
  <1>3. h \in Queued /\ Queued' = Queued \ {h} /\ Distinct(queue)'
    <2>1. h \in Queued /\ QueuedPaths(Tail(queue)) = Queued \ {h} /\ Distinct(Tail(queue))
      BY <1>1, <1>2, DistinctTail DEF Apart, Queued
    <2>2. Queued' = QueuedPaths(queue') /\ Distinct(queue)' = Distinct(queue')
      BY DEF Queued, QueuedPaths, Distinct
    <2>3. QED
      BY <1>1, <2>1, <2>2
  <1>4. Held = {} /\ Working = {} /\ Held' = {h} /\ Working' = {h}
    BY <1>1 DEF Held, Working
  <1>5. OnDisk' = OnDisk /\ Latest' = Latest /\ Looking' = Looking /\ Pruning' = Pruning
    BY <1>1, SameFiles, SameLatest, SameUi
  <1> HIDE DEF h
  <1>6. Apart'
    BY <1>1, <1>2, <1>3, <1>4, <1>5 DEF Apart
  <1>7. Asks' /\ Forgets'
    BY <1>1, <1>2, <1>3, <1>4, <1>5 DEF Asks, Forgets
  <1>8. Fresh => Fresh'
    BY <1>1, <1>4, <1>5 DEF Fresh
  <1>9. Replaced(O) => Replaced(O)'
    <2> SUFFICES ASSUME Replaced(O) PROVE Replaced(O)'
      OBVIOUS
    <2>1. h \in Latest \cup O
      BY <1>2, <1>3 DEF Replaced, Apart
    <2>2. QED
      BY <1>1, <1>3, <1>4, <1>5, <2>1 DEF Replaced
  <1>10. QED
    BY <1>1, <1>6, <1>7, <1>8, <1>9 DEF SafeWith

LEMMA RequeueSafe ==
  ASSUME JobsInv, NEW O, SafeWith(O), Requeue
  PROVE  SafeWith(O)'
  <1> DEFINE p == worker.job.path
  <1>1. /\ worker.at = "requeue" /\ worker'.at = "finish"
        /\ queue \in Seq(JobSet) /\ worker.job \in JobSet /\ queue' = Append(queue, worker.job)
        /\ UNCHANGED <<files, pending, ready, failed, ui, latest, refreshes, crashes>>
    BY DEF Requeue, active, screen, bounds, JobsInv, CacheType, WorkerState
  <1>2. Apart /\ Asks /\ Forgets
    BY DEF SafeWith
  <1>3. Held = {p} /\ Working = {p} /\ Held' = {} /\ Working' = {}
    BY <1>1 DEF Held, Working
  <1>4. p \notin Queued /\ p \notin OnDisk /\ p \in pending
    BY <1>1, <1>2, <1>3 DEF Apart
  <1>5. Queued' = Queued \cup {p} /\ Distinct(queue)'
    <2>1. QueuedPaths(queue') = Queued \cup {p} /\ Distinct(queue')
      BY <1>1, <1>2, <1>4, PathsFacts, DistinctAppend DEF Apart, Queued
    <2>2. Queued' = QueuedPaths(queue') /\ Distinct(queue)' = Distinct(queue')
      BY DEF Queued, QueuedPaths, Distinct
    <2>3. QED
      BY <2>1, <2>2
  <1>6. OnDisk' = OnDisk /\ Latest' = Latest /\ Looking' = Looking /\ Pruning' = Pruning
    BY <1>1, SameFiles, SameLatest, SameUi
  <1> HIDE DEF p
  <1>7. Apart'
    BY <1>1, <1>2, <1>3, <1>4, <1>5, <1>6 DEF Apart
  <1>8. Asks' /\ Forgets'
    BY <1>1, <1>2, <1>3, <1>5, <1>6 DEF Asks, Forgets
  <1>9. Fresh => Fresh'
    BY <1>1, <1>3, <1>4, <1>6 DEF Fresh
  <1>10. Replaced(O) => Replaced(O)'
    BY <1>1, <1>3, <1>4, <1>5, <1>6 DEF Replaced
  <1>11. QED
    BY <1>1, <1>7, <1>8, <1>9, <1>10 DEF SafeWith

\* The job ends: it is given up, or its picture is ready.
LEMMA EndSafe ==
  ASSUME JobsInv, NEW O, SafeWith(O), Drop \/ MarkFailed \/ MarkReady
  PROVE  SafeWith(O)'
  <1> DEFINE p == worker.job.path
  <1>1. /\ worker.at \in {"drop", "giveup", "publish"} /\ worker'.at \in {"idle", "finish", "sweep"}
        /\ worker'.at = "sweep" => worker'.job.path = p
        /\ pending' = pending \ {p}
        /\ \/ worker.at \in {"drop", "giveup"} /\ ready' = ready /\ worker'.at # "sweep"
              /\ failed' \subseteq failed \cup {p}
           \/ worker'.at = "sweep" /\ ready' = ready \cup {p} /\ failed' = failed \ {p}
        /\ UNCHANGED <<files, queue, ui, latest, refreshes, crashes>>
    <2>1. worker \in WorkerState
      BY DEF JobsInv, CacheType
    <2>2. CASE Drop
      BY <2>2 DEF Drop, screen, bounds, Idle
    <2>3. CASE MarkFailed
      BY <2>1, <2>3 DEF MarkFailed, active, screen, bounds, WorkerState
    <2>4. CASE MarkReady
      BY <2>1, <2>4 DEF MarkReady, active, screen, bounds, WorkerState
    <2>5. QED
      BY <2>2, <2>3, <2>4
  <1>2. Apart /\ Asks /\ Forgets
    BY DEF SafeWith
  <1>3. Held = {p} /\ Working = {p} /\ Held' = {} /\ Working' = IF worker'.at = "sweep" THEN {p} ELSE {}
    BY <1>1 DEF Held, Working
  <1>4. /\ p \notin Queued /\ p \in pending /\ p \notin ready
        /\ worker'.at # "sweep" => p \notin OnDisk
    BY <1>1, <1>2, <1>3 DEF Apart
  <1>5. /\ Queued' = Queued /\ Latest' = Latest /\ Looking' = Looking /\ Pruning' = Pruning
        /\ Distinct(queue)' = Distinct(queue) /\ OnDisk' = OnDisk
    BY <1>1, SameQueue, SameLatest, SameUi, SameFiles
  <1> HIDE DEF p
  <1>6. worker'.at \notin {"drop", "requeue", "giveup", "forget"}
    BY <1>1
  <1>7. Apart'
    BY <1>1, <1>2, <1>3, <1>4, <1>5, <1>6 DEF Apart
  <1>8. Asks' /\ Forgets'
    BY <1>1, <1>2, <1>3, <1>4, <1>5, <1>6 DEF Asks, Forgets
  <1>9. Fresh => Fresh'
    BY <1>1, <1>3, <1>4, <1>5, <1>6 DEF Fresh
  <1>10. Replaced(O) => Replaced(O)'
    <2> SUFFICES ASSUME Replaced(O) PROVE Replaced(O)'
      OBVIOUS
    <2>1. p \in Latest \cup O /\ Working' \subseteq Working
      BY <1>3 DEF Replaced
    <2>2. \A n \in OnDisk : n \in ready \cup Held => n \in ready' \cup Held'
      BY <1>1, <1>3, <1>4
    <2>3. ready' \cup failed' \cup pending' \subseteq Latest \cup O
      BY <1>1, <2>1 DEF Replaced
    <2>4. QED
      BY <1>1, <1>3, <1>5, <1>6, <2>1, <2>2, <2>3 DEF Replaced
  <1>11. QED
    BY <1>1, <1>7, <1>8, <1>9, <1>10 DEF SafeWith

LEMMA WorkerSweepSafe ==
  ASSUME JobsInv, NEW O, SafeWith(O), WorkerSweep
  PROVE  SafeWith(O)'
  <1> DEFINE p == worker.job.path
             gone == Present(p, NoPath)
  <1>1. /\ worker.at = "sweep" /\ worker'.at = "forget" /\ worker'.gone = gone
        /\ files' = [q \in Paths |-> IF q \in gone THEN "none" ELSE files[q]]
        /\ UNCHANGED <<queue, pending, ready, failed, ui, latest, refreshes, crashes>>
    BY DEF WorkerSweep, lists, screen, bounds, JobsInv, CacheType, WorkerState
  <1>2. gone \subseteq OnDisk /\ \A q \in gone : q[1] = p[1] /\ q # p
    BY DEF Present, Siblings, OnDisk
  <1>3. OnDisk' = OnDisk \ gone
    BY <1>1 DEF OnDisk
  <1>4. Held = {} /\ Working = {p} /\ Held' = {} /\ Working' = {}
    BY <1>1 DEF Held, Working
  <1> HIDE DEF gone, p
  <1>5. /\ Queued' = Queued /\ Latest' = Latest /\ Looking' = Looking /\ Pruning' = Pruning
        /\ Distinct(queue)' = Distinct(queue)
    BY <1>1, SameQueue, SameLatest, SameUi
  <1>6. Apart /\ Asks /\ Forgets
    BY DEF SafeWith
  <1>7. Apart'
    BY <1>1, <1>3, <1>4, <1>5, <1>6 DEF Apart
  <1>8. Asks' /\ Forgets'
    BY <1>1, <1>2, <1>3, <1>4, <1>5, <1>6 DEF Asks, Forgets, Apart
  <1>9. Fresh => Fresh'
    BY <1>1, <1>2, <1>3, <1>4, <1>5 DEF Fresh
  <1>10. Replaced(O) => Replaced(O)'
    <2> SUFFICES ASSUME Replaced(O) PROVE Replaced(O)'
      OBVIOUS
    <2>1. gone \subseteq Latest \cup O /\ p \in Latest \cup O
      BY <1>2, <1>4 DEF Replaced
    <2>2. gone \cap Latest \subseteq ready
      <3>1. CASE p \in Latest
        BY <1>2, <3>1, LatestIsOne
      <3>2. CASE p \in O
        BY <1>2, <1>4, <3>2 DEF Replaced
      <3>3. QED
        BY <2>1, <3>1, <3>2
    <2>3. QED
      BY <1>1, <1>3, <1>4, <1>5, <2>1, <2>2 DEF Replaced
  <1>11. QED
    BY <1>1, <1>7, <1>8, <1>9, <1>10 DEF SafeWith

LEMMA WorkerForgetSafe ==
  ASSUME JobsInv, NEW O, SafeWith(O), WorkerForget \/ Finish
  PROVE  SafeWith(O)'
  <1> DEFINE gone == IF worker.at = "forget" THEN worker.gone ELSE {}
  <1>1. /\ worker.at \in {"forget", "finish"} /\ worker'.at \in {"finish", "idle"}
        /\ ready' = ready \ gone /\ failed' = failed \ gone /\ pending' = pending \ gone
        /\ UNCHANGED <<files, queue, ui, latest, refreshes, crashes>>
    <2>1. worker \in WorkerState
      BY DEF JobsInv, CacheType
    <2>2. CASE WorkerForget
      BY <2>1, <2>2 DEF WorkerForget, Erase, active, screen, bounds, WorkerState
    <2>3. CASE Finish
      BY <2>3 DEF Finish, lists, screen, bounds, Idle
    <2>4. QED
      BY <2>2, <2>3
  <1>2. Held = {} /\ Working = {} /\ Held' = {} /\ Working' = {}
    BY <1>1 DEF Held, Working
  <1>3. Apart /\ Asks /\ Forgets
    BY DEF SafeWith
  <1>4. gone \cap (Queued \cup OnDisk) = {}
    BY <1>3 DEF Forgets
  <1> HIDE DEF gone
  <1>5. /\ Queued' = Queued /\ Latest' = Latest /\ Looking' = Looking /\ Pruning' = Pruning
        /\ Distinct(queue)' = Distinct(queue) /\ OnDisk' = OnDisk
    BY <1>1, SameQueue, SameLatest, SameUi, SameFiles
  <1>6. worker'.at \notin {"drop", "requeue", "giveup", "forget"}
    BY <1>1
  <1>7. Apart'
    BY <1>1, <1>2, <1>3, <1>4, <1>5, <1>6 DEF Apart
  <1>8. Asks' /\ Forgets'
    BY <1>1, <1>2, <1>3, <1>5, <1>6 DEF Asks, Forgets
  <1>9. Fresh => Fresh'
    BY <1>1, <1>2, <1>4, <1>5, <1>6 DEF Fresh
  <1>10. Replaced(O) => Replaced(O)'
    BY <1>1, <1>2, <1>4, <1>5, <1>6 DEF Replaced
  <1>11. QED
    BY <1>1, <1>7, <1>8, <1>9, <1>10 DEF SafeWith

LEMMA WorkerSafe ==
  ASSUME JobsInv, Counts, NEW O, SafeWith(O), WorkerStep
  PROVE  SafeWith(O)'
  <1> DEFINE p == worker.job.path
             OwnFile(f) == \E v : f = [files EXCEPT ![p] = v]
             Steps == OpenFile \/ Unlink \/ Rename \/ Discard \/ Settle \/ Fail
                      \/ \E ok \in BOOLEAN : Fetched(ok) \/ WriteNormalized(ok)
  <1>1. worker \in WorkerState /\ worker.job \in JobSet
    BY DEF JobsInv, CacheType, WorkerState
  <1>2. CASE Steps
    <2>1. /\ worker.at \notin {"idle", "sweep", "forget", "finish"}
          /\ worker'.at \notin {"idle", "sweep", "forget", "finish"}
          /\ worker'.job.path = p
      <3>1. CASE Fail
        <4>1. worker' = [worker EXCEPT !.at = "giveup"]
              \/ worker' = [worker EXCEPT !.at = "requeue", !.job.attempt = @ + 1]
          BY <3>1 DEF Fail
        <4>2. worker'.at \in {"giveup", "requeue"} /\ worker'.job.path = p
          BY <1>1, <4>1 DEF WorkerState, JobSet
        <4>3. QED
          BY <3>1, <4>2 DEF Fail
      <3>2. CASE ~Fail
        <4>1. /\ \E at \in {"body", "discard", "normalize", "invalid", "unlink", "rename", "valid",
                            "drop", "publish", "fail"} : worker' = [worker EXCEPT !.at = at]
              /\ worker.at \notin {"idle", "sweep", "forget", "finish"}
          BY <1>2, <3>2 DEF OpenFile, Unlink, Rename, Discard, Settle, Fetched, WriteNormalized
        <4>2. QED
          BY <1>1, <4>1 DEF WorkerState
      <3>3. QED
        BY <3>1, <3>2
    <2>2. /\ files' = files \/ OwnFile(files')
          /\ UNCHANGED <<queue, pending, ready, failed, ui, latest, refreshes, crashes>>
      BY <1>2 DEF OpenFile, Unlink, Rename, Discard, Settle, Fail, Fetched, WriteNormalized,
                  lists, active, screen, bounds
    <2>3. OnDisk' \subseteq OnDisk \cup {p}
      BY <2>2 DEF OnDisk, Counts
    <2>4. worker'.at \in {"drop", "requeue", "giveup"} => files' = [files EXCEPT ![p] = "none"]
      <3>1. CASE Discard \/ Fail
        BY <3>1 DEF Discard, Fail
      <3>2. CASE ~(Discard \/ Fail)
        <4>1. \E at \in {"body", "discard", "normalize", "invalid", "unlink", "rename", "valid",
                         "publish", "fail"} : worker' = [worker EXCEPT !.at = at]
          BY <1>2, <3>2 DEF OpenFile, Unlink, Rename, Settle, Fetched, WriteNormalized
        <4>2. QED
          BY <1>1, <4>1 DEF WorkerState
      <3>3. QED
        BY <3>1, <3>2
    <2>5. worker'.at \in {"drop", "requeue", "giveup"} => p \notin OnDisk'
      BY <2>4 DEF OnDisk, Counts
    <2>6. QED
      BY <2>1, <2>2, <2>3, <2>5, MovesSafe
  <1>3. QED
    BY <1>2, TakeSafe, RequeueSafe, EndSafe, WorkerSweepSafe, WorkerForgetSafe DEF WorkerStep

LEMMA UserSafe ==
  ASSUME JobsInv, NEW O, SafeWith(O),
         UserStep \/ SyncImages \/ Linger \/ (\E p \in Paths : Cool(p)) \/ UNCHANGED cacheVars
  PROVE  SafeWith(O)'
  <1>1. queue \in Seq(JobSet) /\ Distinct(queue)
    BY DEF JobsInv, CacheType, SafeWith, Apart
  <1>2. /\ UNCHANGED <<files, ready, failed, worker, ui, latest, refreshes, crashes>>
        /\ \/ UNCHANGED <<queue, pending>>
           \/ \E S : queue' = Only(queue, S) /\ pending' = pending \ (QueuedPaths(queue) \ S)
           \/ queue' = <<>> /\ pending' = pending \ QueuedPaths(queue)
    <2>1. CASE SyncImages \/ \E S \in SUBSET Images : StartMoving(S)
      BY <2>1 DEF SyncImages, StartMoving, Keep, screen, bounds
    <2>2. CASE Suspend \/ \E S \in SUBSET Images : SwitchCatalog(S)
      BY <2>2 DEF Suspend, SwitchCatalog
    <2>3. CASE StopMoving \/ Resume \/ SetNetworkPaused \/ Linger \/ (\E p \in Paths : Cool(p))
               \/ UNCHANGED cacheVars
      BY <2>3 DEF StopMoving, Resume, SetNetworkPaused, Linger, Cool, cacheVars, lists, active,
                  screen, bounds
    <2>4. QED
      BY <2>1, <2>2, <2>3 DEF UserStep
  <1>3. Queued' = QueuedPaths(queue') /\ Distinct(queue)' = Distinct(queue') /\ Queued = QueuedPaths(queue)
    BY DEF Queued, QueuedPaths, Distinct
  <1>4. Distinct(queue') /\ Queued' \subseteq Queued /\ pending' = pending \ (Queued \ Queued')
    <2>1. CASE UNCHANGED <<queue, pending>>
      BY <1>1, <1>3, <2>1
    <2>2. CASE \E S : queue' = Only(queue, S) /\ pending' = pending \ (QueuedPaths(queue) \ S)
      <3>1. PICK S : queue' = Only(queue, S) /\ pending' = pending \ (QueuedPaths(queue) \ S)
        BY <2>2
      <3>2. QueuedPaths(queue') = Queued \cap S /\ Distinct(queue')
        BY <1>1, <1>3, <3>1, OnlyFacts
      <3>3. QED
        BY <1>3, <3>1, <3>2
    <2>3. CASE queue' = <<>> /\ pending' = pending \ QueuedPaths(queue)
      <3>1. QueuedPaths(<<>>) = {} /\ Distinct(<<>>)
        BY DEF QueuedPaths, Distinct
      <3>2. QED
        BY <1>3, <2>3, <3>1
    <2>4. QED
      BY <1>2, <2>1, <2>2, <2>3
  <1>5. QED
    BY <1>2, <1>3, <1>4, CancelSafe

\* The first change of a URL leaves one path that is not the newest; after a second one only a
\* session without a restart is still in question.
LEMMA RefreshSafe ==
  ASSUME JobsInv, Counts, NEW O, SafeWith(O), NEW p \in Paths, RefreshCatalog(p), ~Excepted'
  PROVE  \E P : SafeWith(P)'
  <1>0. PICK q : q = PathOf(p[1])
    OBVIOUS
  <1>1. /\ ui.at = "rest" /\ p # q /\ latest' = [latest EXCEPT ![p[1]] = p[2]]
        /\ refreshes' = refreshes + 1
        /\ UNCHANGED <<files, queue, pending, ready, failed, worker, ui, crashes>>
    BY <1>0 DEF RefreshCatalog, lists, active
  <1>2. /\ Held' = Held /\ Working' = Working /\ Queued' = Queued /\ OnDisk' = OnDisk
        /\ Looking' = Looking /\ Pruning' = Pruning /\ Distinct(queue)' = Distinct(queue)
    BY <1>1, SameQueue, SameWorker, SameFiles, SameUi
  <1>3. Apart' /\ Asks' /\ Forgets'
    BY <1>1, <1>2 DEF SafeWith, Apart, Asks, Forgets
  <1>4. Fresh => Fresh'
    BY <1>1, <1>2 DEF Fresh
  <1>5. CASE refreshes >= 1
    <2>1. ~(refreshes' <= 1) /\ crashes' = 0 /\ crashes = 0
      BY <1>1, <1>5 DEF Counts, Excepted
    <2>2. SafeWith(O)'
      BY <1>3, <1>4, <2>1 DEF SafeWith
    <2>3. QED
      BY <2>2
  <1>6. CASE ~(refreshes >= 1)
    <2>1. refreshes = 0 /\ refreshes' = 1
      BY <1>1, <1>6 DEF Counts
    <2>2. Replaced(O) /\ O = {}
      BY <2>1 DEF SafeWith, Replaced
    <2>3. /\ p[1] \in Images /\ p = <<p[1], p[2]>>
          /\ \A i \in Images : latest'[i] = IF i = p[1] THEN p[2] ELSE latest[i]
      BY <1>1, PathsAssumption DEF Images, JobsInv, CacheType, CatalogOK
    <2>4. /\ q \notin Latest' /\ Latest \subseteq Latest' \cup {q}
          /\ Latest' \cap Latest \cap {n \in Paths : n[1] = q[1]} = {}
      BY <1>0, <1>1, <2>3 DEF Latest, PathOf
    <2>5. Replaced({q})'
      <3>1. \A n \in OnDisk : n \in Latest /\ n \in Paths
        BY <2>2 DEF Replaced, OnDisk
      <3>2. \A n \in OnDisk \cap Latest' : n[1] # q[1]
        BY <2>4, <3>1
      <3>3. worker.at = "forget" => worker.gone \subseteq Latest /\ worker.gone \cap Latest \subseteq ready
        BY <2>2 DEF Replaced
      <3>4. OnDisk \cup ready \cup pending \cup failed \cup Working \subseteq Latest
        BY <2>2 DEF Replaced
      <3>5. ui.at # "forget" /\ ~Pruning
        BY <1>1 DEF Pruning
      <3>6. {q} \cap Latest' = {} /\ refreshes' # 0
        BY <2>1, <2>4
      <3>7. (OnDisk \cup ready \cup pending \cup failed \cup Working)' \subseteq Latest' \cup {q}
        BY <1>1, <1>2, <2>4, <3>4
      <3>8. ui'.at = "rest" /\ ~Pruning'
        BY <1>1, <1>2, <3>5
      <3>9. \A n \in OnDisk' \cap Latest' : n[1] # q[1]
        BY <1>2, <3>2
      <3>10. worker'.at = "forget" => worker'.gone \subseteq Latest' \cup {q}
                                      /\ worker'.gone \cap Latest' \subseteq ready'
        BY <1>1, <2>4, <3>3
      <3>11. QED
        BY <3>6, <3>7, <3>8, <3>9, <3>10 DEF Replaced
    <2>6. SafeWith({q})'
      BY <1>1, <1>3, <1>4, <2>1, <2>5 DEF SafeWith
    <2>7. QED
      BY <2>6
  <1>7. QED
    BY <1>5, <1>6

LEMMA CutSafe ==
  ASSUME Counts, NEW O, SafeWith(O), PowerCut, ~Excepted'
  PROVE  SafeWith(O)'
  <1>1. /\ files' \in Trimmed(files) /\ crashes' = crashes + 1
        /\ queue' = <<>> /\ pending' = {} /\ ready' = {} /\ failed' = {}
        /\ worker' = Idle /\ ui' = Resting /\ UNCHANGED <<latest, refreshes>>
    BY DEF PowerCut
  <1>2. crashes' # 0 /\ refreshes <= 1 /\ Replaced(O)
    BY <1>1 DEF Counts, Excepted, SafeWith
  <1>3. OnDisk' \subseteq OnDisk
    BY <1>1 DEF OnDisk, Trimmed
  <1>4. /\ Held' = {} /\ Working' = {} /\ Queued' = {} /\ Latest' = Latest
        /\ ~Looking' /\ ~Pruning' /\ Distinct(queue)'
    BY <1>1, SameLatest DEF Held, Working, Queued, QueuedPaths, Idle, Resting, Looking, Pruning, Distinct
  <1>5. worker'.at = "idle" /\ ui'.at = "rest"
    BY <1>1 DEF Idle, Resting
  <1>6. Apart' /\ Asks' /\ Forgets'
    BY <1>1, <1>4, <1>5 DEF Apart, Asks, Forgets
  <1>7. Replaced(O)'
    BY <1>1, <1>2, <1>3, <1>4, <1>5 DEF Replaced
  <1>8. QED
    BY <1>1, <1>2, <1>6, <1>7 DEF SafeWith

LEMMA BoundsStep ==
  ASSUME [CacheNext]_cacheVars
  PROVE  refreshes' \in {refreshes, refreshes + 1} /\ crashes' \in {crashes, crashes + 1}
  <1>1. CASE UiStep
    BY <1>1 DEF UiStep, Stat, Adopt, Enqueue, Decode, Snap, Sweep, Forget, bounds
  <1>2. CASE WorkerStep
    BY <1>2 DEF WorkerStep, Take, OpenFile, Unlink, Rename, Settle, Discard, Drop, MarkReady,
                WorkerSweep, WorkerForget, Fail, Requeue, MarkFailed, Finish, Fetched,
                WriteNormalized, bounds
  <1>3. CASE UserStep \/ SyncImages \/ Linger \/ PowerCut \/ UNCHANGED cacheVars
    BY <1>3 DEF UserStep, StopMoving, Suspend, Resume, SetNetworkPaused, StartMoving,
                SwitchCatalog, SyncImages, Linger, PowerCut, cacheVars, bounds
  <1>4. CASE (\E i \in Images : Lookup(i)) \/ \E p \in Paths : RefreshCatalog(p) \/ Cool(p)
    BY <1>4 DEF Lookup, RefreshCatalog, Cool, bounds
  <1>5. QED
    BY <1>1, <1>2, <1>3, <1>4 DEF CacheNext

LEMMA CountsKept == ASSUME Counts, [CacheNext]_cacheVars PROVE Counts'
  <1>1. refreshes' \in {refreshes, refreshes + 1} /\ crashes' \in {crashes, crashes + 1}
    BY BoundsStep
  <1> DEFINE IsFiles(f) == f = [q \in Paths |-> f[q]]
  <1>2. IsFiles(files)
    BY DEF Counts
  <1>3. IsFiles(files')
    <2> DEFINE Changed == \E x, v : files' = [files EXCEPT ![x] = v]
               Swept == \E gone : files' = [q \in Paths |-> IF q \in gone THEN "none" ELSE files[q]]
    <2>1. UNCHANGED files \/ Changed \/ Swept
      <3>1. CASE UiStep
        BY <3>1 DEF UiStep, Stat, Adopt, Enqueue, Decode, Snap, Sweep, Forget
      <3>2. CASE WorkerStep
        BY <3>2 DEF WorkerStep, Take, OpenFile, Unlink, Rename, Settle, Discard, Drop, MarkReady,
                    WorkerSweep, WorkerForget, Fail, Requeue, MarkFailed, Finish, Fetched,
                    WriteNormalized
      <3>3. CASE UserStep \/ SyncImages \/ Linger \/ UNCHANGED cacheVars
        BY <3>3 DEF UserStep, StopMoving, Suspend, Resume, SetNetworkPaused, StartMoving,
                    SwitchCatalog, SyncImages, Linger, cacheVars
      <3>4. CASE (\E i \in Images : Lookup(i)) \/ \E p \in Paths : RefreshCatalog(p) \/ Cool(p)
        BY <3>4 DEF Lookup, RefreshCatalog, Cool
      <3>5. CASE PowerCut
        <4>1. files' \in Trimmed(files)
          BY <3>5 DEF PowerCut
        <4> DEFINE here == {q \in Paths : files[q] # "none"}
        <4>2. PICK kept : files' = [q \in Paths |-> IF q \in here \ kept THEN "none" ELSE files[q]]
          BY <4>1 DEF Trimmed
        <4> HIDE DEF here
        <4>3. QED
          BY <4>2
      <3>6. QED
        BY <3>1, <3>2, <3>3, <3>4, <3>5 DEF CacheNext
    <2>2. CASE UNCHANGED files
      BY <1>2, <2>2
    <2>3. CASE Changed
      <3>1. PICK x, v : files' = [files EXCEPT ![x] = v]
        BY <2>3
      <3>2. QED
        BY <1>2, <3>1
    <2>4. CASE Swept
      <3>1. PICK gone : files' = [q \in Paths |-> IF q \in gone THEN "none" ELSE files[q]]
        BY <2>4
      <3>2. QED
        BY <3>1
    <2>5. QED
      BY <2>1, <2>2, <2>3, <2>4
  <1>4. QED
    BY <1>1, <1>3 DEF Counts

LEMMA OneInit == CacheInit => OneInv
  <1> SUFFICES ASSUME CacheInit PROVE OneInv
    OBVIOUS
  <1>1. /\ files = [q \in Paths |-> "none"] /\ refreshes = 0 /\ crashes = 0
        /\ queue = <<>> /\ pending = {} /\ ready = {} /\ failed = {} /\ worker = Idle /\ ui = Resting
    BY DEF CacheInit, Blank
  <1>2. /\ Held = {} /\ Working = {} /\ Queued = {} /\ OnDisk = {} /\ ~Looking /\ ~Pruning
        /\ Distinct(queue) /\ worker.at = "idle" /\ ui.at = "rest"
    BY <1>1 DEF Held, Working, Queued, QueuedPaths, OnDisk, Idle, Resting, Looking, Pruning, Distinct
  <1>3. Apart /\ Asks /\ Forgets /\ Fresh /\ Replaced({})
    BY <1>1, <1>2 DEF Apart, Asks, Forgets, Fresh, Replaced
  <1>4. SafeWith({})
    BY <1>1, <1>3 DEF SafeWith
  <1>5. Counts
    BY <1>1 DEF Counts
  <1>6. QED
    BY <1>4, <1>5, CacheInitInv DEF OneInv

LEMMA OneNext == OneInv /\ [CacheNext]_cacheVars => OneInv'
  <1> SUFFICES ASSUME OneInv, [CacheNext]_cacheVars, ~Excepted' PROVE \E P : SafeWith(P)'
    BY CacheNextInv, CountsKept DEF OneInv
  <1>1. JobsInv /\ Counts
    BY DEF OneInv
  <1>2. ~Excepted
    <2>1. refreshes' >= refreshes /\ crashes' >= crashes
      BY <1>1, BoundsStep DEF Counts
    <2>2. refreshes \in Nat /\ crashes \in Nat /\ refreshes' \in Nat /\ crashes' \in Nat
      BY <1>1, CountsKept DEF Counts
    <2>3. QED
      BY <2>1, <2>2 DEF Excepted
  <1>3. PICK O : SafeWith(O)
    BY <1>2 DEF OneInv
  <1>4. CASE UiStep
    <2>1. SafeWith(O)'
      BY <1>1, <1>3, <1>4, StatSafe, AdoptSafe, EnqueueSafe, RestSafe, SweepSafe, ForgetSafe DEF UiStep
    <2>2. QED
      BY <2>1
  <1>5. CASE WorkerStep
    <2>1. SafeWith(O)'
      BY <1>1, <1>3, <1>5, WorkerSafe
    <2>2. QED
      BY <2>1
  <1>6. CASE \E i \in Images : Lookup(i)
    <2>1. SafeWith(O)'
      BY <1>1, <1>3, <1>6, LookupSafe
    <2>2. QED
      BY <2>1
  <1>7. CASE \E p \in Paths : RefreshCatalog(p)
    BY <1>1, <1>3, <1>7, RefreshSafe
  <1>8. CASE PowerCut
    <2>1. SafeWith(O)'
      BY <1>1, <1>3, <1>8, CutSafe
    <2>2. QED
      BY <2>1
  <1>9. CASE UserStep \/ SyncImages \/ Linger \/ (\E p \in Paths : Cool(p)) \/ UNCHANGED cacheVars
    <2>1. SafeWith(O)'
      BY <1>1, <1>3, <1>9, UserSafe
    <2>2. QED
      BY <2>1
  <1>10. QED
    BY <1>4, <1>5, <1>6, <1>7, <1>8, <1>9 DEF CacheNext

\* A file never has two jobs, whatever is scrolled, cancelled, retried or pruned: the queue holds
\* a path once and never the worker's, and every job's path is pending.  It holds through any
\* number of catalog updates before the first restart, and through restarts with one update.
THEOREM FileHasOneJob == CacheSpec => []OneJobPerFile
  <1>1. OneInv => OneJobPerFile
    <2> SUFFICES ASSUME OneInv, refreshes <= 1 \/ crashes = 0
                 PROVE  /\ Cardinality(QueuedPaths(queue)) = Len(queue)
                        /\ Held \cap QueuedPaths(queue) = {}
                        /\ QueuedPaths(queue) \cup Held \subseteq pending
      BY DEF OneJobPerFile
    <2>1. \E O : SafeWith(O)
      BY DEF OneInv, Excepted
    <2>2. Apart /\ queue \in Seq(JobSet)
      BY <2>1 DEF SafeWith, OneInv, JobsInv, CacheType
    <2>3. Cardinality(QueuedPaths(queue)) = Len(queue)
      BY <2>2, DistinctCount DEF Apart
    <2>4. QED
      BY <2>2, <2>3 DEF Apart, Queued
  <1>2. QED
    BY <1>1, OneInit, OneNext, PTL DEF CacheSpec

\* The property the run checks: what is pending and what has a job agree.
THEOREM AgreementLasts == CacheSpec => []JobsAgree
  <1>1. PendingIsWorked /\ OneJobPerFile => JobsAgree
    BY DEF JobsAgree
  <1>2. QED
    BY <1>1, PendingHasJob, FileHasOneJob, PTL
=============================================================================
