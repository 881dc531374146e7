-------------------------- MODULE SidecarStops_proofs --------------------------
(***************************************************************************)
(* Proofs about SidecarStops, for every number of threads and stops: the   *)
(* inductive invariants of the sidecar's two threads and their target,     *)
(* preserved by each of their actions.  JdiSession_proofs lifts them to a  *)
(* whole session.                                                          *)
(***************************************************************************)
EXTENDS SidecarStops, SequenceTheorems, WellFoundedInduction, TLAPS

-----------------------------------------------------------------------------
(* What the queue operators return.                                        *)

\* A nonempty set of naturals has a least member.
LEMMA LeastNat ==
    ASSUME NEW T \in SUBSET Nat, T # {}
    PROVE  \E x \in T : \A y \in T : x <= y
  <1> DEFINE R == {rr \in Nat \X Nat : rr[1] < rr[2]}
  <1>1. IsWellFoundedOn(R, Nat)
    BY NatLessThanWellFounded, Zenon DEF OpToRel
  <1> HIDE DEF R
  <1>2. PICK x \in T : \A y \in T : <<y, x>> \notin R
    BY <1>1, WFMin
  <1>3. \A y \in T : ~ (y < x)
    BY <1>2 DEF R
  <1> QED BY <1>3

LEMMA RemoveAtSeq ==
    ASSUME NEW S, NEW q \in Seq(S), NEW i \in DOMAIN q
    PROVE  RemoveAt(q, i) \in Seq(S)
  <1>1. DOMAIN q = 1 .. Len(q) /\ Len(q) \in Nat /\ \A k \in 1 .. Len(q) : q[k] \in S
    BY LenProperties, ElementOfSeq
  <1>2. SubSeq(q, 1, i - 1) \in Seq(S)
    <2>1. 1 \in Int /\ i - 1 \in Int /\ \A k \in 1 .. (i - 1) : q[k] \in S
      BY <1>1
    <2> QED BY <2>1, SubSeqProperties
  <1>3. SubSeq(q, i + 1, Len(q)) \in Seq(S)
    <2>1. i + 1 \in Int /\ Len(q) \in Int /\ \A k \in (i + 1) .. Len(q) : q[k] \in S
      BY <1>1
    <2> QED BY <2>1, SubSeqProperties
  <1>4. RemoveAt(q, i) = SubSeq(q, 1, i - 1) \o SubSeq(q, i + 1, Len(q))
    BY DEF RemoveAt
  <1> QED BY <1>2, <1>3, <1>4, ConcatProperties

LEMMA TailSeq ==
    ASSUME NEW S, NEW q \in Seq(S), q # <<>>
    PROVE  Tail(q) \in Seq(S) /\ Head(q) \in S
  BY HeadTailProperties, ElementOfSeq

LEMMA MemberOfSeq ==
    ASSUME NEW S, NEW q \in Seq(S), NEW x \in ToSet(q)
    PROVE  x \in S
  BY ElementOfSeq, LenProperties DEF ToSet

\* Appending adds one member, at the end.
LEMMA Appended ==
    ASSUME NEW S, NEW q \in Seq(S), NEW x \in S
    PROVE  /\ Append(q, x) \in Seq(S)
           /\ DOMAIN q = 1 .. Len(q) /\ Len(q) \in Nat
           /\ DOMAIN Append(q, x) = 1 .. (Len(q) + 1)
           /\ \A i \in 1 .. Len(q) : Append(q, x)[i] = q[i]
           /\ Append(q, x)[Len(q) + 1] = x
           /\ ToSet(Append(q, x)) = ToSet(q) \cup {x}
  <1>1. /\ Append(q, x) \in Seq(S)
        /\ Len(Append(q, x)) = Len(q) + 1
        /\ \A i \in 1 .. Len(q) : Append(q, x)[i] = q[i]
        /\ Append(q, x)[Len(q) + 1] = x
    BY AppendProperties
  <1>2. DOMAIN q = 1 .. Len(q) /\ DOMAIN Append(q, x) = 1 .. (Len(q) + 1) /\ Len(q) \in Nat
    BY <1>1, LenProperties
  <1>3. ToSet(Append(q, x)) = ToSet(q) \cup {x}
    BY <1>1, <1>2 DEF ToSet
  <1> QED BY <1>1, <1>2, <1>3

\* The tail keeps all but the head, each one place earlier.
LEMMA Tailed ==
    ASSUME NEW S, NEW q \in Seq(S), q # <<>>
    PROVE  /\ Tail(q) \in Seq(S)
           /\ DOMAIN q = 1 .. Len(q) /\ Len(q) \in Nat /\ Len(q) >= 1
           /\ DOMAIN Tail(q) = 1 .. (Len(q) - 1)
           /\ \A i \in 1 .. (Len(q) - 1) : Tail(q)[i] = q[i + 1]
           /\ Head(q) = q[1] /\ q[1] \in S
           /\ ToSet(q) = {Head(q)} \cup ToSet(Tail(q))
  <1>1. /\ Tail(q) \in Seq(S)
        /\ Len(Tail(q)) = Len(q) - 1
        /\ \A i \in 1 .. Len(Tail(q)) : Tail(q)[i] = q[i + 1]
        /\ Head(q) = q[1]
    BY HeadTailProperties
  <1>2. DOMAIN q = 1 .. Len(q) /\ DOMAIN Tail(q) = 1 .. (Len(q) - 1) /\ Len(q) \in Nat /\ Len(q) >= 1
    BY <1>1, LenProperties, EmptySeq
  <1>3. ASSUME NEW x PROVE x \in ToSet(q) <=> x \in {Head(q)} \cup ToSet(Tail(q))
    <2>1. ASSUME x \in ToSet(q) PROVE x \in {Head(q)} \cup ToSet(Tail(q))
      <3>1. PICK i \in 1 .. Len(q) : q[i] = x
        BY <1>2, <2>1 DEF ToSet
      <3>2. i = 1 \/ (i - 1 \in 1 .. (Len(q) - 1) /\ Tail(q)[i - 1] = x)
        BY <1>1, <1>2, <3>1
      <3> QED BY <1>1, <1>2, <3>1, <3>2 DEF ToSet
    <2>2. ASSUME x \in {Head(q)} \cup ToSet(Tail(q)) PROVE x \in ToSet(q)
      BY <1>1, <1>2, <2>2 DEF ToSet
    <2> QED BY <2>1, <2>2
  <1>4. q[1] \in S
    BY <1>2, ElementOfSeq
  <1>5. ToSet(q) = {Head(q)} \cup ToSet(Tail(q))
    BY <1>3
  <1> QED BY <1>1, <1>2, <1>4, <1>5

\* Removing one place closes the gap.
LEMMA RemovedAt ==
    ASSUME NEW S, NEW q \in Seq(S), NEW i \in DOMAIN q
    PROVE  /\ RemoveAt(q, i) \in Seq(S)
           /\ DOMAIN RemoveAt(q, i) = 1 .. (Len(q) - 1)
           /\ \A k \in 1 .. (Len(q) - 1) : RemoveAt(q, i)[k] = IF k < i THEN q[k] ELSE q[k + 1]
           /\ ToSet(RemoveAt(q, i)) \subseteq ToSet(q)
           /\ Len(q) \in Nat /\ DOMAIN q = 1 .. Len(q)
  <1>1. DOMAIN q = 1 .. Len(q) /\ Len(q) \in Nat /\ \A k \in 1 .. Len(q) : q[k] \in S
    BY LenProperties, ElementOfSeq
  <1>2. PICK a : a = SubSeq(q, 1, i - 1)
    OBVIOUS
  <1>3. a \in Seq(S) /\ Len(a) = i - 1 /\ \A k \in 1 .. (i - 1) : a[k] = q[k]
    <2>1. 1 \in Int /\ i - 1 \in Int /\ \A k \in 1 .. (i - 1) : q[k] \in S
      BY <1>1
    <2>2. /\ a \in Seq(S)
          /\ Len(a) = IF 1 <= i - 1 THEN (i - 1) - 1 + 1 ELSE 0
          /\ \A k \in 1 .. ((i - 1) - 1 + 1) : a[k] = q[1 + k - 1]
      BY <1>2, <2>1, SubSeqProperties
    <2>3. Len(a) = i - 1 /\ (i - 1) - 1 + 1 = i - 1
      BY <1>1, <2>2
    <2>4. \A k \in 1 .. (i - 1) : 1 + k - 1 = k
      OBVIOUS
    <2> QED BY <2>2, <2>3, <2>4
  <1>4. PICK b : b = SubSeq(q, i + 1, Len(q))
    OBVIOUS
  <1>5. b \in Seq(S) /\ Len(b) = Len(q) - i /\ \A k \in 1 .. (Len(q) - i) : b[k] = q[i + k]
    <2>1. i + 1 \in Int /\ Len(q) \in Int /\ \A k \in (i + 1) .. Len(q) : q[k] \in S
      BY <1>1
    <2>2. /\ b \in Seq(S)
          /\ Len(b) = IF i + 1 <= Len(q) THEN Len(q) - (i + 1) + 1 ELSE 0
          /\ \A k \in 1 .. (Len(q) - (i + 1) + 1) : b[k] = q[(i + 1) + k - 1]
      BY <1>4, <2>1, SubSeqProperties
    <2>3. Len(b) = Len(q) - i /\ Len(q) - (i + 1) + 1 = Len(q) - i
      BY <1>1, <2>2
    <2>4. \A k \in 1 .. (Len(q) - i) : (i + 1) + k - 1 = i + k
      BY <1>1
    <2> QED BY <2>2, <2>3, <2>4
  <1>6. PICK r : r = a \o b
    OBVIOUS
  <1>7. /\ r \in Seq(S) /\ Len(r) = Len(a) + Len(b)
        /\ \A k \in 1 .. (Len(a) + Len(b)) : r[k] = IF k <= Len(a) THEN a[k] ELSE b[k - Len(a)]
    BY <1>3, <1>5, <1>6, ConcatProperties
  <1>8. RemoveAt(q, i) = r
    BY <1>2, <1>4, <1>6, Zenon DEF RemoveAt
  <1>9. DOMAIN r = 1 .. (Len(q) - 1)
    BY <1>1, <1>3, <1>5, <1>7, LenProperties
  <1>10. \A k \in 1 .. (Len(q) - 1) : r[k] = IF k < i THEN q[k] ELSE q[k + 1]
    <2> SUFFICES ASSUME NEW k \in 1 .. (Len(q) - 1)
                 PROVE  r[k] = IF k < i THEN q[k] ELSE q[k + 1]
      OBVIOUS
    <2>1. k \in 1 .. (Len(a) + Len(b))
      BY <1>1, <1>3, <1>5
    <2>2. CASE k < i
      BY <1>1, <1>3, <1>7, <2>1, <2>2
    <2>3. CASE ~ (k < i)
      <3>1. ~ (k <= Len(a)) /\ k - Len(a) \in 1 .. (Len(q) - i) /\ i + (k - Len(a)) = k + 1
        BY <1>1, <1>3, <2>3
      <3>2. r[k] = b[k - Len(a)]
        BY <1>7, <2>1, <3>1
      <3> QED BY <1>5, <2>3, <3>1, <3>2
    <2> QED BY <2>2, <2>3
  <1>11. ToSet(r) \subseteq ToSet(q)
    BY <1>1, <1>9, <1>10 DEF ToSet
  <1> QED BY <1>1, <1>7, <1>8, <1>9, <1>10, <1>11

\* RemoveFirst takes out one place that holds the value, if there is one.
LEMMA FirstRemoved ==
    ASSUME NEW S, NEW q \in Seq(S), NEW x
    PROVE  /\ x \notin ToSet(q) => RemoveFirst(q, x) = q
           /\ x \in ToSet(q) => \E i \in DOMAIN q : q[i] = x /\ RemoveFirst(q, x) = RemoveAt(q, i)
  <1>1. DOMAIN q = 1 .. Len(q) /\ Len(q) \in Nat
    BY LenProperties
  <1>2. CASE ~ \E i \in 1 .. Len(q) : q[i] = x
    BY <1>1, <1>2 DEF RemoveFirst, ToSet
  <1>3. CASE \E i \in 1 .. Len(q) : q[i] = x
    <2> DEFINE T == {j \in 1 .. Len(q) : q[j] = x}
               n == SelectInSeq(q, LAMBDA v : v = x)
    <2>0. T \in SUBSET Nat /\ T # {}
      BY <1>1, <1>3
    <2>1. PICK m \in T : \A y \in T : m <= y
      BY <2>0, LeastNat, Zenon
    <2>2. n = Min(T)
      <3>1. n = IF T # {} THEN Min(T) ELSE 0
        BY Zenon DEF SelectInSeq
      <3> QED BY <2>0, <3>1, Zenon
    <2>3. Min(T) \in T
      BY <2>1, Zenon DEF Min
    <2>4. n \in DOMAIN q /\ q[n] = x
      BY <1>1, <2>2, <2>3
    <2>5. RemoveFirst(q, x) = RemoveAt(q, n)
      BY <1>3 DEF RemoveFirst
    <2> HIDE DEF n
    <2> QED BY <1>1, <2>4, <2>5 DEF ToSet
  <1> QED BY <1>2, <1>3

\* RemoveFirst takes nothing out of a queue but the value.
LEMMA FirstRemovedWithin ==
    ASSUME NEW S, NEW q \in Seq(S), NEW x
    PROVE  /\ ToSet(RemoveFirst(q, x)) \subseteq ToSet(q)
           /\ ToSet(q) \subseteq ToSet(RemoveFirst(q, x)) \cup {x}
  <1>1. CASE x \notin ToSet(q)
    BY <1>1, FirstRemoved
  <1>2. CASE x \in ToSet(q)
    <2>1. PICK i \in DOMAIN q : q[i] = x /\ RemoveFirst(q, x) = RemoveAt(q, i)
      BY <1>2, FirstRemoved
    <2>2. /\ DOMAIN RemoveAt(q, i) = 1 .. (Len(q) - 1)
          /\ \A k \in 1 .. (Len(q) - 1) : RemoveAt(q, i)[k] = IF k < i THEN q[k] ELSE q[k + 1]
          /\ ToSet(RemoveAt(q, i)) \subseteq ToSet(q)
          /\ Len(q) \in Nat /\ DOMAIN q = 1 .. Len(q)
      BY RemovedAt
    <2>3. ASSUME NEW y \in ToSet(q), y # x PROVE y \in ToSet(RemoveAt(q, i))
      <3>1. PICK k \in 1 .. Len(q) : q[k] = y
        BY <2>2 DEF ToSet
      <3>2. CASE k < i
        BY <2>2, <3>1, <3>2 DEF ToSet
      <3>3. CASE ~ (k < i)
        <4>1. k # i /\ k - 1 \in 1 .. (Len(q) - 1) /\ ~ (k - 1 < i) /\ (k - 1) + 1 = k
          BY <2>1, <2>2, <2>3, <3>1, <3>3
        <4>2. RemoveAt(q, i)[k - 1] = y
          BY <2>2, <3>1, <4>1
        <4> QED BY <2>2, <4>1, <4>2 DEF ToSet
      <3> QED BY <3>2, <3>3
    <2> QED BY <2>1, <2>2, <2>3
  <1> QED BY <1>1, <1>2

LEMMA RemoveFirstSeq ==
    ASSUME NEW S, NEW q \in Seq(S), NEW x
    PROVE  RemoveFirst(q, x) \in Seq(S)
  BY FirstRemoved, RemoveAtSeq

-----------------------------------------------------------------------------
(* Type correctness of the sidecar.                                        *)

\* The events there are records of: a stop's id has been drawn.
Known == {e \in SidecarEvents : e \in StopIds => e <= Len(raised)}

\* SelectStop reads the thread of a queued record, so the types need to know
\* that a record, wherever the two threads hold one, has been raised.
SidecarInv ==
    /\ SidecarTypeOK
    /\ stops \in Seq(Known)
    /\ loop.pc \in {"queue", "send"} => loop.stop \in Known
    /\ rpc.pc = "examine" => rpc.stop \in Known

LEMMA CountTypes ==
    ASSUME SidecarTypeOK
    PROVE  /\ \A s : CountsAfterResume(s) \in [Threads -> Nat]
           /\ \A t, policy : CountsAfterHit(t, policy) \in [Threads -> Nat]
           /\ [t \in Threads |-> Minus(suspends[t], 1)] \in [Threads -> Nat]
           /\ [t \in Threads |-> suspends[t] + 1] \in [Threads -> Nat]
  BY DEF SidecarTypeOK, CountsAfterResume, CountsAfterHit, Minus

LEMMA ThreadOfType ==
    ASSUME SidecarTypeOK, NEW s \in Known
    PROVE  ThreadOf(s) \in Threads \cup {NoThread}
  <1>1. CASE s \in StopIds
    <2>1. s \in 1 .. Len(raised)
      BY <1>1 DEF Known, StopIds, SidecarTypeOK
    <2>2. raised[s] \in Hits
      BY <2>1, ElementOfSeq DEF SidecarTypeOK
    <2> QED BY <1>1, <2>2 DEF ThreadOf, Hits
  <1>2. CASE s \notin StopIds
    BY <1>2 DEF ThreadOf
  <1> QED BY <1>1, <1>2

\* Selecting or resuming a known record keeps the types.
LEMMA SelectStopTypes ==
    ASSUME SidecarTypeOK, NEW s \in Known, SelectStop(s)
    PROVE  /\ current' \in StopIds \cup {VmStart, NoEvent}
           /\ currentThread' \in Threads \cup {NoThread}
  BY ThreadOfType DEF SelectStop, Known, SidecarEvents, SidecarTypeOK

LEMMA ResumeStopSetTypes ==
    ASSUME SidecarTypeOK, NEW s, ResumeStopSet(s)
    PROVE  /\ current' \in StopIds \cup {VmStart, NoEvent}
           /\ suspends' \in [Threads -> Nat]
  BY CountTypes DEF ResumeStopSet, SidecarTypeOK

LEMMA DropsTypes ==
    ASSUME SidecarTypeOK, NEW out, Drops(out)
    PROVE  dropped' \subseteq StopIds
  BY DEF Drops, SidecarTypeOK

LEMMA HitTypes ==
    ASSUME SidecarTypeOK, vmEvents # <<>>, Head(vmEvents).kind \in {"hit", "step"}
    PROVE  [thread |-> Head(vmEvents).thread, policy |-> Head(vmEvents).policy] \in Hits
  <1>1. Head(vmEvents) \in VmEvents
    BY TailSeq DEF SidecarTypeOK
  <1>2. Head(vmEvents) \in [kind : {"hit", "step"}, thread : Threads, policy : {"thread", "all"}]
    BY <1>1 DEF VmEvents
  <1> QED BY <1>2 DEF Hits

\* The target's own steps.
LEMMA TargetTypeStep == SidecarInv /\ TargetNext => SidecarInv'
  <1> SUFFICES ASSUME SidecarInv, TargetNext PROVE SidecarInv'
    OBVIOUS
  <1> USE DEF SidecarInv, Known
  <1>1. ASSUME NEW t \in Threads, NEW policy \in Policies, TargetHits(t, policy)
        PROVE  SidecarInv'
    <2>1. policy \in {"thread", "all"}
      BY SidecarAssumption
    <2>2. [kind |-> "hit", thread |-> t, policy |-> policy] \in VmEvents
      BY <2>1 DEF VmEvents
    <2>3. vmEvents' \in Seq(VmEvents) /\ suspends' \in [Threads -> Nat]
      BY <1>1, <2>2, CountTypes, AppendProperties DEF TargetHits, SidecarTypeOK
    <2> QED BY <1>1, <2>3 DEF TargetHits, SidecarTypeOK, queueVars
  <1>2. ASSUME NEW t \in Threads, TargetSteps(t) PROVE SidecarInv'
    <2>1. [kind |-> "step", thread |-> t, policy |-> "thread"] \in VmEvents
      BY DEF VmEvents
    <2>2. vmEvents' \in Seq(VmEvents) /\ suspends' \in [Threads -> Nat]
      BY <1>2, <2>1, CountTypes, AppendProperties DEF TargetSteps, SidecarTypeOK
    <2> QED BY <1>2, <2>2 DEF TargetSteps, SidecarTypeOK, queueVars
  <1>3. CASE TargetExits
    <2>1. [kind |-> "vmDeath"] \in VmEvents
      BY DEF VmEvents
    <2>2. vmEvents' \in Seq(VmEvents)
      BY <1>3, <2>1, AppendProperties DEF TargetExits, SidecarTypeOK
    <2>3. vmUp' \in BOOLEAN
      BY <1>3, Zenon DEF TargetExits
    <2> QED BY <1>3, <2>2, <2>3 DEF TargetExits, SidecarTypeOK, queueVars
  <1> QED BY <1>1, <1>2, <1>3 DEF TargetNext, TargetHitsRequest

\* The event loop's steps.
LEMMA LoopTypeStep == SidecarInv /\ LoopNext => SidecarInv'
  <1> SUFFICES ASSUME SidecarInv, LoopNext PROVE SidecarInv'
    OBVIOUS
  <1>0. SidecarTypeOK /\ stops \in Seq(Known)
    BY DEF SidecarInv
  <1>k. raised' = raised => Known' = Known
    BY DEF Known
  <1>t. ASSUME NEW kinds, LoopReads(kinds) PROVE vmEvents' \in Seq(VmEvents)
    BY <1>0, <1>t, TailSeq DEF LoopReads, SidecarTypeOK
  <1>1. CASE LoopAccepts
    <2> DEFINE hit == [thread |-> Head(vmEvents).thread, policy |-> Head(vmEvents).policy]
    <2>1. hit \in Hits /\ raised' = Append(raised, hit) /\ Len(raised) < MaxStops
      BY <1>0, <1>1, HitTypes DEF LoopAccepts, LoopReads
    <2> HIDE DEF hit
    <2>2. raised' \in Seq(Hits) /\ Len(raised') = Len(raised) + 1 /\ Len(raised) \in Nat
      BY <1>0, <2>1, AppendProperties, LenProperties DEF SidecarTypeOK
    <2>3. Known \subseteq Known' /\ Len(raised) + 1 \in Known'
      <3>1. ASSUME NEW e \in Known PROVE e \in Known'
        <4>1. e \in SidecarEvents /\ (e \in StopIds => e <= Len(raised))
          BY DEF Known
        <4>2. e \in StopIds => e <= Len(raised')
          BY <4>1, <2>2 DEF StopIds
        <4> QED BY <4>1, <4>2 DEF Known
      <3>2. Len(raised) + 1 \in StopIds
        BY <2>1, <2>2, MaxStopsAssumption DEF StopIds
      <3>3. Len(raised) + 1 \in Known'
        BY <3>2, <2>2 DEF Known, SidecarEvents
      <3> QED BY <3>1, <3>3
    <2>4. stops' \in Seq(Known')
      BY <1>0, <1>1, <2>3, SeqMonotonic DEF LoopAccepts
    <2>5. loop' = [pc |-> "queue", stop |-> Len(raised) + 1]
      BY <1>1 DEF LoopAccepts
    <2>6. rpc' = rpc /\ vmEvents' \in Seq(VmEvents)
      BY <1>1, <1>t DEF LoopAccepts
    <2>7. loop' \in LoopStates
      BY <2>3, <2>5 DEF Known, LoopStates
    <2>8. SidecarTypeOK'
      BY <1>0, <1>1, <2>2, <2>6, <2>7 DEF LoopAccepts, SidecarTypeOK
    <2> QED BY <2>3, <2>4, <2>5, <2>6, <2>8 DEF SidecarInv
  <1>2. CASE LoopRejects
    <2>1. suspends' \in [Threads -> Nat]
      BY <1>0, <1>2 DEF LoopRejects, SidecarTypeOK, Minus
    <2>2. vmEvents' \in Seq(VmEvents)
      BY <1>2, <1>t DEF LoopRejects
    <2> QED BY <1>0, <1>2, <1>k, <2>1, <2>2 DEF LoopRejects, SidecarTypeOK, SidecarInv, queueVars
  <1>3. CASE LoopFails
    <2>1. vmEvents' \in Seq(VmEvents)
      BY <1>3, <1>t DEF LoopFails
    <2>2. loop' \in {[pc |-> "idle", stop |-> NoEvent], [pc |-> "ended", stop |-> NoEvent]}
      BY <1>3 DEF LoopFails, LoopIdle
    <2> QED BY <1>0, <1>3, <1>k, <2>1, <2>2 DEF LoopFails, SidecarTypeOK, SidecarInv, queueVars, LoopStates
  <1>4. CASE LoopQueuesStop
    <2>1. loop.stop \in Known /\ Known' = Known
      BY <1>4, <1>k DEF LoopQueuesStop, SidecarInv
    <2>2. stops' \in Seq(Known) /\ stops' \in Seq(SidecarEvents)
      <3>1. Known \subseteq SidecarEvents /\ stops' = Append(stops, loop.stop)
        BY <1>4 DEF LoopQueuesStop, Known
      <3>2. stops' \in Seq(Known)
        BY <1>0, <2>1, <3>1, AppendProperties
      <3> QED BY <3>1, <3>2, SeqMonotonic
    <2>3. /\ current' \in StopIds \cup {VmStart, NoEvent}
          /\ currentThread' \in Threads \cup {NoThread}
      <3>1. CASE current = NoEvent
        BY <1>0, <1>4, <2>1, <3>1, SelectStopTypes DEF LoopQueuesStop
      <3>2. CASE current # NoEvent
        BY <1>0, <1>4, <3>2 DEF LoopQueuesStop, SidecarTypeOK
      <3> QED BY <3>1, <3>2
    <2>4. /\ loop' \in LoopStates
          /\ loop'.stop \in Known
      BY <1>0, <1>4, <2>1 DEF LoopQueuesStop, SidecarTypeOK, LoopStates
    <2>5. SidecarTypeOK'
      BY <1>0, <1>4, <2>2, <2>3, <2>4 DEF LoopQueuesStop, SidecarTypeOK, targetVars
    <2> QED BY <1>4, <2>1, <2>2, <2>4, <2>5 DEF LoopQueuesStop, SidecarInv
  <1>5. CASE LoopVmStart
    <2>1. VmStart \in Known /\ Known' = Known
      BY <1>5, <1>k, EventsDistinct DEF LoopVmStart, Known, SidecarEvents
    <2>2. stops' \in Seq(Known) /\ stops' \in Seq(SidecarEvents)
      <3>1. Known \subseteq SidecarEvents /\ stops' = Append(stops, VmStart)
        BY <1>5 DEF LoopVmStart, Known
      <3>2. stops' \in Seq(Known)
        BY <1>0, <2>1, <3>1, AppendProperties
      <3> QED BY <3>1, <3>2, SeqMonotonic
    <2>3. loop' = [pc |-> "send", stop |-> VmStart] /\ vmEvents' \in Seq(VmEvents)
      BY <1>5, <1>t DEF LoopVmStart
    <2>4. SidecarTypeOK'
      BY <1>0, <1>5, <2>2, <2>3 DEF LoopVmStart, SidecarTypeOK, SidecarEvents, LoopStates
    <2> QED BY <1>5, <2>1, <2>2, <2>3, <2>4 DEF LoopVmStart, SidecarInv
  <1>6. CASE LoopVmDeath
    <2>1. VmExit \in Known /\ Known' = Known
      BY <1>6, <1>k, EventsDistinct DEF LoopVmDeath, Known, SidecarEvents
    <2>2. stops' \in Seq(Known) /\ stops' \in Seq(SidecarEvents)
      <3>1. Known \subseteq SidecarEvents /\ stops' = Append(stops, VmExit)
        BY <1>6 DEF LoopVmDeath, Known
      <3>2. stops' \in Seq(Known)
        BY <1>0, <2>1, <3>1, AppendProperties
      <3> QED BY <3>1, <3>2, SeqMonotonic
    <2>3. loop' = [pc |-> "send", stop |-> VmExit] /\ vmEvents' \in Seq(VmEvents)
      BY <1>6, <1>t DEF LoopVmDeath
    <2>4. SidecarTypeOK'
      BY <1>0, <1>6, <2>2, <2>3 DEF LoopVmDeath, SidecarTypeOK, SidecarEvents, LoopStates
    <2> QED BY <1>6, <2>1, <2>2, <2>3, <2>4 DEF LoopVmDeath, SidecarInv
  <1>7. CASE LoopSends
    <2>1. [type |-> "event", event |-> loop.stop] \in Messages
      BY <1>7 DEF LoopSends, SidecarInv, Known, Messages
    <2>2. toDaemon' \in Seq(Messages)
      BY <1>0, <1>7, <2>1, AppendProperties DEF LoopSends, SidecarTypeOK
    <2>3. loop' \in {[pc |-> "idle", stop |-> NoEvent], [pc |-> "ended", stop |-> NoEvent]}
      BY <1>7 DEF LoopSends, LoopIdle
    <2> QED BY <1>0, <1>7, <1>k, <2>2, <2>3
            DEF LoopSends, SidecarTypeOK, SidecarInv, queueVars, targetVars, LoopStates
  <1> QED BY <1>1, <1>2, <1>3, <1>4, <1>5, <1>6, <1>7 DEF LoopNext

\* An answer is a result, and the RPC thread is past the queue.
LEMMA AnswerTypes ==
    ASSUME SidecarTypeOK, NEW result \in Results, Answer(result)
    PROVE  rpc' \in RpcStates /\ rpc'.pc # "examine"
  BY DEF Answer, SidecarTypeOK, RpcStates

LEMMA PlainResults ==
    /\ TimedOut \in Results
    /\ Ok(<<>>) \in Results
    /\ RpcError \in Results
    /\ \A s \in StopIds \cup {VmExit} : Stopped(s) \in Results
    /\ \A ids \in Seq(StopIds) : Ok(ids) \in Results
  <1>1. <<>> \in Seq(StopIds)
    BY EmptySeq
  <1> QED BY <1>1 DEF TimedOut, Ok, RpcError, Stopped, Results

\* The RPC thread's steps that take a record from the queue or give it up.
LEMMA RpcQueueTypeStep ==
    ASSUME SidecarInv,
           \/ PollQueuedStopOrResume \/ PollStop \/ ExamineStop \/ StepDiscardsOther
           \/ AckStop \/ DiscardNext
    PROVE  SidecarInv'
  <1>0. SidecarTypeOK /\ stops \in Seq(Known)
    BY DEF SidecarInv
  <1>k. raised' = raised => Known' = Known
    BY DEF Known
  <1>e. Known \subseteq SidecarEvents
    BY DEF Known
  <1>1. CASE PollQueuedStopOrResume
    <2>1. CASE stops = <<>>
      <3>1. /\ current' \in StopIds \cup {VmStart, NoEvent}
            /\ suspends' \in [Threads -> Nat]
        BY <1>0, <1>1, <2>1, ResumeStopSetTypes DEF PollQueuedStopOrResume
      <3>2. rpc' \in RpcStates /\ rpc'.pc = "wait"
        BY <1>0, <1>1, <2>1 DEF PollQueuedStopOrResume, SidecarTypeOK, RpcStates
      <3>3. SidecarTypeOK'
        BY <1>0, <1>1, <2>1, <3>1, <3>2 DEF PollQueuedStopOrResume, SidecarTypeOK
      <3> QED BY <1>1, <1>k, <2>1, <3>2, <3>3 DEF PollQueuedStopOrResume, SidecarInv
    <2>2. CASE stops # <<>>
      <3>1. /\ Head(stops) \in Known
            /\ stops' \in Seq(Known)
            /\ stops' \in Seq(SidecarEvents)
        BY <1>0, <1>1, <1>e, <2>2, TailSeq, SeqMonotonic DEF PollQueuedStopOrResume
      <3>2. rpc' \in RpcStates /\ rpc'.stop = Head(stops)
        BY <1>0, <1>1, <1>e, <2>2, <3>1 DEF PollQueuedStopOrResume, SidecarTypeOK, RpcStates
      <3>3. SidecarTypeOK'
        BY <1>0, <1>1, <2>2, <3>1, <3>2 DEF PollQueuedStopOrResume, SidecarTypeOK
      <3> QED BY <1>1, <1>k, <2>2, <3>1, <3>2, <3>3 DEF PollQueuedStopOrResume, SidecarInv
    <2> QED BY <2>1, <2>2
  <1>2. CASE PollStop
    <2>1. /\ Head(stops) \in Known
          /\ stops' \in Seq(Known)
          /\ stops' \in Seq(SidecarEvents)
      BY <1>0, <1>2, <1>e, TailSeq, SeqMonotonic DEF PollStop
    <2>2. rpc' \in RpcStates /\ rpc'.stop = Head(stops)
      BY <1>0, <1>2, <1>e, <2>1 DEF PollStop, SidecarTypeOK, RpcStates
    <2>3. SidecarTypeOK'
      BY <1>0, <1>2, <2>1, <2>2 DEF PollStop, SidecarTypeOK, targetVars
    <2> QED BY <1>2, <1>k, <2>1, <2>2, <2>3 DEF PollStop, SidecarInv
  <1>3. CASE ExamineStop
    <2>0. rpc.stop \in Known
      BY <1>3 DEF ExamineStop, RpcAt, SidecarInv
    <2>1. CASE rpc.stop = VmStart \/ ~ AcceptsStop(rpc.stop)
      <3>1. /\ current' \in StopIds \cup {VmStart, NoEvent}
            /\ suspends' \in [Threads -> Nat]
            /\ dropped' \subseteq StopIds
        <4>1. dropped' \subseteq StopIds
          BY <1>0, <1>3, <2>1, DropsTypes DEF ExamineStop
        <4>2. CASE rpc.stop = VmExit
          BY <1>0, <1>3, <2>1, <4>1, <4>2 DEF ExamineStop, SidecarTypeOK
        <4>3. CASE rpc.stop # VmExit
          BY <1>0, <1>3, <2>1, <4>1, <4>3, ResumeStopSetTypes DEF ExamineStop
        <4> QED BY <4>1, <4>2, <4>3
      <3>2. rpc' \in RpcStates /\ rpc'.pc = "wait" /\ currentThread' = currentThread
        BY <1>0, <1>3, <2>1 DEF ExamineStop, SidecarTypeOK, RpcStates
      <3>3. SidecarTypeOK'
        BY <1>0, <1>3, <3>1, <3>2 DEF ExamineStop, SidecarTypeOK
      <3> QED BY <1>3, <1>k, <3>2, <3>3 DEF ExamineStop, SidecarInv
    <2>2. CASE ~ (rpc.stop = VmStart \/ ~ AcceptsStop(rpc.stop))
      <3>1. /\ current' \in StopIds \cup {VmStart, NoEvent}
            /\ currentThread' \in Threads \cup {NoThread}
        BY <1>0, <1>3, <2>0, <2>2, SelectStopTypes DEF ExamineStop
      <3>2. Stopped(rpc.stop) \in Results
        BY <2>0, <2>2, <1>e, PlainResults DEF SidecarEvents
      <3>3. rpc' \in RpcStates /\ rpc'.pc # "examine"
        BY <1>0, <1>3, <2>2, <3>2, AnswerTypes DEF ExamineStop
      <3>4. SidecarTypeOK'
        BY <1>0, <1>3, <2>2, <3>1, <3>3 DEF ExamineStop, SidecarTypeOK
      <3> QED BY <1>3, <1>k, <3>3, <3>4 DEF ExamineStop, SidecarInv
    <2> QED BY <2>1, <2>2
  <1>4. CASE StepDiscardsOther
    <2>1. PICK i \in DOMAIN stops :
            stops' = RemoveAt(stops, i) /\ ResumeStopSet(stops[i]) /\ Drops({stops[i]})
      BY <1>4 DEF StepDiscardsOther
    <2>2. stops' \in Seq(Known) /\ stops' \in Seq(SidecarEvents)
      <3>1. stops' \in Seq(Known)
        BY <1>0, <2>1, RemoveAtSeq
      <3> QED BY <3>1, <1>e, SeqMonotonic
    <2>3. /\ current' \in StopIds \cup {VmStart, NoEvent}
          /\ suspends' \in [Threads -> Nat]
          /\ dropped' \subseteq StopIds
      BY <1>0, <2>1, ResumeStopSetTypes, DropsTypes
    <2>4. SidecarTypeOK'
      BY <1>0, <1>4, <2>2, <2>3 DEF StepDiscardsOther, SidecarTypeOK
    <2> QED BY <1>4, <1>k, <2>2, <2>4 DEF StepDiscardsOther, SidecarInv
  <1>5. CASE AckStop
    <2>1. /\ stops' \in Seq(Known)
          /\ current' \in StopIds \cup {VmStart, NoEvent}
          /\ currentThread' \in Threads \cup {NoThread}
          /\ suspends' \in [Threads -> Nat]
      <3>1. CASE rpc.stop \in ToSet(stops)
        <4>1. rpc.stop \in Known
          BY <1>0, <3>1, MemberOfSeq
        <4>2. stops' \in Seq(Known)
          BY <1>0, <1>5, <3>1, RemoveFirstSeq DEF AckStop
        <4>3. /\ current' \in StopIds \cup {VmStart, NoEvent}
              /\ currentThread' \in Threads \cup {NoThread}
          BY <1>0, <1>5, <3>1, <4>1, SelectStopTypes DEF AckStop
        <4>4. suspends' \in [Threads -> Nat]
          BY <1>0, <1>5, <3>1, CountTypes DEF AckStop, SidecarTypeOK
        <4> QED BY <4>2, <4>3, <4>4
      <3>2. CASE rpc.stop \notin ToSet(stops)
        BY <1>0, <1>5, <3>2 DEF AckStop, SidecarTypeOK
      <3> QED BY <3>1, <3>2
    <2>2. stops' \in Seq(SidecarEvents)
      BY <2>1, <1>e, SeqMonotonic
    <2>3. rpc' \in RpcStates /\ rpc'.pc # "examine"
      BY <1>0, <1>5, PlainResults, AnswerTypes DEF AckStop
    <2>4. SidecarTypeOK'
      BY <1>0, <1>5, <2>1, <2>2, <2>3 DEF AckStop, SidecarTypeOK
    <2> QED BY <1>5, <1>k, <2>1, <2>3, <2>4 DEF AckStop, SidecarInv
  <1>6. CASE DiscardNext
    <2>1. /\ stops' \in Seq(Known)
          /\ stops' \in Seq(SidecarEvents)
      BY <1>0, <1>6, <1>e, TailSeq, SeqMonotonic DEF DiscardNext
    <2>2. /\ current' \in StopIds \cup {VmStart, NoEvent}
          /\ suspends' \in [Threads -> Nat]
      <3>1. CASE Head(stops) = rpc.stop
        BY <1>0, <1>6, <3>1 DEF DiscardNext, SidecarTypeOK
      <3>2. CASE Head(stops) # rpc.stop
        BY <1>0, <1>6, <3>2, ResumeStopSetTypes DEF DiscardNext
      <3> QED BY <3>1, <3>2
    <2>3. dropped' \subseteq StopIds
      BY <1>0, <1>6, DropsTypes DEF DiscardNext
    <2>4. rpc' \in RpcStates /\ rpc'.pc = rpc.pc
      <3>1. CASE Head(stops) \in StopIds
        <4>1. rpc.result.ids \in Seq(StopIds)
          BY <1>0 DEF SidecarTypeOK, RpcStates, Results
        <4>2. Append(rpc.result.ids, Head(stops)) \in Seq(StopIds)
          BY <3>1, <4>1, AppendProperties
        <4> DEFINE r == Ok(Append(rpc.result.ids, Head(stops)))
        <4>3. r \in Results
          BY <4>2, PlainResults
        <4>4. rpc' = [rpc EXCEPT !.result = r]
          BY <1>6, <3>1 DEF DiscardNext
        <4> HIDE DEF r
        <4> QED BY <1>0, <4>3, <4>4 DEF SidecarTypeOK, RpcStates
      <3>2. CASE Head(stops) \notin StopIds
        BY <1>0, <1>6, <3>2 DEF DiscardNext, SidecarTypeOK
      <3> QED BY <3>1, <3>2
    <2>5. SidecarTypeOK'
      BY <1>0, <1>6, <2>1, <2>2, <2>3, <2>4 DEF DiscardNext, SidecarTypeOK
    <2>6. rpc'.pc # "examine"
      BY <1>6, <2>4 DEF DiscardNext, RpcAt
    <2> QED BY <1>6, <1>k, <2>1, <2>5, <2>6 DEF DiscardNext, SidecarInv
  <1> QED BY <1>1, <1>2, <1>3, <1>4, <1>5, <1>6

\* The RPC thread's other steps.
LEMMA RpcTypeStep == SidecarInv /\ RpcNext => SidecarInv'
  <1> SUFFICES ASSUME SidecarInv, RpcNext PROVE SidecarInv'
    OBVIOUS
  <1>0. SidecarTypeOK /\ stops \in Seq(Known)
    BY DEF SidecarInv
  <1>k. raised' = raised => Known' = Known
    BY DEF Known
  <1>1. CASE RpcReads
    <2>1. toSidecar' \in Seq(Requests) /\ Head(toSidecar) \in Requests
      BY <1>0, <1>1, TailSeq DEF RpcReads, SidecarTypeOK
    <2>2. FirstStep(Head(toSidecar).method) \in {"poll"} \cup Methods
      BY <2>1 DEF FirstStep, Requests, Methods
    <2>3. /\ rpc' \in RpcStates
          /\ rpc'.pc = FirstStep(Head(toSidecar).method)
      BY <1>1, <2>1, <2>2, PlainResults
      DEF RpcReads, RpcIdle, RpcStates, Requests, SidecarEvents, Methods
    <2>4. rpc'.pc # "examine"
      BY <2>2, <2>3 DEF Methods
    <2>5. SidecarTypeOK'
      BY <1>0, <1>1, <2>1, <2>3 DEF RpcReads, SidecarTypeOK, targetVars, queueVars
    <2> QED BY <1>0, <1>1, <1>k, <2>4, <2>5 DEF RpcReads, SidecarInv, queueVars
  <1>2. CASE \/ PollQueuedStopOrResume \/ PollStop \/ ExamineStop \/ StepDiscardsOther
             \/ AckStop \/ DiscardNext
    BY <1>2, RpcQueueTypeStep
  <1>3. CASE TimesOut
    <2>1. rpc' \in RpcStates /\ rpc'.pc # "examine"
      BY <1>0, <1>3, PlainResults, AnswerTypes DEF TimesOut
    <2> QED BY <1>0, <1>3, <1>k, <2>1 DEF TimesOut, SidecarTypeOK, SidecarInv, targetVars, queueVars
  <1>4. ASSUME NEW t \in Threads, StepBegins(t) PROVE SidecarInv'
    <2>1. rpc' \in RpcStates /\ rpc'.pc # "examine"
      BY <1>0, <1>4 DEF StepBegins, SidecarTypeOK, RpcStates
    <2> QED BY <1>0, <1>4, <1>k, <2>1 DEF StepBegins, SidecarTypeOK, SidecarInv
  <1>5. CASE StepFails
    <2>1. rpc' \in RpcStates /\ rpc'.pc # "examine"
      BY <1>0, <1>5, PlainResults DEF StepFails, SidecarTypeOK, RpcStates
    <2> QED BY <1>0, <1>5, <1>k, <2>1 DEF StepFails, SidecarTypeOK, SidecarInv, targetVars, queueVars
  <1>6. CASE StepDiscardedOthers
    <2>1. rpc' \in RpcStates /\ rpc'.pc # "examine"
      BY <1>0, <1>6 DEF StepDiscardedOthers, SidecarTypeOK, RpcStates
    <2> QED BY <1>0, <1>6, <1>k, <2>1
            DEF StepDiscardedOthers, SidecarTypeOK, SidecarInv, targetVars, queueVars
  <1>7. CASE StepFinally
    <2>1. rpc' \in RpcStates /\ rpc'.pc # "examine"
      BY <1>0, <1>7 DEF StepFinally, SidecarTypeOK, RpcStates
    <2> QED BY <1>0, <1>7, <1>k, <2>1 DEF StepFinally, SidecarTypeOK, SidecarInv
  <1>8. CASE SuspendAll
    <2>1. rpc' \in RpcStates /\ rpc'.pc # "examine"
      BY <1>0, <1>8, PlainResults, AnswerTypes DEF SuspendAll
    <2>2. suspends' \in [Threads -> Nat]
      BY <1>0, <1>8, CountTypes DEF SuspendAll
    <2> QED BY <1>0, <1>8, <1>k, <2>1, <2>2 DEF SuspendAll, SidecarTypeOK, SidecarInv, queueVars
  <1>9. CASE DiscardCurrent
    <2>1. Ok(<<>>) \in Results /\ current \in SidecarEvents \cup {NoEvent}
      BY <1>0, PlainResults DEF SidecarTypeOK, SidecarEvents
    <2>2. rpc' \in RpcStates /\ rpc'.pc # "examine"
      BY <1>0, <1>9, <2>1 DEF DiscardCurrent, SidecarTypeOK, RpcStates
    <2>3. /\ current' \in StopIds \cup {VmStart, NoEvent}
          /\ suspends' \in [Threads -> Nat]
      BY <1>0, <1>9, ResumeStopSetTypes DEF DiscardCurrent
    <2> QED BY <1>0, <1>9, <1>k, <2>2, <2>3 DEF DiscardCurrent, SidecarTypeOK, SidecarInv
  <1>10. CASE VmResume
    <2>1. rpc' \in RpcStates /\ rpc'.pc # "examine"
      BY <1>0, <1>10 DEF VmResume, SidecarTypeOK, RpcStates
    <2>2. suspends' \in [Threads -> Nat]
      BY <1>0, <1>10, CountTypes DEF VmResume
    <2> QED BY <1>0, <1>10, <1>k, <2>1, <2>2 DEF VmResume, SidecarTypeOK, SidecarInv, queueVars
  <1>11. CASE Terminate
    <2>1. rpc' \in RpcStates /\ rpc'.pc # "examine"
      BY <1>0, <1>11, PlainResults, AnswerTypes DEF Terminate
    <2>2. /\ current' \in StopIds \cup {VmStart, NoEvent}
          /\ suspends' \in [Threads -> Nat]
      BY <1>0, <1>11, ResumeStopSetTypes DEF Terminate
    <2>3. vmEvents' \in Seq(VmEvents)
      <3> DEFINE death == [kind |-> "vmDeath"]
      <3>1. death \in VmEvents
        BY DEF VmEvents
      <3>2. vmEvents' = Append(vmEvents, death) \/ vmEvents' = vmEvents
        BY <1>11, Zenon DEF Terminate
      <3>3. vmEvents \in Seq(VmEvents)
        BY <1>0 DEF SidecarTypeOK
      <3> HIDE DEF death
      <3> QED BY <3>1, <3>2, <3>3, AppendProperties
    <2>4. vmUp' \in BOOLEAN
      BY <1>11, Zenon DEF Terminate
    <2> QED BY <1>0, <1>11, <1>k, <2>1, <2>2, <2>3, <2>4 DEF Terminate, SidecarTypeOK, SidecarInv
  <1>12. CASE TargetGone
    <2>1. rpc' \in RpcStates /\ rpc'.pc # "examine"
      BY <1>0, <1>12, PlainResults DEF TargetGone, SidecarTypeOK, RpcStates
    <2>2. /\ stops' \in Seq(Known)
          /\ current' \in StopIds \cup {VmStart, NoEvent}
          /\ stepThread' \in Threads \cup {NoThread}
          /\ dropped' \subseteq StopIds
      <3>1. CASE GoneWhilePolling
        BY <1>0, <3>1 DEF GoneWhilePolling, SidecarTypeOK
      <3>2. CASE GoneWhileStepping
        <4>1. CASE UNCHANGED <<stops, stepThread, current, dropped>>
          BY <1>0, <4>1 DEF SidecarTypeOK
        <4>2. CASE \E i \in DOMAIN stops :
                     /\ stops' = RemoveAt(stops, i)
                     /\ Drops({stops[i]})
                     /\ current' = IF current = stops[i] THEN NoEvent ELSE current
                     /\ UNCHANGED stepThread
          BY <1>0, <4>2, RemoveAtSeq, DropsTypes DEF SidecarTypeOK
        <4> QED BY <3>2, <4>1, <4>2 DEF GoneWhileStepping
      <3>3. CASE GoneWhileAcking
        BY <1>0, <3>3, RemoveFirstSeq DEF GoneWhileAcking, SidecarTypeOK
      <3>4. CASE GoneWhileResuming
        BY <1>0, <3>4, TailSeq, DropsTypes DEF GoneWhileResuming, SidecarTypeOK
      <3> QED BY <1>12, <3>1, <3>2, <3>3, <3>4 DEF TargetGone
    <2>3. stops' \in Seq(SidecarEvents)
      <3>1. Known \subseteq SidecarEvents
        BY DEF Known
      <3> QED BY <2>2, <3>1, SeqMonotonic
    <2>4. SidecarTypeOK'
      BY <1>0, <1>12, <2>1, <2>2, <2>3 DEF TargetGone, SidecarTypeOK, targetVars
    <2> QED BY <1>12, <1>k, <2>1, <2>2, <2>4 DEF TargetGone, SidecarInv
  <1>13. CASE RpcReplies
    <2>1. rpc' = RpcIdle /\ RpcIdle \in RpcStates /\ RpcIdle.pc # "examine"
      BY <1>13, PlainResults DEF RpcReplies, RpcIdle, RpcStates, Methods
    <2>2. [type |-> "response", id |-> rpc.id, result |-> rpc.result] \in Messages
      BY <1>0 DEF SidecarTypeOK, RpcStates, Messages
    <2>3. toDaemon' \in Seq(Messages)
      BY <1>0, <1>13, <2>2, AppendProperties DEF RpcReplies, SidecarTypeOK
    <2>4. SidecarTypeOK'
      BY <1>0, <1>13, <2>1, <2>3 DEF RpcReplies, SidecarTypeOK, targetVars, queueVars
    <2> QED BY <1>0, <1>13, <1>k, <2>1, <2>4 DEF RpcReplies, SidecarInv, queueVars
  <1> QED BY <1>1, <1>2, <1>3, <1>4, <1>5, <1>6, <1>7, <1>8, <1>9, <1>10, <1>11, <1>12, <1>13
          DEF RpcNext

\* The initial states are typed.
LEMMA SidecarInvInit == SidecarInit => SidecarInv
  <1> SUFFICES ASSUME SidecarInit PROVE SidecarInv
    OBVIOUS
  <1>1. \A S : <<>> \in Seq(S)
    BY EmptySeq
  <1>2. <<[kind |-> "vmStart"]>> \in Seq(VmEvents)
    BY DEF VmEvents
  <1>3. LoopIdle \in LoopStates /\ RpcIdle \in RpcStates
    BY PlainResults DEF LoopIdle, LoopStates, RpcIdle, RpcStates, Methods
  <1>4. vmUp \in BOOLEAN /\ alive \in BOOLEAN
    BY Zenon DEF SidecarInit
  <1> QED
    BY <1>1, <1>2, <1>3, <1>4 DEF SidecarInit, SidecarInv, SidecarTypeOK, LoopIdle, RpcIdle

-----------------------------------------------------------------------------
(* The filter and the request of a step belong to the step being served.   *)

StepPcs == {"discardOthers", "poll", "wait", "examine", "finally"}

\* Inductive: while the target is up, a filter or a step request is there
\* only in the middle of a step, on its way to the finally block.
FilterOwned ==
    /\ rpc.pc \in {"step", "discardOthers"} => rpc.method = "step"
    /\ vmUp /\ (stepThread # NoThread \/ stepReq # NoThread) =>
          rpc.method = "step" /\ rpc.pc \in StepPcs

LEMMA FilterOwnedInit == SidecarInit => FilterOwned
  BY DEF SidecarInit, FilterOwned, RpcIdle

\* The first request step of a method is its own, but for continue.
LEMMA FirstStepIsStep ==
    ASSUME NEW method
    PROVE  /\ FirstStep(method) = "step" => method = "step"
           /\ FirstStep(method) = "discardOthers" => method = "discardOthers"
  BY DEF FirstStep

\* An answer keeps the request; that of a step goes through finally.
LEMMA AnswerPc ==
    ASSUME SidecarTypeOK, NEW result, Answer(result)
    PROVE  /\ rpc'.method = rpc.method
           /\ rpc'.pc = IF rpc.method = "step" THEN "finally" ELSE "reply"
  BY DEF Answer, SidecarTypeOK, RpcStates

LEMMA FilterOwnedStep ==
    SidecarTypeOK /\ FilterOwned /\ (TargetNext \/ LoopNext \/ RpcNext) => FilterOwned'
  <1> SUFFICES ASSUME SidecarTypeOK, FilterOwned, TargetNext \/ LoopNext \/ RpcNext
               PROVE  FilterOwned'
    OBVIOUS
  <1>1. CASE TargetNext
    <2>1. CASE TargetHitsRequest
      BY <2>1 DEF TargetHitsRequest, TargetHits, FilterOwned, queueVars
    <2>2. ASSUME NEW t \in Threads, TargetSteps(t) PROVE FilterOwned'
      BY <2>2 DEF TargetSteps, FilterOwned, queueVars
    <2>3. CASE TargetExits
      BY <2>3 DEF TargetExits, FilterOwned
    <2> QED BY <1>1, <2>1, <2>2, <2>3 DEF TargetNext
  <1>2. CASE LoopNext
    <2>1. UNCHANGED <<vmUp, stepReq, stepThread, rpc>>
      BY <1>2 DEF LoopNext, LoopAccepts, LoopRejects, LoopFails, LoopQueuesStop, LoopVmStart,
                  LoopVmDeath, LoopSends, queueVars, targetVars
    <2> QED BY <2>1 DEF FilterOwned
  <1>3. CASE RpcReads
    <2>1. /\ rpc.pc = "idle"
          /\ UNCHANGED <<vmUp, stepReq, stepThread>>
          /\ rpc'.pc = FirstStep(Head(toSidecar).method)
          /\ rpc'.method = Head(toSidecar).method
      BY <1>3 DEF RpcReads, RpcIdle, targetVars, queueVars
    <2>2. Head(toSidecar).method \in Methods
      BY <1>3, TailSeq DEF RpcReads, SidecarTypeOK, Requests
    <2> QED BY <2>1, <2>2, FirstStepIsStep DEF FilterOwned, StepPcs, Methods
  <1>4. CASE PollQueuedStopOrResume \/ PollStop
    <2>1. UNCHANGED <<vmUp, stepReq, stepThread>> /\ rpc.pc \in {"poll", "wait"}
      BY <1>4 DEF PollQueuedStopOrResume, PollStop, RpcAt, targetVars
    <2>2. \/ rpc' = [rpc EXCEPT !.pc = "wait"]
          \/ rpc' = [rpc EXCEPT !.pc = "examine", !.stop = Head(stops)]
      BY <1>4 DEF PollQueuedStopOrResume, PollStop
    <2>3. rpc'.pc \in {"wait", "examine"} /\ rpc'.method = rpc.method
      BY <2>2 DEF SidecarTypeOK, RpcStates
    <2> QED BY <2>1, <2>3 DEF FilterOwned, StepPcs
  <1>5. CASE TimesOut
    BY <1>5, AnswerPc DEF TimesOut, RpcAt, FilterOwned, StepPcs, targetVars, queueVars
  <1>6. CASE ExamineStop
    <2>1. \/ rpc' = [rpc EXCEPT !.pc = "wait", !.stop = NoEvent]
          \/ Answer(Stopped(rpc.stop))
      BY <1>6 DEF ExamineStop
    <2>2. UNCHANGED <<vmUp, stepReq, stepThread>> /\ rpc.pc = "examine"
      BY <1>6 DEF ExamineStop, RpcAt
    <2>3. CASE rpc' = [rpc EXCEPT !.pc = "wait", !.stop = NoEvent]
      BY <2>2, <2>3 DEF FilterOwned, StepPcs, SidecarTypeOK, RpcStates
    <2>4. CASE Answer(Stopped(rpc.stop))
      BY <2>2, <2>4, AnswerPc DEF FilterOwned, StepPcs
    <2> QED BY <2>1, <2>3, <2>4
  <1>7. ASSUME NEW t \in Threads, StepBegins(t) PROVE FilterOwned'
    BY <1>7 DEF StepBegins, RpcAt, FilterOwned, StepPcs, SidecarTypeOK, RpcStates
  <1>8. CASE StepDiscardsOther \/ StepDiscardedOthers
    BY <1>8 DEF StepDiscardsOther, StepDiscardedOthers, RpcAt, FilterOwned, StepPcs,
                SidecarTypeOK, RpcStates, targetVars, queueVars
  <1>9. CASE StepFails
    BY <1>9 DEF StepFails, RpcAt, FilterOwned, StepPcs, SidecarTypeOK, RpcStates,
                targetVars, queueVars
  <1>10. CASE StepFinally
    BY <1>10 DEF StepFinally, FilterOwned, SidecarTypeOK, RpcStates
  <1>11. CASE AckStop \/ SuspendAll
    <2>1. /\ UNCHANGED <<vmUp, stepReq, stepThread>>
          /\ Answer(Ok(<<>>))
          /\ rpc.pc \in {"ackStop", "suspend"}
      BY <1>11 DEF AckStop, SuspendAll, RpcAt, queueVars
    <2> QED BY <2>1, AnswerPc DEF FilterOwned, StepPcs
  <1>12. CASE DiscardCurrent \/ VmResume
    <2>1. UNCHANGED <<vmUp, stepReq, stepThread>> /\ rpc.pc \in {"resume", "discard"}
      BY <1>12 DEF DiscardCurrent, VmResume, RpcAt, queueVars
    <2>2. \/ rpc' = [rpc EXCEPT !.pc = "discard", !.stop = current, !.result = Ok(<<>>)]
          \/ rpc' = [rpc EXCEPT !.pc = "reply"]
      BY <1>12 DEF DiscardCurrent, VmResume
    <2>3. rpc'.pc \in {"discard", "reply"}
      BY <2>2 DEF SidecarTypeOK, RpcStates
    <2> QED BY <2>1, <2>3 DEF FilterOwned, StepPcs
  <1>13. CASE DiscardNext
    <2>1. UNCHANGED <<vmUp, stepReq, stepThread>> /\ rpc'.pc = rpc.pc /\ rpc'.method = rpc.method
      <3>1. rpc' = rpc \/ \E r : rpc' = [rpc EXCEPT !.result = r]
        BY <1>13 DEF DiscardNext
      <3> QED BY <1>13, <3>1 DEF DiscardNext, SidecarTypeOK, RpcStates
    <2> QED BY <2>1 DEF FilterOwned
  <1>14. CASE Terminate
    <2>1. ~ vmUp' /\ rpc'.pc \notin {"step", "discardOthers"}
      BY <1>14, AnswerPc DEF Terminate
    <2> QED BY <2>1 DEF FilterOwned
  <1>15. CASE TargetGone
    <2>1. ~ vmUp' /\ rpc'.pc \notin {"step", "discardOthers"}
      BY <1>15 DEF TargetGone, targetVars, SidecarTypeOK, RpcStates
    <2> QED BY <2>1 DEF FilterOwned
  <1>16. CASE RpcReplies
    BY <1>16 DEF RpcReplies, RpcIdle, RpcAt, FilterOwned, StepPcs, targetVars, queueVars
  <1> QED
    BY <1>1, <1>2, <1>3, <1>4, <1>5, <1>6, <1>7, <1>8, <1>9, <1>10, <1>11, <1>12, <1>13,
       <1>14, <1>15, <1>16
    DEF RpcNext

-----------------------------------------------------------------------------
(* What the RPC thread makes of the stops it handles.                      *)

\* The RPC thread only takes from the queue of stops, and what it answers is
\* the stop it has in hand.
LEMMA RpcMoves ==
    ASSUME SidecarInv, RpcNext
    PROVE  /\ ToSet(stops') \subseteq ToSet(stops)
           /\ rpc'.stop \in {rpc.stop, NoEvent, current} \cup ToSet(stops) \cup StopIds
           /\ rpc'.result.stop \in {rpc.result.stop, NoEvent, rpc.stop}
           /\ UNCHANGED toDaemon \/ RpcReplies
  <1>0. /\ SidecarTypeOK /\ rpc \in RpcStates
        /\ stops \in Seq(SidecarEvents) /\ rpc.result \in Results
    BY DEF SidecarInv, SidecarTypeOK, RpcStates
  <1>1. stops # <<>> => ToSet(Tail(stops)) \subseteq ToSet(stops) /\ Head(stops) \in ToSet(stops)
    BY <1>0, Tailed
  <1>2. \A i \in DOMAIN stops : ToSet(RemoveAt(stops, i)) \subseteq ToSet(stops)
    BY <1>0, RemovedAt
  <1>3. ToSet(RemoveFirst(stops, rpc.stop)) \subseteq ToSet(stops)
    BY <1>0, FirstRemovedWithin
  <1>4. toDaemon' = toDaemon \/ RpcReplies
    BY DEF RpcNext, RpcReads, PollQueuedStopOrResume, PollStop, TimesOut, ExamineStop, StepBegins,
           StepDiscardsOther, StepDiscardedOthers, StepFails, StepFinally, AckStop, SuspendAll,
           DiscardCurrent, DiscardNext, VmResume, Terminate, TargetGone
  <1>5. ToSet(stops') \subseteq ToSet(stops)
    <2>1. stops' \in {stops, RemoveFirst(stops, rpc.stop)} \/ (stops # <<>> /\ stops' = Tail(stops))
             \/ \E i \in DOMAIN stops : stops' = RemoveAt(stops, i)
      BY DEF RpcNext, RpcReads, PollQueuedStopOrResume, PollStop, TimesOut, ExamineStop, StepBegins,
           StepDiscardsOther, StepDiscardedOthers, StepFails, StepFinally, AckStop, SuspendAll,
           DiscardCurrent, DiscardNext, VmResume, Terminate, TargetGone, RpcReplies, queueVars,
           GoneWhilePolling, GoneWhileStepping, GoneWhileAcking, GoneWhileResuming
    <2> QED BY <1>1, <1>2, <1>3, <2>1
  <1>6. CASE RpcReads
    <2>1. Head(toSidecar).stop \in StopIds \cup {NoEvent}
      <3>1. toSidecar \in Seq(Requests) /\ toSidecar # <<>>
        BY <1>0, <1>6 DEF RpcReads, SidecarTypeOK
      <3>2. Head(toSidecar) \in Requests
        BY <3>1, TailSeq
      <3> QED BY <3>2 DEF Requests
    <2>2. rpc'.stop = Head(toSidecar).stop /\ rpc'.result = RpcError
      BY <1>6 DEF RpcReads, RpcIdle
    <2> QED BY <1>4, <1>5, <2>1, <2>2 DEF RpcError
  <1>7. CASE RpcReplies
    BY <1>4, <1>5, <1>7 DEF RpcReplies, RpcIdle, RpcError
  <1>8. CASE PollQueuedStopOrResume \/ PollStop
    BY <1>0, <1>1, <1>4, <1>5, <1>8 DEF PollQueuedStopOrResume, PollStop, RpcStates
  <1>9. CASE TimesOut \/ AckStop \/ SuspendAll \/ Terminate
    <2>1. \E r \in {TimedOut, Ok(<<>>)} : Answer(r)
      BY <1>9 DEF TimesOut, AckStop, SuspendAll, Terminate
    <2>2. rpc'.stop = rpc.stop /\ rpc'.result \in {TimedOut, Ok(<<>>)}
      BY <1>0, <2>1 DEF Answer, RpcStates
    <2> QED BY <1>4, <1>5, <2>2 DEF TimedOut, Ok
  <1>10. CASE ExamineStop
    <2>1. \/ Answer(Stopped(rpc.stop))
          \/ rpc' = [rpc EXCEPT !.pc = "wait", !.stop = NoEvent]
      BY <1>10 DEF ExamineStop
    <2>2. \/ rpc'.stop = rpc.stop /\ rpc'.result = Stopped(rpc.stop)
          \/ rpc'.stop = NoEvent /\ rpc'.result = rpc.result
      BY <1>0, <2>1 DEF Answer, RpcStates
    <2> QED BY <1>4, <1>5, <2>2 DEF Stopped
  <1>11. CASE (\E t \in Threads : StepBegins(t)) \/ StepDiscardsOther \/ StepDiscardedOthers \/ StepFails \/ StepFinally
    <2>1. rpc'.stop = rpc.stop /\ rpc'.result \in {rpc.result, RpcError}
      BY <1>0, <1>11
      DEF StepBegins, StepDiscardsOther, StepDiscardedOthers, StepFails, StepFinally, RpcStates
    <2> QED BY <1>4, <1>5, <2>1 DEF RpcError
  <1>12. CASE DiscardCurrent \/ VmResume
    <2>1. rpc'.stop \in {rpc.stop, current} /\ rpc'.result \in {rpc.result, Ok(<<>>)}
      BY <1>0, <1>12 DEF DiscardCurrent, VmResume, RpcStates
    <2> QED BY <1>4, <1>5, <2>1 DEF Ok
  <1>13. CASE DiscardNext
    <2>1. rpc' = rpc \/ rpc' = [rpc EXCEPT !.result = Ok(Append(rpc.result.ids, Head(stops)))]
      BY <1>13, Zenon DEF DiscardNext
    <2>2. rpc'.stop = rpc.stop /\ rpc'.result \in {rpc.result, Ok(Append(rpc.result.ids, Head(stops)))}
      BY <1>0, <2>1 DEF RpcStates
    <2> QED BY <1>4, <1>5, <2>2 DEF Ok
  <1>14. CASE TargetGone
    <2>1. rpc'.stop = rpc.stop /\ rpc'.result = RpcError
      BY <1>0, <1>14 DEF TargetGone, RpcStates
    <2> QED BY <1>4, <1>5, <2>1 DEF RpcError
  <1> QED BY <1>6, <1>7, <1>8, <1>9, <1>10, <1>11, <1>12, <1>13, <1>14 DEF RpcNext
=============================================================================
