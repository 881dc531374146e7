--------------------------- MODULE StopInbox_proofs ---------------------------
(***************************************************************************)
(* Proofs about StopInbox: for every number of stops and every cap on the  *)
(* remembered ids, the daemon's queue of pending stops never holds a stop  *)
(* twice and never holds one the session remembers as delivered.           *)
(***************************************************************************)
EXTENDS StopInbox, SequenceTheorems, TLAPS

-----------------------------------------------------------------------------
(* What the queue operators do to a queue without repetitions.             *)

\* Appending an absent value keeps a queue free of repetitions.
LEMMA AppendDistinct ==
    ASSUME NEW S, NEW q \in Seq(S), NEW x \in S, Distinct(q), x \notin ToSet(q)
    PROVE  /\ Append(q, x) \in Seq(S)
           /\ Distinct(Append(q, x))
           /\ ToSet(Append(q, x)) = ToSet(q) \cup {x}
           /\ Len(Append(q, x)) = Len(q) + 1
  <1>1. /\ Append(q, x) \in Seq(S)
        /\ Len(Append(q, x)) = Len(q) + 1
        /\ \A i \in 1 .. Len(q) : Append(q, x)[i] = q[i]
        /\ Append(q, x)[Len(q) + 1] = x
    BY AppendProperties
  <1>2. DOMAIN q = 1 .. Len(q) /\ DOMAIN Append(q, x) = 1 .. (Len(q) + 1) /\ Len(q) \in Nat
    BY <1>1, LenProperties
  <1>3. Distinct(Append(q, x))
    BY <1>1, <1>2 DEF Distinct, ToSet
  <1>4. ToSet(Append(q, x)) = ToSet(q) \cup {x}
    BY <1>1, <1>2 DEF ToSet
  <1> QED BY <1>1, <1>3, <1>4

\* Removing the head keeps a queue free of repetitions.
LEMMA TailDistinct ==
    ASSUME NEW S, NEW q \in Seq(S), q # <<>>, Distinct(q)
    PROVE  /\ Tail(q) \in Seq(S)
           /\ Distinct(Tail(q))
           /\ ToSet(Tail(q)) \subseteq ToSet(q)
           /\ Len(Tail(q)) = Len(q) - 1
  <1>1. /\ Tail(q) \in Seq(S)
        /\ Len(Tail(q)) = Len(q) - 1
        /\ \A i \in 1 .. Len(Tail(q)) : Tail(q)[i] = q[i + 1]
    BY HeadTailProperties
  <1>2. DOMAIN q = 1 .. Len(q) /\ DOMAIN Tail(q) = 1 .. (Len(q) - 1) /\ Len(q) \in Nat
    BY <1>1, LenProperties
  <1>3. Distinct(Tail(q))
    BY <1>1, <1>2 DEF Distinct
  <1>4. ToSet(Tail(q)) \subseteq ToSet(q)
    BY <1>1, <1>2 DEF ToSet
  <1> QED BY <1>1, <1>3, <1>4

\* RemoveFirst takes a value out of a queue without repetitions.
LEMMA RemoveFirstDistinct ==
    ASSUME NEW S, NEW q \in Seq(S), NEW x, Distinct(q)
    PROVE  /\ RemoveFirst(q, x) \in Seq(S)
           /\ Distinct(RemoveFirst(q, x))
           /\ ToSet(RemoveFirst(q, x)) = ToSet(q) \ {x}
  <1>0. DOMAIN q = 1 .. Len(q) /\ Len(q) \in Nat /\ \A i \in 1 .. Len(q) : q[i] \in S
    BY LenProperties, ElementOfSeq
  <1>1. CASE ~ \E i \in 1 .. Len(q) : q[i] = x
    BY <1>0, <1>1 DEF RemoveFirst, ToSet
  <1>2. CASE \E i \in 1 .. Len(q) : q[i] = x
    <2> DEFINE n == SelectInSeq(q, LAMBDA v : v = x)
               a == SubSeq(q, 1, n - 1)
               b == SubSeq(q, n + 1, Len(q))
               r == a \o b
    <2>1. n \in 1 .. Len(q) /\ q[n] = x
      <3>1. PICK i \in 1 .. Len(q) : q[i] = x
        BY <1>2
      <3>2. {j \in 1 .. Len(q) : q[j] = x} = {i}
        BY <3>1, <1>0 DEF Distinct
      <3>3. n = Min({i})
        BY <3>2, <3>1 DEF SelectInSeq
      <3>4. Min({i}) = i
        BY <3>1, <1>0 DEF Min
      <3> QED BY <3>1, <3>3, <3>4
    <2>2. RemoveFirst(q, x) = r
      BY <1>2 DEF RemoveFirst, RemoveAt
    <2> HIDE DEF n
    <2>3. /\ r \in Seq(S)
          /\ Len(r) = Len(q) - 1
          /\ \A i \in 1 .. (Len(q) - 1) : r[i] = IF i < n THEN q[i] ELSE q[i + 1]
      <3>1. a \in Seq(S) /\ Len(a) = n - 1 /\ \A i \in 1 .. (n - 1) : a[i] = q[i]
        <4>1. 1 \in Int /\ n - 1 \in Int /\ \A i \in 1 .. (n - 1) : q[i] \in S
          BY <2>1, <1>0
        <4> QED BY <4>1, <2>1, <1>0, SubSeqProperties
      <3>2. b \in Seq(S) /\ Len(b) = Len(q) - n /\ \A i \in 1 .. (Len(q) - n) : b[i] = q[n + i]
        <4>1. n + 1 \in Int /\ Len(q) \in Int /\ \A i \in (n + 1) .. Len(q) : q[i] \in S
          BY <2>1, <1>0
        <4>2. /\ b \in Seq(S)
              /\ Len(b) = IF n + 1 <= Len(q) THEN Len(q) - (n + 1) + 1 ELSE 0
              /\ \A i \in 1 .. (Len(q) - (n + 1) + 1) : b[i] = q[(n + 1) + i - 1]
          BY <4>1, SubSeqProperties
        <4> HIDE DEF b
        <4>3. Len(b) = Len(q) - n
          <5>1. n \in Int /\ Len(q) \in Int /\ n <= Len(q)
            BY <2>1, <1>0
          <5>2. (IF n + 1 <= Len(q) THEN Len(q) - (n + 1) + 1 ELSE 0) = Len(q) - n
            BY <5>1
          <5> QED BY <4>2, <5>2
        <4>4. ASSUME NEW i \in 1 .. (Len(q) - n) PROVE b[i] = q[n + i]
          <5>1. i \in 1 .. (Len(q) - (n + 1) + 1) /\ (n + 1) + i - 1 = n + i
            BY <2>1, <1>0
          <5>2. b[i] = q[(n + 1) + i - 1]
            BY <5>1, <4>2
          <5> QED BY <5>1, <5>2
        <4> QED BY <4>2, <4>3, <4>4
      <3> HIDE DEF a, b
      <3>3. /\ r \in Seq(S)
            /\ Len(r) = Len(a) + Len(b)
            /\ \A i \in 1 .. (Len(a) + Len(b)) :
                 r[i] = IF i <= Len(a) THEN a[i] ELSE b[i - Len(a)]
        BY <3>1, <3>2, ConcatProperties
      <3> HIDE DEF r
      <3>4. Len(r) = Len(q) - 1
        BY <3>1, <3>2, <3>3, <2>1, <1>0
      <3>5. ASSUME NEW i \in 1 .. (Len(q) - 1)
            PROVE  r[i] = IF i < n THEN q[i] ELSE q[i + 1]
        <4>0. i \in 1 .. (Len(a) + Len(b)) /\ Len(a) = n - 1 /\ n \in Int
          BY <3>1, <3>2, <2>1, <1>0
        <4>1. CASE i < n
          <5>1. i <= Len(a) /\ i \in 1 .. (n - 1)
            BY <4>0, <4>1
          <5> QED BY <5>1, <4>0, <4>1, <3>1, <3>3
        <4>2. CASE ~ (i < n)
          <5>1. ~ (i <= Len(a)) /\ i - Len(a) \in 1 .. (Len(q) - n)
            BY <4>0, <4>2, <2>1, <1>0
          <5>2. n + (i - Len(a)) = i + 1
            BY <4>0
          <5>3. r[i] = b[i - Len(a)]
            BY <5>1, <4>0, <3>3
          <5> QED BY <5>1, <5>2, <5>3, <4>2, <3>2
        <4> QED BY <4>1, <4>2
      <3> QED BY <3>3, <3>4, <3>5
    <2>4. DOMAIN r = 1 .. (Len(q) - 1)
      BY <2>3, LenProperties
    <2> HIDE DEF r
    <2>5. Distinct(r)
      <3> SUFFICES ASSUME NEW i \in DOMAIN r, NEW j \in DOMAIN r, r[i] = r[j]
                   PROVE  i = j
        BY DEF Distinct
      <3> DEFINE at(k) == IF k < n THEN k ELSE k + 1
      <3>1. /\ at(i) \in DOMAIN q /\ r[i] = q[at(i)]
            /\ at(j) \in DOMAIN q /\ r[j] = q[at(j)]
        BY <2>1, <2>3, <2>4, <1>0
      <3>2. at(i) = at(j)
        BY <3>1 DEF Distinct
      <3> QED BY <3>2, <2>1, <2>4, <1>0
    <2>6. ToSet(r) = ToSet(q) \ {x}
      <3>1. ASSUME NEW i \in DOMAIN r PROVE r[i] \in ToSet(q) /\ r[i] # x
        BY <2>1, <2>3, <2>4, <1>0 DEF Distinct, ToSet
      <3>2. ASSUME NEW k \in DOMAIN q, q[k] # x PROVE \E i \in DOMAIN r : r[i] = q[k]
        <4>1. CASE k < n
          BY <4>1, <2>1, <2>3, <2>4, <1>0
        <4>2. CASE k > n
          <5>1. k - 1 \in DOMAIN r /\ r[k - 1] = q[k]
            BY <4>2, <2>1, <2>3, <2>4, <1>0
          <5> QED BY <5>1
        <4> QED BY <4>1, <4>2, <3>2, <2>1, <1>0
      <3> QED BY <3>1, <3>2 DEF ToSet
    <2> QED BY <2>2, <2>3, <2>5, <2>6
  <1> QED BY <1>1, <1>2

\* remember_delivered_stop_id: the list stays distinct and within the cap,
\* and nothing but the new id enters it.
LEMMA RememberProperties ==
    ASSUME NEW S, NEW ids \in Seq(S), NEW s \in S, Distinct(ids), Len(ids) <= IdCap
    PROVE  /\ Remember(ids, s) \in Seq(S)
           /\ Distinct(Remember(ids, s))
           /\ Len(Remember(ids, s)) <= IdCap
           /\ ToSet(Remember(ids, s)) \subseteq ToSet(ids) \cup {s}
  <1>0. Len(ids) \in Nat /\ IdCap \in Nat \ {0}
    BY LenProperties, IdCapAssumption
  <1>1. CASE s \in ToSet(ids)
    BY <1>1 DEF Remember
  <1>2. CASE s \notin ToSet(ids)
    <2>1. /\ Append(ids, s) \in Seq(S)
          /\ Distinct(Append(ids, s))
          /\ ToSet(Append(ids, s)) = ToSet(ids) \cup {s}
          /\ Len(Append(ids, s)) = Len(ids) + 1
      BY <1>2, AppendDistinct
    <2>2. CASE Len(ids) < IdCap
      BY <1>0, <1>2, <2>1, <2>2 DEF Remember
    <2>3. CASE ~ (Len(ids) < IdCap)
      <3>1. Remember(ids, s) = Tail(Append(ids, s))
        BY <1>2, <2>3 DEF Remember
      <3>2. Append(ids, s) # <<>>
        BY <2>1, <1>0, LenProperties, EmptySeq
      <3>3. /\ Tail(Append(ids, s)) \in Seq(S)
            /\ Distinct(Tail(Append(ids, s)))
            /\ ToSet(Tail(Append(ids, s))) \subseteq ToSet(Append(ids, s))
            /\ Len(Tail(Append(ids, s))) = Len(Append(ids, s)) - 1
        BY <2>1, <3>2, TailDistinct
      <3> QED BY <1>0, <2>1, <3>1, <3>3
    <2> QED BY <2>2, <2>3
  <1> QED BY <1>1, <1>2

-----------------------------------------------------------------------------
\* The inductive invariant: the four facts need each other, since a twin is
\* removed correctly only from a queue without duplicates and an id is
\* remembered within the cap only by a list without duplicates.
InboxInv ==
    /\ InboxTypeOK
    /\ NoDuplicatePending
    /\ PendingNotDelivered
    /\ DeliveredIdsBounded

LEMMA InboxInvInit == InboxInit => InboxInv
  <1> SUFFICES ASSUME InboxInit PROVE InboxInv
    OBVIOUS
  <1>1. <<>> \in Seq(StopIds) /\ Len(<<>>) = 0 /\ DOMAIN <<>> = {}
    BY EmptySeq, LenProperties
  <1>2. Distinct(<<>>) /\ ToSet(<<>>) = {}
    BY <1>1 DEF Distinct, ToSet
  <1> QED
    BY <1>1, <1>2, IdCapAssumption
    DEF InboxInit, InboxInv, InboxTypeOK, NoDuplicatePending, PendingNotDelivered,
        DeliveredIdsBounded, RunStates

LEMMA InboxInvStep == InboxInv /\ [InboxNext]_inboxVars => InboxInv'
  <1> SUFFICES ASSUME InboxInv, [InboxNext]_inboxVars PROVE InboxInv'
    OBVIOUS
  <1> USE DEF InboxInv, InboxTypeOK, NoDuplicatePending, PendingNotDelivered,
              DeliveredIdsBounded, RunStates, StopEvents, Over
  <1>1. ASSUME NEW e \in SidecarEvents, ApplySidecarEvent(e) PROVE InboxInv'
    <2>1. CASE e = VmExit /\ ApplyVmExit
      BY <2>1 DEF ApplyVmExit
    <2>2. CASE e \in StopIds /\ ApplyStop(e)
      <3>1. CASE UNCHANGED inboxVars
        BY <3>1 DEF inboxVars
      <3>2. CASE /\ state \notin Over
                 /\ e \notin ToSet(deliveredIds)
                 /\ e \notin ToSet(pendingStops)
        <4>1. /\ pendingStops' = Append(pendingStops, e)
              /\ state' \in {"Suspended", state}
              /\ lastEvent' \in {e, lastEvent}
              /\ deliveredStop' = deliveredStop
              /\ deliveredIds' = deliveredIds
          BY <2>2, <3>2 DEF ApplyStop
        <4>2. /\ Append(pendingStops, e) \in Seq(StopIds)
              /\ Distinct(Append(pendingStops, e))
              /\ ToSet(Append(pendingStops, e)) = ToSet(pendingStops) \cup {e}
          BY <2>2, <3>2, AppendDistinct
        <4> QED BY <2>2, <3>2, <4>1, <4>2
      <3> QED BY <2>2, <3>1, <3>2 DEF ApplyStop
    <2>3. CASE e = VmStart /\ UNCHANGED inboxVars
      BY <2>3 DEF inboxVars
    <2> QED BY <1>1, <2>1, <2>2, <2>3 DEF ApplySidecarEvent
  <1>2. CASE MarkDead
    BY <1>2 DEF MarkDead
  <1>3. CASE PopPending
    <2>1. /\ Tail(pendingStops) \in Seq(StopIds)
          /\ Distinct(Tail(pendingStops))
          /\ ToSet(Tail(pendingStops)) \subseteq ToSet(pendingStops)
      BY <1>3, TailDistinct DEF PopPending
    <2> QED BY <1>3, <2>1 DEF PopPending
  <1>4. CASE Arm
    BY <1>4 DEF Arm
  <1>5. CASE SetRunning
    BY <1>5 DEF SetRunning
  <1>6. CASE SetSuspended
    BY <1>6 DEF SetSuspended
  <1>7. CASE SetDead
    BY <1>7 DEF SetDead
  <1>8. ASSUME NEW s \in StopEvents, FinalizeDeliveredStop(s) PROVE InboxInv'
    <2>1. /\ RemoveFirst(pendingStops, s) \in Seq(StopIds)
          /\ Distinct(RemoveFirst(pendingStops, s))
          /\ ToSet(RemoveFirst(pendingStops, s)) = ToSet(pendingStops) \ {s}
      BY RemoveFirstDistinct
    <2>2. /\ state' \in RunStates
          /\ lastEvent' \in StopEvents
          /\ deliveredStop' \in StopEvents
          /\ pendingStops' = RemoveFirst(pendingStops, s)
      BY <1>8 DEF FinalizeDeliveredStop
    <2>3. CASE s = VmExit
      <3>1. deliveredIds' = deliveredIds
        BY <1>8, <2>3 DEF FinalizeDeliveredStop
      <3> QED BY <2>1, <2>2, <3>1
    <2>4. CASE s \in StopIds
      <3>1. deliveredIds' = Remember(deliveredIds, s)
        BY <1>8, <2>4, EventsDistinct DEF FinalizeDeliveredStop
      <3>2. /\ Remember(deliveredIds, s) \in Seq(StopIds)
            /\ Distinct(Remember(deliveredIds, s))
            /\ Len(Remember(deliveredIds, s)) <= IdCap
            /\ ToSet(Remember(deliveredIds, s)) \subseteq ToSet(deliveredIds) \cup {s}
        BY <2>4, RememberProperties
      <3> QED BY <2>1, <2>2, <3>1, <3>2
    <2> QED BY <2>3, <2>4
  <1>9. CASE DrainPending
    <2>1. <<>> \in Seq(StopIds) /\ DOMAIN <<>> = {}
      BY EmptySeq
    <2>2. Distinct(<<>>) /\ ToSet(<<>>) = {}
      BY <2>1 DEF Distinct, ToSet
    <2> QED BY <1>9, <2>1, <2>2 DEF DrainPending
  <1>10. ASSUME NEW s \in StopIds, RememberDiscarded(s) PROVE InboxInv'
    <2>1. /\ Remember(deliveredIds, s) \in Seq(StopIds)
          /\ Distinct(Remember(deliveredIds, s))
          /\ Len(Remember(deliveredIds, s)) <= IdCap
      BY RememberProperties
    <2>2. ToSet(pendingStops) = {}
      BY <1>10, EmptySeq DEF RememberDiscarded, ToSet
    <2> QED BY <1>10, <2>1, <2>2 DEF RememberDiscarded
  <1>11. CASE FinishDiscard
    BY <1>11 DEF FinishDiscard
  <1>12. CASE UNCHANGED inboxVars
    BY <1>12 DEF inboxVars
  <1> QED
    BY <1>1, <1>2, <1>3, <1>4, <1>5, <1>6, <1>7, <1>8, <1>9, <1>10, <1>11, <1>12
    DEF InboxNext

\* The inductive invariant holds in every reachable state of the inbox.
THEOREM InboxInvariant == InboxSpec => []InboxInv
  BY InboxInvInit, InboxInvStep, PTL DEF InboxSpec

\* Type correctness of JdiSessionInner.
THEOREM InboxTypeCorrect == InboxSpec => []InboxTypeOK
  <1>1. InboxInv => InboxTypeOK
    BY DEF InboxInv
  <1> QED BY <1>1, InboxInvariant, PTL

\* However response and event twins interleave, a stop waits at most once.
THEOREM NoDuplicatePendingHolds == InboxSpec => []NoDuplicatePending
  <1>1. InboxInv => NoDuplicatePending
    BY DEF InboxInv
  <1> QED BY <1>1, InboxInvariant, PTL

\* A stop remembered as delivered or discarded never waits for delivery.
THEOREM PendingNotDeliveredHolds == InboxSpec => []PendingNotDelivered
  <1>1. InboxInv => PendingNotDelivered
    BY DEF InboxInv
  <1> QED BY <1>1, InboxInvariant, PTL

\* The list of remembered ids never outgrows its cap nor repeats an id.
THEOREM DeliveredIdsBoundedHolds == InboxSpec => []DeliveredIdsBounded
  <1>1. InboxInv => DeliveredIdsBounded
    BY DEF InboxInv
  <1> QED BY <1>1, InboxInvariant, PTL
=============================================================================
