----------------------- MODULE SidecarRequests_proofs -----------------------
(***************************************************************************)
(* Proofs about SidecarRequests: for every plan, that is for every order   *)
(* of requests and whatever the target does meanwhile, a request of the VM *)
(* that is enabled and in none of the lists the user can see and clear was *)
(* there when both threads were in the middle of a change of its list.     *)
(***************************************************************************)
EXTENDS SidecarRequests, SequenceTheorems, TLAPS

-----------------------------------------------------------------------------
(* The inductive invariant *)

PendingLists == {"pending break", "pending watch"}
WalkOps == {"clear", "list", "unwatch", "ignore"}

Askable == {w \in Whats : w.kind \in Kinds}
Deferrables == {w \in Whats : w.kind \in {"break", "watch"}}
Entries == [what : Deferrables, by : Nat]
Iterators == [over : Lists \cup {"none"}, at : Nat, stale : BOOLEAN]
Numbers == {0} \cup DOMAIN requests
In(l) == IF l \in PendingLists THEN Entries ELSE Numbers

ListsOK ==
    /\ DOMAIN list = Lists
    /\ \A l \in PendingLists : list[l] \in Seq(Entries)

ItersOK ==
    /\ iter \in [Threads -> Iterators]
    /\ \A t \in Threads : iter[t].over # "none" => iter[t].at # 0

ChangesOK ==
    /\ DOMAIN change = Threads
    /\ \A t \in Threads :
         /\ DOMAIN change[t] = {"over", "size", "entry", "parts"}
         /\ change[t].over \in Lists \cup {"none"} /\ change[t].size \in Nat
         /\ change[t].parts \in Seq(Askable)
         /\ change[t].over # "none" => change[t].entry \in In(change[t].over)

\* A change of a list that nobody else is changing goes by the size it has, or all
\* the requests of the list were there when both were changing it.
OverlappedLists ==
    {k \in Kinds : \A n \in DOMAIN requests : requests[n].kind = k => n \in overlapped}
Free(t, k) ==
    /\ change[t].size = Len(list[k])
    /\ \A u \in Threads \ {t} : change[u].over # k
Alone == \A t \in Threads, k \in Kinds : change[t].over = k => Free(t, k) \/ k \in OverlappedLists

\* Only a request that goes through the lists is half way in one, and what it
\* removes is not enabled any more.
RpcOK ==
    /\ DOMAIN rpc = {"at", "ip", "nth"}
    /\ rpc.ip \in Nat \ {0} /\ rpc.nth \in Nat
    /\ rpc.at \in {"walk", "remove"} => Op.op \in WalkOps
    /\ rpc.at \in {"enter", "add", "remove"} <=> change["rpc"].over # "none"
    /\ rpc.at = "make" => change["rpc"].parts # <<>>
RemovalOK ==
    rpc.at = "remove" =>
        LET l == change["rpc"].over
        IN  /\ iter["rpc"].over = l
            /\ l \in Kinds =>
                  /\ change["rpc"].entry = 0
                  /\ \/ l \in OverlappedLists
                     \/ iter["rpc"].at <= Len(list[l]) /\ list[l][iter["rpc"].at] \notin enabled

\* The event loop that resolves is in a list of deferred entries, and removes
\* from no other.
LoopOK ==
    /\ DOMAIN loop = {"at", "events", "resume", "by"}
    /\ loop.at \in {"enter", "remove"} <=> change["loop"].over # "none"
    /\ loop.at \in {"resolve", "enter", "make", "drop", "remove"} => iter["loop"].over \in PendingLists
    /\ loop.at = "make" => change["loop"].parts # <<>>
    /\ loop.at = "remove" => change["loop"].over \in PendingLists

\* What the two threads share.
SharedInv ==
    /\ RequestsTypeOK /\ ListsOK /\ ItersOK /\ ChangesOK
    /\ Alone /\ NoHiddenRequest

RequestsInv ==
    /\ plan \in Plans
    /\ SharedInv /\ RpcOK /\ LoopOK /\ RemovalOK

\* While the event loop is at something, the target is held.
Held == loop.at # "idle" => vm = "held"

-----------------------------------------------------------------------------
(* Sequences *)

\* A concatenation has what its parts have.
LEMMA ConcatKeeps ==
    ASSUME NEW S, NEW s \in Seq(S), NEW t \in Seq(S)
    PROVE  ToSet(s) \cup ToSet(t) \subseteq ToSet(s \o t)
  <1>1. /\ s \o t \in Seq(S)
        /\ Len(s \o t) = Len(s) + Len(t) /\ Len(s) \in Nat /\ Len(t) \in Nat
        /\ \A i \in 1 .. Len(s) + Len(t) : (s \o t)[i] = IF i <= Len(s) THEN s[i] ELSE t[i - Len(s)]
    BY ConcatProperties, LenProperties
  <1>2. /\ DOMAIN s = 1 .. Len(s) /\ DOMAIN t = 1 .. Len(t)
        /\ DOMAIN (s \o t) = 1 .. Len(s) + Len(t)
    BY <1>1, LenProperties
  <1>3. ASSUME NEW i \in 1 .. Len(t)
        PROVE  t[i] \in ToSet(s \o t)
    <2>1. Len(s) + i \in 1 .. Len(s) + Len(t) /\ ~(Len(s) + i <= Len(s)) /\ (Len(s) + i) - Len(s) = i
      BY <1>1
    <2>2. (s \o t)[Len(s) + i] = t[i]
      BY <2>1, <1>1
    <2> QED BY <2>1, <2>2, <1>2 DEF ToSet
  <1>4. ASSUME NEW i \in 1 .. Len(s)
        PROVE  s[i] \in ToSet(s \o t)
    BY <1>1, <1>2 DEF ToSet
  <1> QED BY <1>2, <1>3, <1>4 DEF ToSet

\* Whatever is not taken out stays.
LEMMA RemoveAtKeeps ==
    ASSUME NEW S, NEW s \in Seq(S), NEW i \in 1 .. Len(s)
    PROVE  /\ RemoveAt(s, i) \in Seq(S)
           /\ \A x \in ToSet(s) : x # s[i] => x \in ToSet(RemoveAt(s, i))
  <1> DEFINE a == SubSeq(s, 1, i - 1)
             b == SubSeq(s, i + 1, Len(s))
  <1>1. DOMAIN s = 1 .. Len(s) /\ Len(s) \in Nat /\ \A j \in 1 .. Len(s) : s[j] \in S
    BY LenProperties, ElementOfSeq
  <1>2. a \in Seq(S) /\ DOMAIN a = 1 .. i - 1 /\ \A j \in 1 .. i - 1 : a[j] = s[j]
    <2>1. 1 \in Int /\ i - 1 \in Int /\ \A j \in 1 .. i - 1 : s[j] \in S
      BY <1>1
    <2>2. a \in Seq(S) /\ Len(a) = i - 1 /\ \A j \in 1 .. i - 1 : a[j] = s[j]
      BY <2>1, <1>1, SubSeqProperties
    <2> QED BY <2>2, LenProperties
  <1>3. b \in Seq(S) /\ \A j \in i + 1 .. Len(s) : \E n \in DOMAIN b : b[n] = s[j]
    <2>1. i + 1 \in Int /\ Len(s) \in Int /\ \A j \in i + 1 .. Len(s) : s[j] \in S
      BY <1>1
    <2>2. /\ b \in Seq(S)
          /\ Len(b) = IF i + 1 <= Len(s) THEN Len(s) - (i + 1) + 1 ELSE 0
          /\ \A n \in 1 .. Len(s) - (i + 1) + 1 : b[n] = s[(i + 1) + n - 1]
      BY <2>1, SubSeqProperties
    <2>3. DOMAIN b = 1 .. Len(b)
      BY <2>2, LenProperties
    <2> HIDE DEF b
    <2>4. ASSUME NEW j \in i + 1 .. Len(s)
          PROVE  \E n \in DOMAIN b : b[n] = s[j]
      <3>1. /\ i + 1 <= Len(s)
            /\ j - i \in 1 .. Len(s) - (i + 1) + 1
            /\ (i + 1) + (j - i) - 1 = j
        BY <1>1
      <3>2. b[j - i] = s[j]
        BY <3>1, <2>2
      <3> QED BY <3>1, <3>2, <2>2, <2>3
    <2> QED BY <2>2, <2>4
  <1>4. RemoveAt(s, i) = a \o b
    BY DEF RemoveAt
  <1> HIDE DEF a, b
  <1>5. a \o b \in Seq(S) /\ ToSet(a) \cup ToSet(b) \subseteq ToSet(a \o b)
    BY <1>2, <1>3, ConcatProperties, ConcatKeeps
  <1>6. ASSUME NEW j \in 1 .. Len(s), s[j] # s[i]
        PROVE  s[j] \in ToSet(a) \cup ToSet(b)
    <2>1. CASE j < i
      <3>1. j \in 1 .. i - 1
        BY <2>1, <1>1
      <3> QED BY <3>1, <1>2 DEF ToSet
    <2>2. CASE j > i
      <3>1. j \in i + 1 .. Len(s)
        BY <2>2, <1>1
      <3>2. PICK n \in DOMAIN b : b[n] = s[j]
        BY <3>1, <1>3
      <3> QED BY <3>2 DEF ToSet
    <2> QED BY <1>6, <2>1, <2>2, <1>1
  <1>7. ToSet(s) = {s[j] : j \in 1 .. Len(s)}
    BY <1>1 DEF ToSet
  <1> QED BY <1>4, <1>5, <1>6, <1>7

\* The parts of what is asked are of its kind.
LEMMA PartsTypes ==
    ASSUME NEW w \in Askable
    PROVE  /\ Parts(w) \in Seq(Askable) /\ Parts(w) # <<>>
           /\ \A i \in 1 .. Len(Parts(w)) : Parts(w)[i].kind = w.kind
  <1> DEFINE modes == CASE w.kind = "watch" /\ w.mode = "all"   -> <<"modification", "access">>
                        [] w.kind = "method" /\ w.mode = "both" -> <<"entry", "exit">>
                        [] OTHER                                -> <<w.mode>>
  <1>1. modes \in Seq(Modes) /\ Len(modes) # 0
    <2>1. \A x, y \in Modes : <<x, y>> \in Seq(Modes) /\ <<x>> \in Seq(Modes)
      OBVIOUS
    <2>2. w.mode \in Modes
      BY DEF Whats, Askable
    <2>3. /\ <<"modification", "access">> \in Seq(Modes)
          /\ <<"entry", "exit">> \in Seq(Modes)
          /\ <<w.mode>> \in Seq(Modes)
      BY <2>1, <2>2 DEF Modes
    <2>4. CASE w.kind = "watch" /\ w.mode = "all"
      BY <2>3, <2>4
    <2>5. CASE w.kind = "method" /\ w.mode = "both"
      BY <2>3, <2>5
    <2>6. CASE ~(w.kind = "watch" /\ w.mode = "all") /\ ~(w.kind = "method" /\ w.mode = "both")
      BY <2>3, <2>6
    <2> QED BY <2>4, <2>5, <2>6
  <1>2. Parts(w) = [i \in DOMAIN modes |-> [w EXCEPT !.mode = modes[i]]]
    BY DEF Parts
  <1> HIDE DEF modes
  <1>3. DOMAIN modes = 1 .. Len(modes) /\ Len(modes) \in Nat /\ \A i \in 1 .. Len(modes) : modes[i] \in Modes
    BY <1>1, LenProperties, ElementOfSeq
  <1>4. \A i \in 1 .. Len(modes) : [w EXCEPT !.mode = modes[i]] \in Askable /\ [w EXCEPT !.mode = modes[i]].kind = w.kind
    BY <1>3 DEF Whats, Askable
  <1>5. Parts(w) \in [1 .. Len(modes) -> Askable]
    BY <1>2, <1>3, <1>4
  <1>6. Parts(w) \in Seq(Askable)
    BY <1>3, <1>5, SeqDef
  <1>7. Len(Parts(w)) = Len(modes)
    BY <1>3, <1>5, <1>6, LenProperties
  <1>8. Parts(w) # <<>>
    BY <1>1, <1>7
  <1> QED BY <1>2, <1>3, <1>4, <1>6, <1>7, <1>8

\* What is added is there, with what was there before.
LEMMA AppendKeeps ==
    ASSUME NEW S, NEW s \in Seq(S), NEW x \in S
    PROVE  /\ Append(s, x) \in Seq(S) /\ Len(Append(s, x)) = Len(s) + 1
           /\ \A i \in 1 .. Len(s) : Append(s, x)[i] = s[i]
           /\ x \in ToSet(Append(s, x)) /\ ToSet(s) \subseteq ToSet(Append(s, x))
  <1>1. /\ Append(s, x) \in Seq(S) /\ Len(Append(s, x)) = Len(s) + 1 /\ Len(s) \in Nat
        /\ \A i \in 1 .. Len(s) : Append(s, x)[i] = s[i]
        /\ Append(s, x)[Len(s) + 1] = x
    BY AppendProperties, LenProperties
  <1>2. DOMAIN s = 1 .. Len(s) /\ DOMAIN Append(s, x) = 1 .. Len(s) + 1
    BY <1>1, LenProperties
  <1> QED BY <1>1, <1>2 DEF ToSet

-----------------------------------------------------------------------------
(* Lists, requests and changes *)

\* A change of a list moves no iterator.
LEMMA TouchedTypes ==
    ASSUME ItersOK, NEW t \in Threads, NEW l \in Lists
    PROVE  /\ Touched(t, l) \in [Threads -> Iterators]
           /\ \A u \in Threads : Touched(t, l)[u].over = iter[u].over /\ Touched(t, l)[u].at = iter[u].at
  BY DEF ItersOK, Touched, Iterators

\* Null is an entry of any list.
LEMMA NullType == \A l \in Lists : NullIn(l) \in In(l)
  <1> DEFINE w == What("break", <<>>, "", "")
  <1>1. <<>> \in Seq(Names)
    BY EmptySeq
  <1>2. w \in Whats /\ w.kind = "break"
    BY <1>1 DEF What, Whats, Modes, Kinds
  <1> HIDE DEF w
  <1>3. [what |-> w, by |-> 0] \in Entries
    BY <1>2 DEF Entries, Deferrables
  <1>4. NoEntry \in Entries
    BY <1>3 DEF NoEntry, w
  <1> QED BY <1>4 DEF NullIn, In, IsPending, PendingLists, Numbers

\* The entries of a list, of which there are as many as a thread believes.
LEMMA SizedTypes ==
    ASSUME RequestsTypeOK, ListsOK, NEW l \in Lists, NEW n \in Nat
    PROVE  /\ list[l] \in Seq(In(l))
           /\ Sized(l, n) \in Seq(In(l)) /\ Len(Sized(l, n)) = n
           /\ n = Len(list[l]) => Sized(l, n) = list[l]
  <1>1. list[l] \in Seq(In(l))
    BY DEF RequestsTypeOK, ListsOK, In, Numbers, Lists, PendingLists
  <1>2. Len(list[l]) \in Nat /\ DOMAIN list[l] = 1 .. Len(list[l])
        /\ \A i \in 1 .. Len(list[l]) : list[l][i] \in In(l)
    BY <1>1, LenProperties, ElementOfSeq
  <1>3. NullIn(l) \in In(l)
    BY NullType
  <1>4. Sized(l, n) \in [1 .. n -> In(l)]
    BY <1>2, <1>3 DEF Sized
  <1>5. Sized(l, n) \in Seq(In(l)) /\ Len(Sized(l, n)) = n
    BY <1>4, SeqDef, LenProperties
  <1>6. ASSUME n = Len(list[l])
        PROVE  Sized(l, n) = list[l]
    <2>1. list[l] = [i \in 1 .. n |-> list[l][i]]
      BY <1>1, <1>2, <1>6
    <2>2. Sized(l, n) = [i \in 1 .. n |-> list[l][i]]
      BY <1>2, <1>6 DEF Sized
    <2> QED BY <2>1, <2>2
  <1> QED BY <1>1, <1>5, <1>6

\* A request keeps its number and what it is for, and its kind is that of a list.
LEMMA KindTypes ==
    ASSUME RequestsTypeOK
    PROVE  /\ Len(requests) \in Nat /\ DOMAIN requests = 1 .. Len(requests)
           /\ \A n \in DOMAIN requests :
                 /\ requests[n] \in Whats
                 /\ requests[n].kind # "none" /\ requests[n].kind \notin PendingLists
                 /\ requests[n].kind # "prepare" => requests[n].kind \in Kinds /\ requests[n].kind \in Lists
  <1>1. Len(requests) \in Nat /\ DOMAIN requests = 1 .. Len(requests)
    BY LenProperties DEF RequestsTypeOK
  <1>2. ASSUME NEW n \in DOMAIN requests
        PROVE  requests[n] \in Whats
    BY <1>1, ElementOfSeq DEF RequestsTypeOK
  <1> QED BY <1>1, <1>2 DEF Whats, Kinds, Lists, PendingLists

\* A thread that begins a change while the other is at the same list makes all the
\* requests of that list overlapped, its own new one too.
LEMMA BeginKeeps ==
    ASSUME ListsOK, ItersOK, ChangesOK, Alone, RequestsTypeOK, NEW t \in Threads, NEW l \in Lists,
           NEW x, NEW parts \in Seq(Askable), Begin(t, l, x, parts), change[t].over = "none",
           l \in PendingLists => x \in Entries, l \notin PendingLists => x \in Numbers',
           DOMAIN requests \subseteq DOMAIN requests',
           \A n \in DOMAIN requests' : \/ n \in DOMAIN requests /\ requests'[n] = requests[n]
                                       \/ n = x /\ requests'[n].kind = l
    PROVE  /\ ListsOK' /\ ItersOK' /\ ChangesOK' /\ Alone'
           /\ list' = list /\ iter' = iter /\ overlapped \subseteq overlapped'
           /\ change'[t].over = l /\ change'[t].entry = x
           /\ \A u \in Threads \ {t} : change'[u] = change[u]
           /\ \A k \in Kinds : k \in OverlappedLists /\ (k # l \/ \E u \in Threads \ {t} : Over(u) = k)
                                => k \in OverlappedLists'
  <1> DEFINE new == [over |-> l, size |-> Len(list[l]), entry |-> x, parts |-> parts]
             Together == l \in Kinds /\ \E u \in Threads \ {t} : Over(u) = l
  <1>1. /\ change' = [change EXCEPT ![t] = new]
        /\ overlapped' = IF Together
                         THEN overlapped \cup {x} \cup {n \in DOMAIN requests : requests[n].kind = l}
                         ELSE overlapped
        /\ list' = list /\ iter' = iter
    BY DEF Begin
  <1>2. change'[t] = new /\ DOMAIN change' = Threads /\ \A u \in Threads \ {t} : change'[u] = change[u]
    BY <1>1 DEF ChangesOK
  <1>3. ListsOK' /\ ItersOK'
    BY <1>1 DEF ListsOK, ItersOK
  <1>4. Len(list[l]) \in Nat
    BY SizedTypes, LenProperties
  <1>5. ChangesOK'
    <2>1. ASSUME NEW u \in Threads, (change[u].over # "none")'
          PROVE  (change[u].entry \in In(change[u].over))'
      <3>1. CASE u = t
        <4>1. change'[u].over = l /\ change'[u].entry = x
          BY <3>1, <1>2
        <4> QED BY <4>1 DEF In, Numbers
      <3>2. CASE u # t
        <4>1. change'[u] = change[u] /\ change[u].entry \in In(change[u].over)
          BY <3>2, <2>1, <1>2 DEF ChangesOK
        <4> QED BY <4>1 DEF In, Numbers
      <3> QED BY <3>1, <3>2
    <2>4. ASSUME NEW u \in Threads
          PROVE  /\ DOMAIN change'[u] = {"over", "size", "entry", "parts"}
                 /\ change'[u].over \in Lists \cup {"none"} /\ change'[u].size \in Nat
                 /\ change'[u].parts \in Seq(Askable)
      <3>1. CASE u = t
        BY <3>1, <1>2, <1>4
      <3>2. CASE u # t
        BY <3>2, <1>2 DEF ChangesOK
      <3> QED BY <3>1, <3>2
    <2> QED BY <1>2, <2>1, <2>4 DEF ChangesOK
  <1>6. Together => l \in OverlappedLists'
    BY <1>1 DEF OverlappedLists
  <1>7. \A k \in Kinds : k \in OverlappedLists /\ k # l => k \in OverlappedLists'
    BY <1>1 DEF OverlappedLists
  <1>8. ASSUME NEW u \in Threads, NEW k \in Kinds, change'[u].over = k
        PROVE  Free(u, k)' \/ k \in OverlappedLists'
    <2>1. CASE u = t
      <3>1. k = l
        BY <2>1, <1>2, <1>8
      <3>2. CASE Together
        BY <3>1, <3>2, <1>6
      <3>3. CASE ~Together
        BY <3>1, <3>3, <1>1, <1>2, <2>1 DEF Free, Over
      <3> QED BY <3>2, <3>3
    <2>2. CASE u # t /\ k = l
      <3>1. Together
        BY <2>2, <1>2, <1>8 DEF Over
      <3> QED BY <3>1, <2>2, <1>6
    <2>3. CASE u # t /\ k # l
      <3>1. Free(u, k) \/ k \in OverlappedLists
        BY <2>3, <1>2, <1>8 DEF Alone
      <3>2. Free(u, k) => Free(u, k)'
        BY <2>3, <1>1, <1>2 DEF Free
      <3> QED BY <3>1, <3>2, <2>3, <1>7
    <2> QED BY <2>1, <2>2, <2>3
  <1>9. Alone'
    BY <1>8 DEF Alone
  <1>10. overlapped \subseteq overlapped'
    BY <1>1
  <1> HIDE DEF Together
  <1>11. ASSUME NEW k \in Kinds, k \in OverlappedLists, k # l \/ \E u \in Threads \ {t} : Over(u) = k
         PROVE  k \in OverlappedLists'
    BY <1>6, <1>7, <1>11 DEF Together
  <1> QED BY <1>1, <1>2, <1>3, <1>5, <1>9, <1>10, <1>11

\* What is in the hands of a thread that begins nothing stays there.
LEMMA ListedKept ==
    ASSUME RequestsTypeOK, NoHiddenRequest, NEW t \in Threads, change[t].over = "none",
           NEW n \in enabled \ overlapped, requests[n].kind # "prepare",
           requests'[n] = requests[n], \A k \in Kinds : list'[k] = list[k],
           \A u \in Threads \ {t} : change'[u] = change[u]
    PROVE  Listed(n)'
  <1>1. n \in DOMAIN requests /\ requests[n].kind \in Kinds /\ requests[n].kind # "none"
    BY KindTypes DEF RequestsTypeOK
  <1>2. Listed(n)
    BY DEF NoHiddenRequest
  <1> QED BY <1>1, <1>2 DEF Listed

\* A request that is made is in the hands of the thread that makes it.
LEMMA MakeKeeps ==
    ASSUME SharedInv, NEW t \in Threads, NEW parts \in Seq(Askable), parts # <<>>,
           Make(t, parts), change[t].over = "none"
    PROVE  /\ SharedInv'
           /\ list' = list /\ iter' = iter
           /\ change'[t].over # "none" /\ \A u \in Threads \ {t} : change'[u] = change[u]
           /\ enabled' \subseteq enabled \cup {Len(requests) + 1}
           /\ \A k \in Kinds : k \in OverlappedLists /\ (\E u \in Threads \ {t} : Over(u) = k)
                                => k \in OverlappedLists'
  <1> DEFINE w == Head(parts)
  <1>1. w \in Askable /\ Tail(parts) \in Seq(Askable)
    BY HeadTailProperties
  <1>2. w \in Whats /\ w.kind \in Kinds /\ w.kind \in Lists /\ w.kind \notin PendingLists
    BY <1>1 DEF Askable, Lists, Kinds, PendingLists
  <1>3. /\ requests' = Append(requests, w) /\ enabled' = enabled \cup {Len(requests')}
        /\ Begin(t, w.kind, Len(requests'), Tail(parts))
    BY DEF Make
  <1> HIDE DEF w
  <1>4. /\ requests' \in Seq(Whats) /\ Len(requests') = Len(requests) + 1
        /\ \A n \in 1 .. Len(requests) : requests'[n] = requests[n]
        /\ requests'[Len(requests) + 1] = w
    BY <1>2, <1>3, AppendProperties DEF SharedInv, RequestsTypeOK
  <1>5. /\ Len(requests) \in Nat /\ DOMAIN requests = 1 .. Len(requests)
        /\ DOMAIN requests' = 1 .. Len(requests) + 1
    BY <1>4, KindTypes, LenProperties DEF SharedInv
  <1>6. Len(requests') \in Numbers' /\ w.kind \notin PendingLists
    BY <1>2, <1>4, <1>5 DEF Numbers
  <1>7. /\ ListsOK' /\ ItersOK' /\ ChangesOK' /\ Alone'
        /\ list' = list /\ iter' = iter /\ overlapped \subseteq overlapped'
        /\ change'[t].over = w.kind /\ change'[t].entry = Len(requests')
        /\ \A u \in Threads \ {t} : change'[u] = change[u]
        /\ \A k \in Kinds : k \in OverlappedLists /\ (k # w.kind \/ \E u \in Threads \ {t} : Over(u) = k)
                             => k \in OverlappedLists'
    <2>1. \A n \in DOMAIN requests' : \/ n \in DOMAIN requests /\ requests'[n] = requests[n]
                                      \/ n = Len(requests') /\ requests'[n].kind = w.kind
      BY <1>4, <1>5
    <2>2. DOMAIN requests \subseteq DOMAIN requests'
      BY <1>5
    <2>3. PICK l, x, rest : l = w.kind /\ x = Len(requests') /\ rest = Tail(parts)
      OBVIOUS
    <2>4. /\ l \in Lists /\ l \notin PendingLists /\ x \in Numbers'
          /\ rest \in Seq(Askable) /\ Begin(t, l, x, rest)
      BY <2>3, <1>1, <1>2, <1>3, <1>6
    <2>5. \A n \in DOMAIN requests' : \/ n \in DOMAIN requests /\ requests'[n] = requests[n]
                                      \/ n = x /\ requests'[n].kind = l
      BY <2>1, <2>3
    <2>6. /\ ListsOK' /\ ItersOK' /\ ChangesOK' /\ Alone'
          /\ list' = list /\ iter' = iter /\ overlapped \subseteq overlapped'
          /\ change'[t].over = l /\ change'[t].entry = x
          /\ \A u \in Threads \ {t} : change'[u] = change[u]
          /\ \A k \in Kinds : k \in OverlappedLists /\ (k # l \/ \E u \in Threads \ {t} : Over(u) = k)
                               => k \in OverlappedLists'
      BY <2>2, <2>4, <2>5, BeginKeeps DEF SharedInv
    <2> QED BY <2>3, <2>6
  <1>8. RequestsTypeOK'
    <2>1. ({0} \cup DOMAIN requests) \subseteq ({0} \cup DOMAIN requests')
      BY <1>5
    <2>2. \A k \in Kinds : list[k] \in Seq({0} \cup DOMAIN requests')
      BY <2>1, SeqMonotonic DEF SharedInv, RequestsTypeOK
    <2> QED BY <2>2, <1>3, <1>4, <1>5, <1>7 DEF SharedInv, RequestsTypeOK
  <1>9. ASSUME NEW n \in enabled' \ overlapped', requests'[n].kind # "prepare"
        PROVE  Listed(n)'
    <2>1. CASE n \in enabled
      <3>1. n \in enabled \ overlapped /\ requests'[n] = requests[n]
        BY <2>1, <1>4, <1>5, <1>7, <1>9 DEF SharedInv, RequestsTypeOK
      <3> QED BY <3>1, <1>7, <1>9, ListedKept DEF SharedInv
    <2>2. CASE n = Len(requests')
      BY <2>2, <1>4, <1>7 DEF Listed
    <2> QED BY <2>1, <2>2, <1>3
  <1>10. enabled' \subseteq enabled \cup {Len(requests) + 1}
    BY <1>3, <1>4
  <1>11. change'[t].over # "none"
    BY <1>2, <1>7 DEF Lists, Kinds
  <1> QED BY <1>7, <1>8, <1>9, <1>10, <1>11 DEF SharedInv, NoHiddenRequest

\* Where no list of the VM's requests changes, requests may be disabled.
LEMMA QuietKeeps ==
    ASSUME SharedInv, requests' = requests, enabled' \subseteq enabled,
           ListsOK', ItersOK', \A k \in Kinds : list'[k] = list[k],
           change' = change, overlapped' = overlapped
    PROVE  SharedInv' /\ OverlappedLists' = OverlappedLists
  <1> USE DEF SharedInv
  <1>1. RequestsTypeOK'
    BY DEF RequestsTypeOK
  <1>2. ChangesOK'
    BY DEF ChangesOK, In, Numbers
  <1>3. OverlappedLists' = OverlappedLists
    BY DEF OverlappedLists
  <1>4. Alone'
    BY <1>3 DEF Alone, Free
  <1>5. ASSUME NEW n \in enabled \ overlapped, requests[n].kind # "prepare"
        PROVE  Listed(n)'
    <2>1. requests[n].kind \in Kinds /\ Listed(n)
      BY <1>5, KindTypes DEF RequestsTypeOK, NoHiddenRequest
    <2> QED BY <2>1 DEF Listed
  <1>6. NoHiddenRequest'
    BY <1>5 DEF NoHiddenRequest
  <1> QED BY <1>1, <1>2, <1>3, <1>4, <1>6

\* A thread that begins to change a list makes no request, but may disable one.
LEMMA QuietBegin ==
    ASSUME SharedInv, NEW t \in Threads, NEW l \in Lists, NEW x \in In(l),
           Begin(t, l, x, <<>>), change[t].over = "none", requests' = requests, enabled' \subseteq enabled
    PROVE  /\ SharedInv'
           /\ list' = list /\ iter' = iter
           /\ change'[t].over = l /\ change'[t].entry = x
           /\ \A u \in Threads \ {t} : change'[u] = change[u]
           /\ OverlappedLists \subseteq OverlappedLists'
  <1> USE DEF SharedInv
  <1>1. PICK rest \in Seq(Askable) : rest = <<>>
    BY EmptySeq
  <1>2. Begin(t, l, x, rest)
    BY <1>1
  <1>3. /\ l \in PendingLists => x \in Entries
        /\ l \notin PendingLists => x \in Numbers'
    BY DEF In, Numbers
  <1>4. /\ ListsOK' /\ ItersOK' /\ ChangesOK' /\ Alone'
        /\ list' = list /\ iter' = iter /\ overlapped \subseteq overlapped'
        /\ change'[t].over = l /\ change'[t].entry = x
        /\ \A u \in Threads \ {t} : change'[u] = change[u]
    BY <1>2, <1>3, BeginKeeps
  <1>5. OverlappedLists \subseteq OverlappedLists'
    BY <1>4 DEF OverlappedLists
  <1>6. RequestsTypeOK'
    BY <1>4 DEF RequestsTypeOK
  <1>7. ASSUME NEW n \in enabled' \ overlapped', requests'[n].kind # "prepare"
        PROVE  Listed(n)'
    BY <1>4, <1>7, ListedKept
  <1>8. NoHiddenRequest'
    BY <1>7 DEF NoHiddenRequest
  <1> QED BY <1>4, <1>5, <1>6, <1>8

\* A ClassPrepareRequest is in no list.
LEMMA PrepareKeeps ==
    ASSUME SharedInv, NEW w \in Whats, w.kind = "prepare",
           requests' = Append(requests, w), enabled' = enabled \cup {Len(requests')},
           UNCHANGED <<list, iter, change, overlapped>>
    PROVE  /\ SharedInv' /\ Len(requests') \in Nat
           /\ OverlappedLists' = OverlappedLists
  <1> USE DEF SharedInv
  <1>1. /\ requests' \in Seq(Whats) /\ Len(requests') = Len(requests) + 1
        /\ \A n \in 1 .. Len(requests) : requests'[n] = requests[n]
        /\ requests'[Len(requests) + 1] = w
    BY AppendProperties DEF RequestsTypeOK
  <1>2. /\ Len(requests) \in Nat /\ DOMAIN requests = 1 .. Len(requests)
        /\ DOMAIN requests' = 1 .. Len(requests) + 1
    BY <1>1, KindTypes, LenProperties
  <1>3. RequestsTypeOK'
    <2>1. ({0} \cup DOMAIN requests) \subseteq ({0} \cup DOMAIN requests')
      BY <1>2
    <2>2. \A k \in Kinds : list[k] \in Seq({0} \cup DOMAIN requests')
      BY <2>1, SeqMonotonic DEF RequestsTypeOK
    <2> QED BY <2>2, <1>1, <1>2 DEF RequestsTypeOK
  <1>4. Numbers \subseteq Numbers'
    BY <1>2 DEF Numbers
  <1>5. ListsOK' /\ ItersOK' /\ ChangesOK'
    BY <1>4 DEF ListsOK, ItersOK, ChangesOK, In
  <1>6. OverlappedLists' = OverlappedLists
    BY <1>1, <1>2 DEF OverlappedLists, Kinds
  <1>7. Alone'
    BY <1>6 DEF Alone, Free
  <1>8. ASSUME NEW n \in enabled' \ overlapped', requests'[n].kind # "prepare"
        PROVE  Listed(n)'
    <2>1. n \in enabled /\ requests'[n] = requests[n]
      BY <1>1, <1>2, <1>8 DEF RequestsTypeOK
    <2>2. Listed(n)
      BY <2>1, <1>8 DEF NoHiddenRequest
    <2> QED BY <2>1, <2>2 DEF Listed
  <1>9. NoHiddenRequest'
    BY <1>8 DEF NoHiddenRequest
  <1>10. Len(requests') \in Nat
    BY <1>1, <1>2
  <1> QED BY <1>3, <1>5, <1>6, <1>7, <1>9, <1>10

\* The end of a change of a list: nothing is lost that was listed or in the hands
\* of a thread, where nobody else was changing it.
LEMMA EndKeeps ==
    ASSUME SharedInv, NEW t \in Threads, change[t].over \in Lists,
           requests' = requests, enabled' = enabled, overlapped' = overlapped, ItersOK',
           NEW q \in Seq(In(change[t].over)), DOMAIN list' = Lists,
           \A m \in Lists : list'[m] = IF m = change[t].over THEN q ELSE list[m],
           Ended(t) \/ Abandoned(t),
           change[t].over \in Kinds \ OverlappedLists /\ Free(t, change[t].over) =>
               /\ \A n \in ToSet(list[change[t].over]) \cap enabled : n \in ToSet(q)
               /\ change[t].entry \in enabled => change[t].entry \in ToSet(q)
    PROVE  /\ SharedInv' /\ OverlappedLists' = OverlappedLists
           /\ change'[t].over = "none" /\ \A u \in Threads \ {t} : change'[u] = change[u]
           /\ \A l \in Lists : l # change[t].over => list'[l] = list[l]
  <1> USE DEF SharedInv
  <1> DEFINE l == change[t].over
  <1>1. /\ DOMAIN list' = Lists
        /\ \A m \in Lists : list'[m] = IF m = l THEN q ELSE list[m]
    OBVIOUS
  <1>2. /\ DOMAIN change' = Threads /\ \A u \in Threads \ {t} : change'[u] = change[u]
        /\ DOMAIN change'[t] = {"over", "size", "entry", "parts"}
        /\ change'[t].over = "none" /\ change'[t].size \in Nat /\ change'[t].parts \in Seq(Askable)
    <2>1. PICK rest \in Seq(Askable) :
             change' = [change EXCEPT ![t] = [over |-> "none", size |-> 0, entry |-> 0, parts |-> rest]]
      <3>1. CASE Ended(t)
        <4>1. [NoChange EXCEPT !.parts = change[t].parts]
                 = [over |-> "none", size |-> 0, entry |-> 0, parts |-> change[t].parts]
          BY DEF NoChange
        <4> QED BY <4>1, <3>1 DEF Ended, ChangesOK
      <3>2. CASE Abandoned(t)
        BY <3>2, EmptySeq DEF Abandoned, NoChange
      <3> QED BY <3>1, <3>2
    <2> QED BY <2>1 DEF ChangesOK
  <1>3. RequestsTypeOK'
    <2>1. ASSUME NEW k \in Kinds
          PROVE  list'[k] \in Seq({0} \cup DOMAIN requests)
      <3>1. k \in Lists /\ k \notin PendingLists
        BY DEF Kinds, Lists, PendingLists
      <3>2. CASE k = l
        BY <3>1, <3>2, <1>1 DEF In, Numbers
      <3>3. CASE k # l
        BY <3>1, <3>3, <1>1 DEF RequestsTypeOK
      <3> QED BY <3>2, <3>3
    <2> QED BY <2>1 DEF RequestsTypeOK
  <1>4. ListsOK'
    <2>1. ASSUME NEW m \in PendingLists
          PROVE  list'[m] \in Seq(Entries)
      <3>1. m \in Lists
        BY DEF Lists, PendingLists
      <3>2. CASE m = l
        BY <3>1, <3>2, <1>1 DEF In
      <3>3. CASE m # l
        BY <3>1, <3>3, <1>1 DEF ListsOK
      <3> QED BY <3>2, <3>3
    <2> QED BY <2>1, <1>1 DEF ListsOK
  <1>5. ChangesOK'
    <2>1. ASSUME NEW u \in Threads
          PROVE  /\ DOMAIN change'[u] = {"over", "size", "entry", "parts"}
                 /\ change'[u].over \in Lists \cup {"none"} /\ change'[u].size \in Nat
                 /\ change'[u].parts \in Seq(Askable)
                 /\ (change[u].over # "none" => change[u].entry \in In(change[u].over))'
      <3>1. CASE u = t
        BY <3>1, <1>2
      <3>2. CASE u # t
        BY <3>2, <1>2 DEF ChangesOK, In, Numbers
      <3> QED BY <3>1, <3>2
    <2> QED BY <2>1, <1>2 DEF ChangesOK
  <1>6. OverlappedLists' = OverlappedLists
    BY DEF OverlappedLists
  <1>7. ASSUME NEW u \in Threads, NEW k \in Kinds, change'[u].over = k
        PROVE  Free(u, k)' \/ k \in OverlappedLists'
    <2>1. k # "none" /\ k \in Lists
      BY DEF Kinds, Lists
    <2>2. u # t /\ change[u].over = k
      BY <2>1, <1>2, <1>7
    <2>3. Free(u, k) => k # l /\ Free(u, k)'
      <3>1. ASSUME Free(u, k)
            PROVE  k # l
        BY <2>2, <3>1 DEF Free
      <3>2. ASSUME Free(u, k)
            PROVE  list'[k] = list[k]
        BY <3>1, <3>2, <2>1, <1>1
      <3> QED BY <3>1, <3>2, <2>1, <2>2, <1>2 DEF Free
    <2> QED BY <2>2, <2>3, <1>6 DEF Alone
  <1>8. Alone'
    BY <1>7 DEF Alone
  <1>9. ASSUME NEW n \in enabled \ overlapped, requests[n].kind # "prepare"
        PROVE  Listed(n)'
    <2> DEFINE k == requests[n].kind
    <2>1. n \in DOMAIN requests /\ k \in Kinds /\ k \in Lists /\ k # "none" /\ Listed(n)
      BY <1>9, KindTypes DEF RequestsTypeOK, NoHiddenRequest
    <2>2. CASE k # l
      <3>1. list'[k] = list[k]
        BY <2>1, <2>2, <1>1
      <3> QED BY <3>1, <2>1, <2>2, <1>2 DEF Listed
    <2>3. CASE k = l
      <3>1. k \notin OverlappedLists
        BY <2>1, <1>9 DEF OverlappedLists
      <3>2. Free(t, k)
        BY <3>1, <2>1, <2>3 DEF Alone
      <3>3. n \in ToSet(list[k]) \/ change[t].entry = n
        BY <3>2, <2>1 DEF Listed, Free
      <3>4. n \in ToSet(q)
        BY <3>1, <3>2, <3>3, <2>1, <2>3, <1>9
      <3>5. n \in ToSet(list'[k])
        BY <3>4, <2>1, <2>3, <1>1
      <3> QED BY <3>5 DEF Listed
    <2> QED BY <2>2, <2>3
  <1>10. NoHiddenRequest'
    BY <1>9 DEF NoHiddenRequest
  <1> QED BY <1>1, <1>2, <1>3, <1>4, <1>5, <1>6, <1>8, <1>10

\* What every end of a change does to what the threads share.
Ends(t) ==
    /\ SharedInv' /\ OverlappedLists' = OverlappedLists
    /\ change'[t].over = "none" /\ \A u \in Threads \ {t} : change'[u] = change[u]
    /\ \A l \in Lists : l # change[t].over => list'[l] = list[l]

\* The sizes a thread may go by.
LEMMA SizesTypes ==
    ASSUME SharedInv, NEW t \in Threads, change[t].over \in Lists, NEW n \in SizesSeen(t)
    PROVE  /\ n \in Nat
           /\ Sized(change[t].over, n) \in Seq(In(change[t].over)) /\ Len(Sized(change[t].over, n)) = n
           /\ Free(t, change[t].over) => Sized(change[t].over, n) = list[change[t].over]
  <1> USE DEF SharedInv
  <1>1. list[change[t].over] \in Seq(In(change[t].over)) /\ 0 \in Nat
    BY SizedTypes
  <1>2. n \in Nat /\ (n = change[t].size \/ n = Len(list[change[t].over]))
    BY <1>1, LenProperties DEF SizesSeen, ChangesOK, Over
  <1>3. /\ Sized(change[t].over, n) \in Seq(In(change[t].over)) /\ Len(Sized(change[t].over, n)) = n
        /\ n = Len(list[change[t].over]) => Sized(change[t].over, n) = list[change[t].over]
    BY <1>2, SizedTypes
  <1> QED BY <1>2, <1>3 DEF Free

\* An add that goes by the right size enters what it adds and loses nothing.
LEMMA EndAddKeeps ==
    ASSUME SharedInv, NEW t \in Threads, change[t].over \in Lists, EndAdd(t), UNCHANGED <<requests, enabled>>
    PROVE  /\ Ends(t) /\ change'[t].parts = change[t].parts
           /\ \A u \in Threads : iter'[u].over = iter[u].over /\ iter'[u].at = iter[u].at
  <1> USE DEF SharedInv
  <1> DEFINE l == change[t].over
             e == change[t].entry
  <1>1. PICK n \in SizesSeen(t) : list' = [list EXCEPT ![l] = Append(Sized(l, n), e)]
    BY DEF EndAdd, Over
  <1>2. /\ Sized(l, n) \in Seq(In(l))
        /\ Free(t, l) => Sized(l, n) = list[l]
    BY SizesTypes
  <1>3. e \in In(l)
    BY DEF ChangesOK, Lists, Kinds
  <1>4. PICK q \in Seq(In(l)) : q = Append(Sized(l, n), e)
    BY <1>2, <1>3, AppendKeeps
  <1>5. /\ e \in ToSet(q) /\ ToSet(Sized(l, n)) \subseteq ToSet(q)
    BY <1>2, <1>3, <1>4, AppendKeeps
  <1>6. /\ ItersOK'
        /\ \A u \in Threads : iter'[u].over = iter[u].over /\ iter'[u].at = iter[u].at
    BY TouchedTypes DEF EndAdd, Over, ItersOK
  <1>7. Ended(t) /\ overlapped' = overlapped
    BY DEF EndAdd
  <1>8. Ends(t)
    <2>1. Free(t, l) => \A m \in ToSet(list[l]) \cap enabled : m \in ToSet(q)
      BY <1>2, <1>5
    <2>2. /\ DOMAIN list' = Lists
          /\ \A m \in Lists : list'[m] = IF m = l THEN q ELSE list[m]
      BY <1>1, <1>4 DEF ListsOK
    <2> QED BY <2>1, <2>2, <1>5, <1>6, <1>7, EndKeeps DEF Ends
  <1>9. change'[t].parts = change[t].parts
    BY <1>7 DEF Ended, NoChange, ChangesOK
  <1> QED BY <1>6, <1>8, <1>9

\* A change that throws is one that met another.
LEMMA ThrowKeeps ==
    ASSUME SharedInv, NEW t \in Threads, change[t].over \in Lists, Abandoned(t),
           UNCHANGED <<requests, enabled, list, overlapped>>, ItersOK',
           \/ change[t].over \notin Kinds
           \/ change[t].size # Len(list[change[t].over])
           \/ change[t].entry \notin enabled
    PROVE  Ends(t)
  <1> USE DEF SharedInv
  <1> DEFINE l == change[t].over
  <1>1. PICK q \in Seq(In(l)) : q = list[l]
    <2>1. 0 \in Nat
      OBVIOUS
    <2> QED BY <2>1, SizedTypes
  <1>2. /\ DOMAIN list' = Lists
        /\ \A m \in Lists : list'[m] = IF m = l THEN q ELSE list[m]
    BY <1>1 DEF ListsOK
  <1>3. l \in Kinds /\ Free(t, l) => change[t].entry \notin enabled
    BY DEF Free
  <1> QED BY <1>1, <1>2, <1>3, EndKeeps DEF Ends

\* A remove that goes by the right size takes out what is not enabled.
LEMMA EndRemoveKeeps ==
    ASSUME SharedInv, NEW t \in Threads, change[t].over \in Lists, EndRemove(t), UNCHANGED <<requests, enabled>>,
           iter[t].over # "none",
           change[t].over \in Kinds =>
               /\ change[t].entry = 0
               /\ \/ change[t].over \in OverlappedLists
                  \/ /\ iter[t].at <= Len(list[change[t].over])
                     /\ list[change[t].over][iter[t].at] \notin enabled
    PROVE  /\ Ends(t)
           /\ \A u \in Threads : iter'[u].over = iter[u].over /\ iter'[u].at = iter[u].at
  <1> USE DEF SharedInv
  <1> DEFINE l == change[t].over
             i == iter[t].at
  <1>1. PICK n \in SizesSeen(t) \ {0} :
           list' = [list EXCEPT ![l] = RemoveAt(Sized(l, n), IF i <= n THEN i ELSE n)]
    BY DEF EndRemove, Over
  <1>2. /\ n \in Nat \ {0} /\ Sized(l, n) \in Seq(In(l)) /\ Len(Sized(l, n)) = n
        /\ Free(t, l) => Sized(l, n) = list[l]
    BY SizesTypes
  <1>3. i \in Nat \ {0}
    BY DEF ItersOK, Iterators
  <1>4. PICK j \in 1 .. Len(Sized(l, n)) : j = (IF i <= n THEN i ELSE n)
    BY <1>2, <1>3
  <1>5. /\ RemoveAt(Sized(l, n), j) \in Seq(In(l))
        /\ \A x \in ToSet(Sized(l, n)) : x # Sized(l, n)[j] => x \in ToSet(RemoveAt(Sized(l, n), j))
    BY <1>2, RemoveAtKeeps
  <1>6. PICK q \in Seq(In(l)) : q = RemoveAt(Sized(l, n), j)
    BY <1>5
  <1>7. /\ DOMAIN list' = Lists
        /\ \A m \in Lists : list'[m] = IF m = l THEN q ELSE list[m]
    BY <1>1, <1>4, <1>6 DEF ListsOK
  <1>8. /\ ItersOK'
        /\ \A u \in Threads : iter'[u].over = iter[u].over /\ iter'[u].at = iter[u].at
    <2>1. /\ Touched(t, l) \in [Threads -> Iterators]
          /\ \A u \in Threads : Touched(t, l)[u].over = iter[u].over /\ Touched(t, l)[u].at = iter[u].at
      BY TouchedTypes
    <2>2. iter' = [Touched(t, l) EXCEPT ![t].stale = FALSE]
      BY DEF EndRemove, Over
    <2>3. /\ iter' \in [Threads -> Iterators]
          /\ \A u \in Threads : iter'[u].over = iter[u].over /\ iter'[u].at = iter[u].at
      BY <2>1, <2>2 DEF Iterators
    <2> QED BY <2>3 DEF ItersOK
  <1>9. Ended(t) /\ overlapped' = overlapped
    BY DEF EndRemove
  <1>10. change[t].entry \in enabled /\ l \in Kinds => FALSE
    BY KindTypes DEF RequestsTypeOK
  <1>11. ASSUME l \in Kinds \ OverlappedLists, Free(t, l), NEW m \in ToSet(list[l]) \cap enabled
         PROVE  m \in ToSet(q)
    <2>1. i <= Len(list[l]) /\ list[l][i] \notin enabled
      BY <1>11
    <2>2. Sized(l, n) = list[l] /\ j = i
      BY <2>1, <1>2, <1>4, <1>11
    <2> QED BY <2>1, <2>2, <1>5, <1>6, <1>11
  <1> QED BY <1>7, <1>8, <1>9, <1>10, <1>11, EndKeeps DEF Ends

-----------------------------------------------------------------------------
(* The RPC thread *)

\* What is asked for next is something that can be asked.
LEMMA OpTypes ==
    ASSUME plan \in Plans, RpcOK, rpc.ip <= Len(plan.ops)
    PROVE  /\ Op.what \in Whats
           /\ Op.op \in {"set", "method", "catch"} => Op.what.kind \in Kinds
  <1>1. plan.ops \in Seq([op : OpNames, what : Whats])
    BY PlanAssumption
  <1>2. rpc.ip \in 1 .. Len(plan.ops) /\ DOMAIN plan.ops = 1 .. Len(plan.ops)
    BY <1>1, LenProperties DEF RpcOK
  <1>3. Op \in [op : OpNames, what : Whats]
    BY <1>1, <1>2, ElementOfSeq DEF Op
  <1> QED BY <1>2, <1>3, PlanAssumption DEF Op

\* The lists a request goes through.
LEMMA WalkOrderTypes ==
    ASSUME Op.op \in WalkOps
    PROVE  Len(WalkOrder) \in Nat \ {0} /\ \A n \in 1 .. Len(WalkOrder) : WalkOrder[n] \in Lists
  <1>1. WalkOrder \in Seq(Lists) /\ Len(WalkOrder) \in Nat \ {0}
    <2>1. ASSUME NEW a \in Lists, NEW b \in Lists, NEW c \in Lists,
                 NEW d \in Lists, NEW e \in Lists, NEW f \in Lists
          PROVE  <<a, b, c, d, e, f>> \in Seq(Lists) /\ <<a, b>> \in Seq(Lists)
      OBVIOUS
    <2>2. /\ "pending break" \in Lists /\ "break" \in Lists /\ "method" \in Lists
          /\ "pending watch" \in Lists /\ "watch" \in Lists /\ "catch" \in Lists
      BY DEF Lists, Kinds
    <2>3. CASE Op.op \in {"clear", "list"}
      <3>1. WalkOrder = <<"pending break", "break", "method", "pending watch", "watch", "catch">>
        BY <2>3 DEF WalkOrder
      <3>2. Len(<<"pending break", "break", "method", "pending watch", "watch", "catch">>) = 6
        OBVIOUS
      <3>3. <<"pending break", "break", "method", "pending watch", "watch", "catch">> \in Seq(Lists)
        BY <2>1, <2>2, Zenon
      <3>4. WalkOrder \in Seq(Lists)
        BY <3>1, <3>3, Zenon
      <3>5. Len(WalkOrder) = 6
        BY <3>1, <3>2, Zenon
      <3> QED BY <3>4, <3>5
    <2>4. CASE Op.op = "unwatch"
      <3>1. WalkOrder = <<"pending watch", "watch">>
        BY <2>4 DEF WalkOrder
      <3>2. Len(<<"pending watch", "watch">>) = 2
        OBVIOUS
      <3>3. <<"pending watch", "watch">> \in Seq(Lists)
        BY <2>1, <2>2, Zenon
      <3>4. WalkOrder \in Seq(Lists)
        BY <3>1, <3>3, Zenon
      <3>5. Len(WalkOrder) = 2
        BY <3>1, <3>2, Zenon
      <3> QED BY <3>4, <3>5
    <2>5. CASE Op.op = "ignore"
      <3>1. WalkOrder = <<"catch">>
        BY <2>5 DEF WalkOrder
      <3>2. Len(<<"catch">>) = 1
        OBVIOUS
      <3>3. <<"catch">> \in Seq(Lists)
        <4>1. ASSUME NEW a \in Lists
              PROVE  <<a>> \in Seq(Lists)
          OBVIOUS
        <4> QED BY <4>1, <2>2, Zenon
      <3>4. WalkOrder \in Seq(Lists)
        BY <3>1, <3>3, Zenon
      <3>5. Len(WalkOrder) = 1
        BY <3>1, <3>2, Zenon
      <3> QED BY <3>4, <3>5
    <2> QED BY <2>3, <2>4, <2>5 DEF WalkOps
  <1> QED BY <1>1, ElementOfSeq

\* What the RPC thread does to its own changes leaves the event loop where it is.
LEMMA LoopStays ==
    ASSUME LoopOK, loop' = loop, change'["loop"] = change["loop"], iter'["loop"].over = iter["loop"].over
    PROVE  LoopOK'
  BY DEF LoopOK

LEMMA ThreadTypes == "rpc" \in Threads /\ "loop" \in Threads /\ "loop" # "rpc"
  BY DEF Threads

\* The answer leaves the RPC thread in the middle of nothing.
LEMMA ReplyKeeps ==
    ASSUME RpcOK, Reply, change'["rpc"].over = "none"
    PROVE  RpcOK' /\ RemovalOK'
  BY DEF RpcOK, Reply, RemovalOK

\* The RPC thread makes a request and is about to enter it.
LEMMA RpcMakes ==
    ASSUME RequestsInv, UNCHANGED <<plan, loop>>, rpc.at \in {"idle", "make"},
           NEW parts \in Seq(Askable), parts # <<>>, Make("rpc", parts), Goes("enter")
    PROVE  RequestsInv'
  <1> USE DEF RequestsInv
  <1>1. change["rpc"].over = "none"
    BY DEF RpcOK
  <1>2. /\ SharedInv' /\ iter' = iter
        /\ change'["rpc"].over # "none" /\ change'["loop"] = change["loop"]
    BY <1>1, ThreadTypes, MakeKeeps
  <1>3. rpc' = [rpc EXCEPT !.at = "enter"]
    BY DEF Goes
  <1>4. RpcOK' /\ RemovalOK'
    BY <1>2, <1>3 DEF RpcOK, RemovalOK
  <1> QED BY <1>2, <1>4, LoopStays

\* The RPC thread ends a change, and goes on or answers.
LEMMA RpcEnds ==
    ASSUME RequestsInv, UNCHANGED <<plan, loop>>, Ends("rpc"), iter'["loop"].over = iter["loop"].over,
           \/ Reply
           \/ Goes("prepare")
           \/ Goes("make") /\ change'["rpc"].parts # <<>>
           \/ Goes("walk") /\ Op.op \in WalkOps
    PROVE  RequestsInv'
  <1> USE DEF RequestsInv
  <1>1. /\ SharedInv' /\ change'["rpc"].over = "none" /\ change'["loop"] = change["loop"]
    BY ThreadTypes DEF Ends
  <1>2. RpcOK' /\ RemovalOK'
    <2>1. CASE Reply
      BY <2>1, <1>1, ReplyKeeps
    <2>2. CASE Goes("prepare")
      BY <2>2, <1>1 DEF Goes, RpcOK, RemovalOK
    <2>3. CASE Goes("make") /\ change'["rpc"].parts # <<>>
      BY <2>3, <1>1 DEF Goes, RpcOK, RemovalOK
    <2>4. CASE Goes("walk") /\ Op.op \in WalkOps
      BY <2>4, <1>1 DEF Goes, RpcOK, RemovalOK, Op
    <2> QED BY <2>1, <2>2, <2>3, <2>4
  <1> QED BY <1>1, <1>2, LoopStays

\* A step of the RPC thread that changes none of what is shared but iterators,
\* the modes of deferred entries and what is enabled.
LEMMA RpcQuiet ==
    ASSUME RequestsInv, UNCHANGED <<plan, loop, requests, change, overlapped>>, enabled' \subseteq enabled,
           ListsOK', ItersOK', \A k \in Kinds : list'[k] = list[k],
           iter'["loop"].over = iter["loop"].over, RpcOK', rpc'.at # "remove"
    PROVE  RequestsInv'
  <1> USE DEF RequestsInv
  <1>1. SharedInv'
    BY QuietKeeps
  <1> QED BY <1>1, LoopStays DEF RemovalOK

\* Breakpoints and watchpoints, now or deferred.
LEMMA DeferrableKeeps ==
    ASSUME RequestsInv, UNCHANGED <<plan, loop>>, rpc.ip <= Len(plan.ops),
           Op.what.kind \in {"break", "watch"}, Deferrable(Op.what)
    PROVE  RequestsInv'
  <1> DEFINE w == Op.what
  <1> USE DEF RequestsInv
  <1>1. w \in Deferrables /\ w \in Whats /\ w \in Askable
    BY OpTypes DEF Deferrables, Askable, Kinds
  <1>2. /\ Pending[w.kind] \in PendingLists
        /\ Pending[w.kind] \in Lists
    <2>1. Pending["break"] = "pending break" /\ Pending["watch"] = "pending watch"
      BY DEF Pending
    <2> QED BY <2>1 DEF PendingLists, Lists
  <1> HIDE DEF w
  <1>3. CASE Due("set") /\ SetNow(w)
    <2>1. PICK parts \in Seq(Askable) : parts = Parts(w) /\ parts # <<>>
      BY <1>1, PartsTypes
    <2>2. Make("rpc", parts) /\ Goes("enter") /\ rpc.at = "idle"
      BY <2>1, <1>3 DEF SetNow, Makes, Due
    <2> QED BY <2>1, <2>2, RpcMakes
  <1>4. CASE Due("set") /\ SetRefused(w)
    <2>1. UNCHANGED <<requests, enabled, list, iter, change, overlapped>> /\ Reply /\ rpc.at = "idle"
      BY <1>4 DEF SetRefused, Due, vmVars, listVars
    <2>2. RpcOK' /\ rpc'.at # "remove"
      BY <2>1, ReplyKeeps DEF RpcOK, Reply
    <2>3. ListsOK' /\ ItersOK'
      BY <2>1 DEF SharedInv, ListsOK, ItersOK
    <2> QED BY <2>1, <2>2, <2>3, RpcQuiet
  <1>5. CASE Due("set") /\ SetDeferred(w)
    <2>1. PICK l \in Lists, x \in Entries : l = Pending[w.kind] /\ l \in PendingLists /\ x = [what |-> w, by |-> rpc.ip]
      <3>1. [what |-> w, by |-> rpc.ip] \in Entries
        BY <1>1 DEF Entries, RpcOK
      <3> QED BY <3>1, <1>2
    <2>2. /\ Begin("rpc", l, x, <<>>) /\ rpc' = [rpc EXCEPT !.at = "add"] /\ rpc.at = "idle"
          /\ UNCHANGED <<requests, enabled>>
      BY <2>1, <1>5 DEF SetDeferred, Goes, Due, vmVars
    <2>3. change["rpc"].over = "none"
      BY <2>2 DEF RpcOK
    <2>4. /\ SharedInv' /\ iter' = iter
          /\ change'["rpc"].over = l /\ change'["loop"] = change["loop"]
      BY <2>1, <2>2, <2>3, ThreadTypes, QuietBegin DEF In
    <2>5. RpcOK' /\ RemovalOK'
      BY <2>2, <2>4 DEF RpcOK, RemovalOK, Lists, Kinds
    <2> QED BY <2>4, <2>5, LoopStays
  <1>6. CASE AddPending
    <2>1. change["rpc"].over # "none" /\ UNCHANGED <<requests, enabled>>
      BY <1>6 DEF AddPending, RpcOK, vmVars
    <2>2. change["rpc"].over \in Lists
      BY <2>1, ThreadTypes DEF SharedInv, ChangesOK
    <2>3. CASE EndAdd("rpc") /\ Goes("prepare")
      BY <2>1, <2>2, <2>3, ThreadTypes, EndAddKeeps, RpcEnds
    <2>4. CASE AddThrows("rpc") /\ Reply /\ UNCHANGED iter
      <3>1. /\ change["rpc"].size # Len(list[change["rpc"].over]) /\ Abandoned("rpc")
            /\ UNCHANGED <<list, overlapped>>
        BY <2>4 DEF AddThrows, Over
      <3>2. ItersOK'
        BY <2>4 DEF SharedInv, ItersOK
      <3>3. Ends("rpc")
        BY <3>1, <3>2, <2>1, <2>2, ThreadTypes, ThrowKeeps
      <3> QED BY <3>3, <2>4, RpcEnds
    <2> QED BY <2>3, <2>4, <1>6 DEF AddPending
  <1>7. CASE EnablePrepare(w)
    <2>1. PICK r \in Whats : r = What("prepare", w.class, "", "") /\ r.kind = "prepare"
      <3> DEFINE r == What("prepare", w.class, "", "")
      <3>1. w.class \in Seq(Names)
        BY <1>1 DEF Whats
      <3>2. r \in Whats /\ r.kind = "prepare"
        BY <3>1 DEF What, Whats, Modes
      <3> QED BY <3>2
    <2>2. /\ requests' = Append(requests, r)
          /\ enabled' = enabled \cup {Len(requests')}
          /\ rpc.at = "prepare" /\ rpc' = [rpc EXCEPT !.at = "assign", !.nth = Len(requests')]
          /\ UNCHANGED <<list, iter, change, overlapped>>
      BY <2>1, <1>7 DEF EnablePrepare, listVars
    <2>3. SharedInv' /\ Len(requests') \in Nat
      BY <2>1, <2>2, PrepareKeeps
    <2>4. RpcOK' /\ RemovalOK'
      BY <2>2, <2>3 DEF RpcOK, RemovalOK
    <2> QED BY <2>2, <2>3, <2>4, LoopStays
  <1>8. CASE AssignPrepare
    <2>1. UNCHANGED <<requests, enabled, list, iter, change, overlapped>> /\ Reply /\ rpc.at = "assign"
      BY <1>8 DEF AssignPrepare, listVars
    <2>2. RpcOK' /\ rpc'.at # "remove"
      BY <2>1, ReplyKeeps DEF RpcOK, Reply
    <2>3. ListsOK' /\ ItersOK'
      BY <2>1 DEF SharedInv, ListsOK, ItersOK
    <2> QED BY <2>1, <2>2, <2>3, RpcQuiet
  <1> QED BY <1>3, <1>4, <1>5, <1>6, <1>7, <1>8 DEF Deferrable, w

\* Requests that are made whatever is loaded, and the rest of one that is two.
LEMMA DirectKeeps ==
    ASSUME RequestsInv, UNCHANGED <<plan, loop>>, rpc.ip <= Len(plan.ops),
           setMethodEvent \/ catchException \/ MakesRest
    PROVE  RequestsInv'
  <1> USE DEF RequestsInv
  <1>1. PICK parts \in Seq(Askable) : parts # <<>> /\ Make("rpc", parts) /\ rpc.at \in {"idle", "make"}
    <2>1. CASE setMethodEvent
      <3>1. Op.what \in Askable /\ rpc.at = "idle" /\ Make("rpc", Parts(Op.what))
        BY <2>1, OpTypes DEF setMethodEvent, Due, Makes, Askable
      <3> QED BY <3>1, PartsTypes
    <2>2. CASE catchException
      <3> DEFINE w == [Op.what EXCEPT !.site = IF Op.what.class \in loaded THEN "type" ELSE "any"]
      <3>1. Op.what \in Whats /\ Op.what.kind \in Kinds
        BY <2>2, OpTypes DEF catchException, Due
      <3>2. w \in Askable
        BY <3>1 DEF Whats, Askable
      <3>3. rpc.at = "idle" /\ Make("rpc", Parts(w))
        BY <2>2 DEF catchException, Due, Makes
      <3> QED BY <3>2, <3>3, PartsTypes
    <2>3. CASE MakesRest
      BY <2>3, ThreadTypes DEF MakesRest, RpcOK, SharedInv, ChangesOK
    <2> QED BY <2>1, <2>2, <2>3
  <1>2. Goes("enter")
    BY DEF setMethodEvent, catchException, MakesRest, Makes
  <1> QED BY <1>1, <1>2, RpcMakes

\* What was made is entered.
LEMMA EntersKeeps ==
    ASSUME RequestsInv, UNCHANGED <<plan, loop>>, Enters
    PROVE  RequestsInv'
  <1> USE DEF RequestsInv
  <1>1. change["rpc"].over # "none" /\ UNCHANGED <<requests, enabled>>
    BY DEF Enters, RpcOK, vmVars
  <1>2. change["rpc"].over \in Lists
    BY <1>1, ThreadTypes DEF SharedInv, ChangesOK
  <1>3. CASE EndAdd("rpc") /\ (Reply \/ (Goes("make") /\ change["rpc"].parts # <<>>))
    <2>1. Ends("rpc") /\ change'["rpc"].parts = change["rpc"].parts /\ iter'["loop"].over = iter["loop"].over
      BY <1>1, <1>2, <1>3, ThreadTypes, EndAddKeeps
    <2> QED BY <2>1, <1>3, RpcEnds
  <1>4. CASE AddThrows("rpc") /\ Reply /\ UNCHANGED iter
    <2>1. /\ change["rpc"].size # Len(list[change["rpc"].over]) /\ Abandoned("rpc")
          /\ UNCHANGED <<list, overlapped>>
      BY <1>4 DEF AddThrows, Over
    <2>2. ItersOK'
      BY <1>4 DEF SharedInv, ItersOK
    <2>3. Ends("rpc")
      BY <2>1, <2>2, <1>1, <1>2, ThreadTypes, ThrowKeeps
    <2> QED BY <2>3, <1>4, RpcEnds
  <1>5. \/ EndAdd("rpc") /\ (Reply \/ (Goes("make") /\ change["rpc"].parts # <<>>))
        \/ AddThrows("rpc") /\ Reply /\ UNCHANGED iter
    BY DEF Enters
  <1> QED BY <1>3, <1>4, <1>5

\* An iterator may be put on any list, or anywhere in it.
LEMMA IteratorSet ==
    ASSUME SharedInv, NEW t \in Threads, NEW it \in Iterators, it.over # "none" => it.at # 0,
           iter' = [iter EXCEPT ![t] = it]
    PROVE  /\ ItersOK' /\ iter'[t] = it
           /\ \A u \in Threads \ {t} : iter'[u] = iter[u]
  BY DEF SharedInv, ItersOK

LEMMA NoIteratorType == NoIterator \in Iterators /\ NoIterator.over = "none"
  BY DEF NoIterator, Iterators

\* A request that goes through the lists: nothing leaves a list but with its
\* request.
LEMMA WalkKeeps ==
    ASSUME RequestsInv, UNCHANGED <<plan, loop>>, rpc.ip <= Len(plan.ops), Walking
    PROVE  RequestsInv'
  <1> USE DEF RequestsInv
  <1>0. requests' = requests
    BY DEF Walking
  <1>1. ASSUME NEW n \in 1 .. Len(WalkOrder), Op.op \in WalkOps, WalkList(n), rpc.at \in {"idle", "walk"}
        PROVE  RequestsInv'
    <2>1. WalkOrder[n] \in Lists /\ n \in Nat
      BY <1>1, WalkOrderTypes
    <2>2. PICK it \in Iterators : it.at # 0 /\ iter' = [iter EXCEPT !["rpc"] = it]
      <3> DEFINE it == [over |-> WalkOrder[n], at |-> 1, stale |-> FALSE]
      <3>1. it \in Iterators /\ it.at # 0
        BY <2>1 DEF Iterators
      <3> QED BY <3>1, <1>1 DEF WalkList
    <2>3. ItersOK' /\ iter'["loop"] = iter["loop"]
      BY <2>2, ThreadTypes, IteratorSet
    <2>4. rpc' = [rpc EXCEPT !.at = "walk", !.nth = n] /\ UNCHANGED <<enabled, list, change, overlapped>>
      BY <1>1 DEF WalkList
    <2>5. RpcOK' /\ rpc'.at # "remove"
      BY <2>1, <2>4, <1>1 DEF RpcOK, Op
    <2>6. ListsOK'
      BY <2>4 DEF SharedInv, ListsOK
    <2> QED BY <2>3, <2>4, <2>5, <2>6, <1>0, RpcQuiet
  <1>2. ASSUME WalkStops, rpc.at = "walk", enabled' \subseteq enabled
        PROVE  RequestsInv'
    <2>1. ItersOK' /\ iter'["loop"] = iter["loop"]
      BY <1>2, NoIteratorType, ThreadTypes, IteratorSet DEF WalkStops
    <2>2. Reply /\ UNCHANGED <<list, change, overlapped>>
      BY <1>2 DEF WalkStops
    <2>3. RpcOK' /\ rpc'.at # "remove"
      BY <2>2, <1>2, ReplyKeeps DEF RpcOK, Reply
    <2>4. ListsOK'
      BY <2>2 DEF SharedInv, ListsOK
    <2> QED BY <2>1, <2>2, <2>3, <2>4, <1>0, <1>2, RpcQuiet
  <1>3. CASE Walk
    <2>1. Op.op \in WalkOps /\ rpc.at = "idle"
      BY <1>3 DEF Walk, Due, WalkOps
    <2>2. 1 \in 1 .. Len(WalkOrder)
      BY <2>1, WalkOrderTypes
    <2> QED BY <2>1, <2>2, <1>1, <1>3 DEF Walk
  <1>4. CASE rpc.at = "walk" /\ WalkOn
    <2>1. Op.op \in WalkOps
      BY <1>4 DEF RpcOK
    <2>2. rpc.nth + 1 \in 1 .. Len(WalkOrder)
      BY <2>1, <1>4, WalkOrderTypes DEF WalkOn, RpcOK
    <2> QED BY <2>1, <2>2, <1>1, <1>4 DEF WalkOn
  <1>5. CASE rpc.at = "walk" /\ (WalkDone \/ WalkFails)
    BY <1>2, <1>5 DEF WalkDone, WalkFails
  <1>6. CASE rpc.at = "walk" /\ WalkPast
    <2> DEFINE l == iter["rpc"].over
               i == iter["rpc"].at
    <2>1. l \in Lists /\ i \in Nat \ {0} /\ i <= Len(list[l])
      BY <1>6, ThreadTypes DEF WalkPast, Next_, SharedInv, ItersOK, Iterators
    <2>2. UNCHANGED <<enabled, change, overlapped, rpc>> /\ iter' = [iter EXCEPT !["rpc"].at = @ + 1]
      BY <1>6 DEF WalkPast, Skip
    <2>3. ItersOK' /\ iter'["loop"] = iter["loop"]
      BY <2>1, <2>2, ThreadTypes DEF SharedInv, ItersOK, Iterators
    <2>4. RpcOK' /\ rpc'.at # "remove"
      BY <2>2, <1>6 DEF RpcOK, Op
    <2>5. CASE UNCHANGED list
      <3>1. ListsOK'
        BY <2>5 DEF SharedInv, ListsOK
      <3> QED BY <3>1, <2>2, <2>3, <2>4, <2>5, <1>0, RpcQuiet
    <2>6. CASE list' # list
      <3> DEFINE w == list[l][i].what
                 q == [list[l] EXCEPT ![i].what = removeMode(w)]
      <3>1. l \in PendingLists /\ list' = [list EXCEPT ![l] = q]
        BY <2>6, <1>6 DEF WalkPast, IsPending, PendingLists, EntryOf, Item
      <3>2. list[l] \in Seq(Entries) /\ i \in 1 .. Len(list[l])
        BY <3>1, <2>1, LenProperties DEF SharedInv, ListsOK
      <3>3. list[l][i] \in Entries
        BY <3>2, ElementOfSeq
      <3>4. w \in Deferrables
        BY <3>3 DEF Entries
      <3> HIDE DEF w
      <3>5. removeMode(w) \in Deferrables
        BY <3>4 DEF removeMode, Deferrables, Whats, Modes
      <3>6. [list[l][i] EXCEPT !.what = removeMode(w)] \in Entries
        BY <3>3, <3>5 DEF Entries
      <3>7. q \in Seq(Entries)
        <4>1. q = [list[l] EXCEPT ![i] = [list[l][i] EXCEPT !.what = removeMode(w)]]
          OBVIOUS
        <4> QED BY <4>1, <3>2, <3>6, ExceptSeq
      <3> HIDE DEF q
      <3>8. ListsOK'
        BY <3>1, <3>7 DEF SharedInv, ListsOK
      <3>9. \A k \in Kinds : list'[k] = list[k]
        BY <3>1 DEF SharedInv, ListsOK, Lists, Kinds, PendingLists
      <3> QED BY <3>8, <3>9, <2>2, <2>3, <2>4, <1>0, RpcQuiet
    <2> QED BY <2>5, <2>6
  <1>7. CASE rpc.at = "walk" /\ WalkRemoves
    <2> DEFINE x == deleteEventRequest(iter["rpc"].over, Item("rpc"))
    <2>1. Next_("rpc") /\ enabled' = enabled \ {x}
      BY <1>7 DEF WalkRemoves
    <2>2. CASE BeginRemove("rpc") /\ Goes("remove")
      <3>1. PICK l \in Lists : l = iter["rpc"].over
        BY <2>1, ThreadTypes DEF Next_, SharedInv, ItersOK, Iterators
      <3>2. PICK e \in In(l) : e = NullIn(l)
        BY NullType
      <3>3. Begin("rpc", l, e, <<>>) /\ change["rpc"].over = "none" /\ enabled' \subseteq enabled
        BY <3>1, <3>2, <2>1, <2>2, <1>7 DEF BeginRemove, RpcOK
      <3>4. /\ SharedInv' /\ list' = list /\ iter' = iter
            /\ change'["rpc"].over = l /\ change'["rpc"].entry = e
            /\ change'["loop"] = change["loop"]
        BY <3>3, <1>0, ThreadTypes, QuietBegin
      <3>5. rpc' = [rpc EXCEPT !.at = "remove"]
        BY <2>2 DEF Goes
      <3>6. RpcOK'
        BY <3>4, <3>5, <1>7 DEF RpcOK, Op, Lists, Kinds
      <3>7. l \in Kinds => /\ e = 0
                           /\ iter["rpc"].at <= Len(list[l]) /\ list[l][iter["rpc"].at] \notin enabled'
        BY <3>1, <3>2, <2>1 DEF NullIn, IsPending, Kinds, deleteEventRequest, Next_, Item
      <3>8. RemovalOK'
        BY <3>1, <3>4, <3>7 DEF RemovalOK
      <3> QED BY <3>4, <3>6, <3>8, LoopStays
    <2>3. CASE WalkStops
      BY <2>1, <2>3, <1>2, <1>7
    <2> QED BY <2>2, <2>3, <1>7 DEF WalkRemoves
  <1>8. CASE WalkRemoved
    <2>1. /\ change["rpc"].over # "none" /\ Op.op \in WalkOps /\ UNCHANGED <<requests, enabled>>
          /\ iter["rpc"].over = change["rpc"].over
          /\ change["rpc"].over \in Kinds =>
                /\ change["rpc"].entry = 0
                /\ \/ change["rpc"].over \in OverlappedLists
                   \/ /\ iter["rpc"].at <= Len(list[change["rpc"].over])
                      /\ list[change["rpc"].over][iter["rpc"].at] \notin enabled
      BY <1>8, <1>0 DEF WalkRemoved, RpcOK, RemovalOK
    <2>2. change["rpc"].over \in Lists
      BY <2>1, ThreadTypes DEF SharedInv, ChangesOK
    <2>3. CASE EndRemove("rpc") /\ Goes("walk")
      <3>1. Ends("rpc") /\ iter'["loop"].over = iter["loop"].over
        BY <2>1, <2>2, <2>3, ThreadTypes, EndRemoveKeeps
      <3> QED BY <3>1, <2>1, <2>3, RpcEnds
    <2>4. CASE RemoveThrows("rpc") /\ Reply
      <3>1. ItersOK' /\ iter'["loop"] = iter["loop"]
        BY <2>4, NoIteratorType, ThreadTypes, IteratorSet DEF RemoveThrows
      <3>2. Abandoned("rpc") /\ UNCHANGED <<list, overlapped>>
        BY <2>4 DEF RemoveThrows
      <3>3. change["rpc"].over \in Kinds => change["rpc"].entry \notin enabled
        BY <2>1, KindTypes DEF SharedInv, RequestsTypeOK
      <3>4. Ends("rpc")
        BY <3>1, <3>2, <3>3, <2>1, <2>2, ThreadTypes, ThrowKeeps
      <3> QED BY <3>1, <3>4, <2>4, RpcEnds
    <2> QED BY <2>3, <2>4, <1>8 DEF WalkRemoved
  <1> QED BY <1>3, <1>4, <1>5, <1>6, <1>7, <1>8 DEF Walking

\* A step of the RPC thread.
LEMMA RpcKeeps == RequestsInv /\ RpcStep => RequestsInv'
  <1> SUFFICES ASSUME RequestsInv, RpcStep
               PROVE  RequestsInv'
    OBVIOUS
  <1>1. UNCHANGED <<plan, loop>> /\ rpc.ip <= Len(plan.ops)
    BY DEF RpcStep
  <1>2. CASE setBreakpoint \/ setWatchpoint
    BY <1>1, <1>2, DeferrableKeeps DEF setBreakpoint, setWatchpoint
  <1>3. CASE setMethodEvent \/ catchException \/ MakesRest
    BY <1>1, <1>3, DirectKeeps
  <1>4. CASE Enters
    BY <1>1, <1>4, EntersKeeps
  <1>5. CASE Walking
    BY <1>1, <1>5, WalkKeeps
  <1>6. CASE Continue
    <2> USE DEF RequestsInv
    <2>1. UNCHANGED <<requests, enabled, list, iter, change, overlapped>> /\ Reply /\ rpc.at = "idle"
      BY <1>6 DEF Continue, Due, vmVars, listVars
    <2>2. RpcOK' /\ rpc'.at # "remove"
      BY <2>1, ReplyKeeps DEF RpcOK, Reply
    <2>3. ListsOK' /\ ItersOK'
      BY <2>1 DEF SharedInv, ListsOK, ItersOK
    <2> QED BY <2>1, <2>2, <2>3, <1>1, RpcQuiet
  <1> QED BY <1>2, <1>3, <1>4, <1>5, <1>6 DEF RpcStep

-----------------------------------------------------------------------------
(* The event loop *)

\* What the event loop does to its own changes leaves the RPC thread where it is,
\* and what that one is removing from a list that both do not change in its place.
LEMMA RpcStays ==
    ASSUME RequestsInv, UNCHANGED <<plan, rpc>>, change'["rpc"] = change["rpc"],
           iter'["rpc"].over = iter["rpc"].over, iter'["rpc"].at = iter["rpc"].at,
           enabled' \subseteq enabled \cup {Len(requests) + 1},
           \A k \in Kinds : change["rpc"].over = k /\ k \in OverlappedLists => k \in OverlappedLists',
           \A k \in Kinds : change["rpc"].over = k /\ k \notin OverlappedLists => list'[k] = list[k]
    PROVE  RpcOK' /\ RemovalOK'
  <1> USE DEF RequestsInv
  <1>1. RpcOK'
    BY DEF RpcOK, Op
  <1>2. ASSUME rpc.at = "remove", NEW k \in Kinds, change["rpc"].over = k, k \notin OverlappedLists'
        PROVE  iter["rpc"].at <= Len(list'[k]) /\ list'[k][iter["rpc"].at] \notin enabled'
    <2> DEFINE i == iter["rpc"].at
    <2>1. k \notin OverlappedLists /\ list'[k] = list[k]
      BY <1>2
    <2>2. i <= Len(list[k]) /\ list[k][i] \notin enabled /\ iter["rpc"].over = k
      BY <2>1, <1>2 DEF RemovalOK
    <2>3. i \in Nat \ {0}
      BY <2>2, ThreadTypes DEF SharedInv, ItersOK, Iterators, Kinds
    <2>4. list[k] \in Seq(Numbers) /\ i \in 1 .. Len(list[k])
      BY <2>2, <2>3, LenProperties DEF SharedInv, RequestsTypeOK, Numbers
    <2>5. list[k][i] \in Numbers /\ Len(requests) + 1 \notin Numbers
      BY <2>4, ElementOfSeq, KindTypes DEF SharedInv, Numbers
    <2> QED BY <2>1, <2>2, <2>5
  <1>3. RemovalOK'
    BY <1>2 DEF RemovalOK
  <1> QED BY <1>1, <1>3

\* A step of the event loop that leaves the lists of the VM's requests alone.
LEMMA LoopQuiet ==
    ASSUME RequestsInv, UNCHANGED <<plan, rpc, requests, change, overlapped>>, enabled' \subseteq enabled,
           ListsOK', ItersOK', LoopOK', \A k \in Kinds : list'[k] = list[k], iter'["rpc"] = iter["rpc"]
    PROVE  RequestsInv'
  <1> USE DEF RequestsInv
  <1>1. SharedInv' /\ OverlappedLists' = OverlappedLists
    BY QuietKeeps
  <1>2. RpcOK' /\ RemovalOK'
    BY <1>1, RpcStays
  <1> QED BY <1>1, <1>2

\* A change that the event loop makes of a list the RPC thread is changing too is
\* one of a list that is overlapped.
LEMMA LoopEnded ==
    ASSUME RequestsInv, UNCHANGED <<plan, rpc, requests, enabled>>, change["loop"].over \in Lists,
           Ends("loop"), LoopOK',
           iter'["rpc"].over = iter["rpc"].over, iter'["rpc"].at = iter["rpc"].at
    PROVE  RequestsInv'
  <1> USE DEF RequestsInv
  <1>1. SharedInv' /\ OverlappedLists' = OverlappedLists /\ change'["rpc"] = change["rpc"]
    BY ThreadTypes DEF Ends
  <1>2. ASSUME NEW k \in Kinds, change["rpc"].over = k, k \notin OverlappedLists
        PROVE  list'[k] = list[k]
    <2>1. change["loop"].over # k
      BY <1>2, ThreadTypes DEF SharedInv, Alone, Free
    <2> QED BY <2>1 DEF Ends, Kinds, Lists
  <1>3. RpcOK' /\ RemovalOK'
    BY <1>1, <1>2, RpcStays
  <1> QED BY <1>1, <1>3

\* The event loop is done with an event.
LEMMA HandledKeeps ==
    ASSUME SharedInv, LoopOK, NEW stops, Handled(stops), change'["loop"].over = "none"
    PROVE  ItersOK' /\ LoopOK' /\ iter'["rpc"] = iter["rpc"]
  <1>1. ItersOK' /\ iter'["rpc"] = iter["rpc"]
    BY NoIteratorType, ThreadTypes, IteratorSet DEF Handled
  <1>2. LoopOK'
    BY DEF Handled, LoopOK
  <1> QED BY <1>1, <1>2

LEMMA DoneKeeps ==
    ASSUME RequestsInv, UNCHANGED <<plan, rpc, requests>>, enabled' \subseteq enabled,
           NEW stops, Done(stops), change["loop"].over = "none"
    PROVE  RequestsInv'
  <1> USE DEF RequestsInv
  <1>1. UNCHANGED <<list, change, overlapped>> /\ Handled(stops)
    BY DEF Done
  <1>2. ItersOK' /\ LoopOK' /\ iter'["rpc"] = iter["rpc"]
    BY <1>1, HandledKeeps
  <1>3. ListsOK'
    BY <1>1 DEF SharedInv, ListsOK
  <1> QED BY <1>1, <1>2, <1>3, LoopQuiet

\* The event loop begins to go through a list.
LEMMA LoopWalksKeeps ==
    ASSUME RequestsInv, UNCHANGED <<plan, rpc, requests, enabled>>,
           NEW at, NEW l \in Lists, LoopWalks(at, l), change["loop"].over = "none",
           (at = "resolve" /\ l \in PendingLists) \/ at = "filter"
    PROVE  RequestsInv'
  <1> USE DEF RequestsInv
  <1>1. PICK it \in Iterators : it.at # 0 /\ it.over = l /\ iter' = [iter EXCEPT !["loop"] = it]
    <2> DEFINE it == [over |-> l, at |-> 1, stale |-> FALSE]
    <2>1. it \in Iterators /\ it.at # 0 /\ it.over = l
      BY DEF Iterators
    <2> QED BY <2>1 DEF LoopWalks
  <1>2. UNCHANGED <<list, change, overlapped>> /\ loop' = [loop EXCEPT !.at = at]
    BY DEF LoopWalks
  <1>3. ItersOK' /\ iter'["loop"] = it /\ iter'["rpc"] = iter["rpc"]
    BY <1>1, ThreadTypes, IteratorSet
  <1>4. LoopOK'
    BY <1>1, <1>2, <1>3 DEF LoopOK
  <1>5. ListsOK'
    BY <1>2 DEF SharedInv, ListsOK
  <1> QED BY <1>2, <1>3, <1>4, <1>5, LoopQuiet

\* The event loop goes on in a list.
LEMMA SkipKeeps ==
    ASSUME RequestsInv, UNCHANGED <<plan, rpc, vmVars, loop, list, change, overlapped>>,
           Next_("loop"), Skip("loop")
    PROVE  RequestsInv'
  <1> USE DEF RequestsInv
  <1>1. ItersOK' /\ iter'["loop"].over = iter["loop"].over /\ iter'["rpc"] = iter["rpc"]
    BY ThreadTypes DEF SharedInv, ItersOK, Iterators, Next_, Skip
  <1>2. LoopOK'
    BY <1>1 DEF LoopOK
  <1>3. ListsOK'
    BY DEF SharedInv, ListsOK
  <1> QED BY <1>1, <1>2, <1>3, LoopQuiet DEF vmVars

\* The handlers, which leave the lists alone.
LEMMA HandlersKeep ==
    ASSUME RequestsInv, UNCHANGED <<plan, rpc>>,
           HandleStop \/ HandlePrepare \/ HandleException \/ FilterStep
    PROVE  RequestsInv'
  <1>1. UNCHANGED <<requests, enabled>> /\ UNCHANGED vmVars
    BY DEF HandleStop, HandlePrepare, HandleException, FilterStep, vmVars
  <1>2. change["loop"].over = "none"
    BY DEF HandleStop, HandlePrepare, HandleException, FilterStep, RequestsInv, LoopOK
  <1>3. CASE HandleStop
    BY <1>1, <1>2, <1>3, DoneKeeps DEF HandleStop
  <1>4. CASE HandlePrepare
    <2>1. "pending break" \in Lists /\ "pending break" \in PendingLists
      BY DEF Lists, PendingLists
    <2> QED BY <2>1, <1>1, <1>2, <1>4, LoopWalksKeeps DEF HandlePrepare
  <1>5. CASE HandleException
    <2>1. "catch" \in Lists
      BY DEF Lists, Kinds
    <2> QED BY <2>1, <1>1, <1>2, <1>5, LoopWalksKeeps DEF HandleException
  <1>6. CASE FilterStep
    <2>1. CASE Done(TRUE) \/ Done(FALSE)
      BY <2>1, <1>1, <1>2, DoneKeeps
    <2>2. CASE Next_("loop") /\ Skip("loop") /\ UNCHANGED <<loop, list, change, overlapped>>
      BY <2>2, <1>1, SkipKeeps
    <2> QED BY <2>1, <2>2, <1>6 DEF FilterStep
  <1> QED BY <1>3, <1>4, <1>5, <1>6

\* The event loop makes a request and is about to enter it.
LEMMA LoopMakes ==
    ASSUME RequestsInv, UNCHANGED <<plan, rpc>>, change["loop"].over = "none",
           iter["loop"].over \in PendingLists,
           NEW parts \in Seq(Askable), parts # <<>>, Make("loop", parts),
           NEW by, loop' = [loop EXCEPT !.at = "enter", !.by = by]
    PROVE  RequestsInv'
  <1> USE DEF RequestsInv
  <1>1. /\ SharedInv' /\ list' = list /\ iter' = iter
        /\ change'["loop"].over # "none" /\ change'["rpc"] = change["rpc"]
        /\ enabled' \subseteq enabled \cup {Len(requests) + 1}
        /\ \A k \in Kinds : k \in OverlappedLists /\ (\E u \in Threads \ {"loop"} : Over(u) = k)
                             => k \in OverlappedLists'
    BY ThreadTypes, MakeKeeps
  <1>2. LoopOK'
    BY <1>1 DEF LoopOK
  <1>3. \A k \in Kinds : change["rpc"].over = k /\ k \in OverlappedLists => k \in OverlappedLists'
    BY <1>1, ThreadTypes DEF Over
  <1>4. RpcOK' /\ RemovalOK'
    BY <1>1, <1>3, RpcStays
  <1> QED BY <1>1, <1>2, <1>4

\* An entry that has been deferred is of something that can be asked.
LEMMA MetTypes ==
    ASSUME RequestsInv, Meets
    PROVE  Met \in Askable
  <1> USE DEF RequestsInv
  <1> DEFINE l == iter["loop"].over
             i == iter["loop"].at
  <1>1. l \in PendingLists /\ i <= Len(list[l])
    BY DEF Meets, Next_, LoopOK
  <1>2. i \in Nat \ {0} /\ list[l] \in Seq(Entries)
    BY <1>1, ThreadTypes DEF SharedInv, ItersOK, Iterators, ListsOK, PendingLists
  <1>3. i \in 1 .. Len(list[l])
    BY <1>1, <1>2, LenProperties
  <1>4. Item("loop") \in Entries
    BY <1>2, <1>3, ElementOfSeq DEF Item
  <1>5. Met \in Deferrables
    BY <1>4 DEF Met, Entries
  <1> QED BY <1>5 DEF Deferrables, Askable, Kinds

\* What the event loop made is entered, or the event is done with.
LEMMA ResolveEntersKeeps ==
    ASSUME RequestsInv, UNCHANGED <<plan, rpc>>, ResolveEnters
    PROVE  RequestsInv'
  <1> USE DEF RequestsInv
  <1>1. /\ change["loop"].over # "none" /\ iter["loop"].over \in PendingLists
        /\ UNCHANGED <<requests, enabled>>
    BY DEF ResolveEnters, LoopOK, vmVars
  <1>2. change["loop"].over \in Lists
    BY <1>1, ThreadTypes DEF SharedInv, ChangesOK
  <1>3. CASE EndAdd("loop") /\ loop' = [loop EXCEPT !.at = IF change["loop"].parts = <<>> THEN "drop" ELSE "make"]
    <2>1. /\ Ends("loop") /\ change'["loop"].parts = change["loop"].parts
          /\ \A u \in Threads : iter'[u].over = iter[u].over /\ iter'[u].at = iter[u].at
      BY <1>1, <1>2, <1>3, ThreadTypes, EndAddKeeps
    <2>2. LoopOK'
      BY <2>1, <1>1, <1>3, ThreadTypes DEF Ends, LoopOK
    <2> QED BY <2>1, <2>2, <1>1, <1>2, ThreadTypes, LoopEnded
  <1>4. CASE AddThrows("loop") /\ Handled(FALSE)
    <2>1. /\ change["loop"].size # Len(list[change["loop"].over]) /\ Abandoned("loop")
          /\ UNCHANGED <<list, overlapped>>
      BY <1>4 DEF AddThrows, Over
    <2>2. change'["loop"].over = "none"
      BY <2>1, ThreadTypes DEF Abandoned, NoChange, SharedInv, ChangesOK
    <2>3. ItersOK' /\ LoopOK' /\ iter'["rpc"] = iter["rpc"]
      BY <2>2, <1>4, HandledKeeps
    <2>4. Ends("loop")
      BY <2>1, <2>3, <1>1, <1>2, ThreadTypes, ThrowKeeps
    <2> QED BY <2>3, <2>4, <1>1, <1>2, LoopEnded
  <1> QED BY <1>3, <1>4 DEF ResolveEnters

\* The entry that was resolved is to go, with its ClassPrepareRequest.
LEMMA ResolveDropsKeeps ==
    ASSUME RequestsInv, UNCHANGED <<plan, rpc>>, ResolveDrops
    PROVE  RequestsInv'
  <1> USE DEF RequestsInv
  <1>1. /\ change["loop"].over = "none" /\ requests' = requests /\ enabled' \subseteq enabled
        /\ iter["loop"].over \in PendingLists
    BY DEF ResolveDrops, LoopOK
  <1>2. CASE BeginRemove("loop") /\ loop' = [loop EXCEPT !.at = "remove"]
    <2>1. PICK l \in Lists : l = iter["loop"].over /\ l \in PendingLists
      BY <1>1 DEF PendingLists, Lists
    <2>2. PICK x \in In(l) : x = NullIn(l)
      BY NullType
    <2>3. Begin("loop", l, x, <<>>)
      BY <2>1, <2>2, <1>2 DEF BeginRemove
    <2>4. /\ SharedInv' /\ list' = list /\ iter' = iter
          /\ change'["loop"].over = l /\ change'["rpc"] = change["rpc"]
          /\ OverlappedLists \subseteq OverlappedLists'
      BY <2>3, <1>1, ThreadTypes, QuietBegin
    <2>5. LoopOK'
      BY <2>1, <2>4, <1>2 DEF LoopOK, PendingLists
    <2>6. RpcOK' /\ RemovalOK'
      BY <2>4, <1>1, RpcStays
    <2> QED BY <2>4, <2>5, <2>6
  <1>3. CASE Done(FALSE)
    BY <1>1, <1>3, DoneKeeps
  <1> QED BY <1>2, <1>3 DEF ResolveDrops

\* The entry has gone, or another in its place.
LEMMA ResolveDroppedKeeps ==
    ASSUME RequestsInv, UNCHANGED <<plan, rpc>>, ResolveDropped
    PROVE  RequestsInv'
  <1> USE DEF RequestsInv
  <1>1. /\ change["loop"].over \in PendingLists /\ iter["loop"].over \in PendingLists
        /\ UNCHANGED <<requests, enabled>>
    BY DEF ResolveDropped, LoopOK, vmVars
  <1>2. /\ change["loop"].over \in Lists /\ change["loop"].over \notin Kinds
        /\ iter["loop"].over # "none"
    BY <1>1 DEF PendingLists, Lists, Kinds
  <1>3. CASE EndRemove("loop") /\ loop' = [loop EXCEPT !.at = "resolve", !.by = 0]
    <2>1. /\ Ends("loop")
          /\ \A u \in Threads : iter'[u].over = iter[u].over /\ iter'[u].at = iter[u].at
      BY <1>1, <1>2, <1>3, ThreadTypes, EndRemoveKeeps
    <2>2. LoopOK'
      BY <2>1, <1>1, <1>3, ThreadTypes DEF Ends, LoopOK
    <2> QED BY <2>1, <2>2, <1>1, <1>2, ThreadTypes, LoopEnded
  <1>4. CASE RemoveThrows("loop") /\ Handled(FALSE)
    <2>1. Abandoned("loop") /\ UNCHANGED <<list, overlapped>>
      BY <1>4 DEF RemoveThrows
    <2>2. change'["loop"].over = "none"
      BY <2>1, ThreadTypes DEF Abandoned, NoChange, SharedInv, ChangesOK
    <2>3. ItersOK' /\ LoopOK' /\ iter'["rpc"] = iter["rpc"]
      BY <2>2, <1>4, HandledKeeps
    <2>4. Ends("loop")
      BY <2>1, <2>3, <1>1, <1>2, ThreadTypes, ThrowKeeps
    <2> QED BY <2>3, <2>4, <1>1, <1>2, LoopEnded
  <1> QED BY <1>3, <1>4 DEF ResolveDropped

\* resolvePending: what it makes is entered, and what it removes is deferred.
LEMMA ResolveKeeps ==
    ASSUME RequestsInv, UNCHANGED <<plan, rpc>>, resolvePending
    PROVE  RequestsInv'
  <1>1. CASE ResolveEnds \/ ResolveFails \/ ResolveThrows
    <2>1. /\ UNCHANGED <<requests, enabled>> /\ change["loop"].over = "none"
      BY <1>1 DEF ResolveEnds, ResolveFails, ResolveThrows, Meets, vmVars, RequestsInv, LoopOK
    <2>2. CASE Done(FALSE)
      BY <2>1, <2>2, DoneKeeps
    <2>3. CASE LoopWalks("resolve", "pending watch")
      <3>1. "pending watch" \in Lists /\ "pending watch" \in PendingLists
        BY DEF Lists, PendingLists
      <3> QED BY <3>1, <2>1, <2>3, LoopWalksKeeps
    <2> QED BY <2>2, <2>3, <1>1 DEF ResolveEnds, ResolveFails, ResolveThrows
  <1>2. CASE ResolvePasses
    BY <1>2, SkipKeeps DEF ResolvePasses, Meets
  <1>3. CASE ResolveMakes \/ ResolveMakesRest
    <2>1. /\ change["loop"].over = "none" /\ iter["loop"].over \in PendingLists
      BY <1>3 DEF ResolveMakes, ResolveMakesRest, Meets, RequestsInv, LoopOK
    <2>2. PICK parts \in Seq(Askable) : parts # <<>> /\ Make("loop", parts)
      <3>1. CASE ResolveMakes
        <4>1. Make("loop", Parts(Met)) /\ Met \in Askable
          BY <3>1, MetTypes DEF ResolveMakes
        <4> QED BY <4>1, PartsTypes
      <3>2. CASE ResolveMakesRest
        BY <3>2, ThreadTypes DEF ResolveMakesRest, RequestsInv, LoopOK, SharedInv, ChangesOK
      <3> QED BY <3>1, <3>2, <1>3
    <2>3. PICK by : loop' = [loop EXCEPT !.at = "enter", !.by = by]
      <3>1. CASE ResolveMakes
        BY <3>1 DEF ResolveMakes
      <3>2. CASE ResolveMakesRest
        BY <3>2 DEF ResolveMakesRest, RequestsInv, LoopOK
      <3> QED BY <3>1, <3>2, <1>3
    <2> QED BY <2>1, <2>2, <2>3, LoopMakes
  <1>4. CASE ResolveEnters
    BY <1>4, ResolveEntersKeeps
  <1>5. CASE ResolveDrops
    BY <1>5, ResolveDropsKeeps
  <1>6. CASE ResolveDropped
    BY <1>6, ResolveDroppedKeeps
  <1> QED BY <1>1, <1>2, <1>3, <1>4, <1>5, <1>6 DEF resolvePending

\* A step of the target, which gives the event loop something to handle.
LEMMA TargetKeeps == RequestsInv /\ Held /\ TargetStep => RequestsInv'
  <1> SUFFICES ASSUME RequestsInv, Held, TargetStep
               PROVE  RequestsInv'
    OBVIOUS
  <1> USE DEF RequestsInv
  <1>1. UNCHANGED <<plan, rpc, requests, enabled, list, iter, change, overlapped>>
    BY DEF TargetStep, vmVars, listVars
  <1>2. LoopOK'
    <2>1. change["loop"].over = "none"
      BY DEF TargetStep, Held, LoopOK
    <2>2. \/ UNCHANGED loop
          \/ \E events : loop' = [loop EXCEPT !.at = "handle", !.events = events, !.resume = TRUE]
      BY DEF TargetStep
    <2> QED BY <2>1, <2>2, <1>1 DEF LoopOK
  <1>3. ListsOK' /\ ItersOK'
    BY <1>1 DEF SharedInv, ListsOK, ItersOK
  <1> QED BY <1>1, <1>2, <1>3, LoopQuiet

\* A step of the event loop.
LEMMA LoopKeeps == RequestsInv /\ LoopStep => RequestsInv'
  <1> SUFFICES ASSUME RequestsInv, LoopStep
               PROVE  RequestsInv'
    OBVIOUS
  <1>1. CASE LoopEnds
    <2> USE DEF RequestsInv
    <2>1. UNCHANGED <<plan, rpc, requests, enabled, list, iter, change, overlapped>>
      BY <1>1 DEF LoopEnds, vmVars, listVars
    <2>2. LoopOK'
      BY <2>1, <1>1 DEF LoopEnds, LoopOK
    <2>3. ListsOK' /\ ItersOK'
      BY <2>1 DEF SharedInv, ListsOK, ItersOK
    <2> QED BY <2>1, <2>2, <2>3, LoopQuiet
  <1>2. CASE /\ HandleStop \/ HandlePrepare \/ HandleException \/ FilterStep \/ resolvePending
             /\ UNCHANGED <<plan, targetVars, rpc, asked, astray>>
    <2>1. UNCHANGED <<plan, rpc>>
      BY <1>2
    <2> QED BY <2>1, <1>2, HandlersKeep, ResolveKeeps
  <1> QED BY <1>1, <1>2 DEF LoopStep

-----------------------------------------------------------------------------
(* The theorems *)

\* Nothing is asked for at the start.
LEMMA RequestsInvInit == Init => RequestsInv /\ Held
  <1> SUFFICES ASSUME Init
               PROVE  RequestsInv /\ Held
    OBVIOUS
  <1> USE DEF Init
  <1>1. RequestsTypeOK /\ NoHiddenRequest
    BY EmptySeq DEF RequestsTypeOK, NoHiddenRequest, Lists
  <1>2. ListsOK
    BY EmptySeq DEF ListsOK, PendingLists, Lists
  <1>3. ItersOK
    BY DEF ItersOK, Iterators, Threads, NoIterator
  <1>4. ChangesOK /\ \A t \in Threads : change[t].over = "none"
    BY EmptySeq DEF ChangesOK, NoChange
  <1>5. Alone
    BY <1>4 DEF Alone, Kinds
  <1>6. RpcOK /\ RemovalOK
    BY <1>4, ThreadTypes DEF RpcOK, RemovalOK
  <1>7. LoopOK /\ Held
    BY <1>4, ThreadTypes DEF LoopOK, Held
  <1> QED BY <1>1, <1>2, <1>3, <1>4, <1>5, <1>6, <1>7 DEF RequestsInv, SharedInv

\* The event loop has something to do from the event to the resume.
LEMMA HeldStep == Held /\ [Next]_vars => Held'
  <1> SUFFICES ASSUME Held, [Next]_vars
               PROVE  Held'
    OBVIOUS
  <1>1. CASE RpcStep
    BY <1>1 DEF RpcStep, Continue, targetVars, Held
  <1>2. CASE TargetStep
    <2>1. vm' = "held" \/ UNCHANGED <<vm, loop>>
      BY <1>2 DEF TargetStep
    <2> QED BY <2>1 DEF Held
  <1>3. CASE LoopStep
    <2>1. CASE LoopEnds
      BY <2>1 DEF LoopEnds, Held
    <2>2. CASE /\ HandleStop \/ HandlePrepare \/ HandleException \/ FilterStep \/ resolvePending
               /\ UNCHANGED <<plan, targetVars, rpc, asked, astray>>
      <3>1. loop.at # "idle"
        BY <2>2 DEF HandleStop, HandlePrepare, HandleException, FilterStep, resolvePending,
                    ResolveEnds, ResolveFails, ResolvePasses, ResolveThrows, ResolveMakes, Meets,
                    ResolveEnters, ResolveMakesRest, ResolveDrops, ResolveDropped
      <3> QED BY <3>1, <2>2 DEF Held, targetVars
    <2> QED BY <2>1, <2>2, <1>3 DEF LoopStep
  <1>4. CASE UNCHANGED vars
    BY <1>4 DEF vars, targetVars, Held
  <1> QED BY <1>1, <1>2, <1>3, <1>4 DEF Next

\* Every step, and every step that changes nothing, keeps the invariant.
LEMMA RequestsInvStep == RequestsInv /\ Held /\ [Next]_vars => RequestsInv'
  <1>1. ASSUME RequestsInv, UNCHANGED vars
        PROVE  RequestsInv'
    <2> USE DEF RequestsInv
    <2>1. UNCHANGED <<plan, rpc, requests, enabled, list, iter, change, overlapped, loop>>
      BY <1>1 DEF vars, vmVars, listVars
    <2>2. ListsOK' /\ ItersOK' /\ LoopOK'
      BY <2>1, <1>1 DEF SharedInv, ListsOK, ItersOK, LoopOK
    <2> QED BY <2>1, <2>2, <1>1, LoopQuiet
  <1> QED BY <1>1, RpcKeeps, TargetKeeps, LoopKeeps DEF Next

\* The invariant holds throughout.
THEOREM RequestsInvariant == Spec => []RequestsInv
  BY RequestsInvInit, HeldStep, RequestsInvStep, PTL DEF Spec

\* Requests and lists have their types: what a list of the session holds is a
\* request that exists.
THEOREM RequestsTypeCorrect == Spec => []RequestsTypeOK
  <1>1. RequestsInv => RequestsTypeOK
    BY DEF RequestsInv, SharedInv
  <1> QED BY <1>1, RequestsInvariant, PTL

\* Nothing is enabled behind the user's back, whatever is asked and however the
\* RPC thread and the event loop go through the lists at the same time: what is
\* enabled is entered, and what leaves a list has been disabled, unless the two
\* were in the middle of a change of that list at once.
THEOREM NoHiddenRequestHolds == Spec => []NoHiddenRequest
  <1>1. RequestsInv => NoHiddenRequest
    BY DEF RequestsInv, SharedInv
  <1> QED BY <1>1, RequestsInvariant, PTL
=============================================================================
