--------------------------- MODULE SidecarRequests ---------------------------
(***************************************************************************)
(* What the sidecar's DebugSession asks the target VM to report: line      *)
(* breakpoints, watchpoints, method events and exceptions, set and cleared *)
(* by the RPC thread.  A breakpoint or a watchpoint in a class that is not *)
(* loaded is deferred: it waits in a list with a ClassPrepareRequest until *)
(* the event loop resolves it.  Both threads walk and change the lists,    *)
(* plain ArrayLists, with no lock between them: an add or a remove is two  *)
(* steps, and the one that writes last may undo what the other did.        *)
(*                                                                         *)
(* A class is the sequence of the parts of its name, a site a line, field  *)
(* or method of it.  What is asked for is [kind, class, site, mode], with  *)
(*   kind   "break", "watch", "method", "catch"; "prepare" for the VM only *)
(*   mode   of a watch "modification", "access" or "all", of a method      *)
(*          "entry", "exit" or "both", of a catch "caught", "uncaught" or  *)
(*          "all"                                                          *)
(* The target (external) has one thread; conditions, stops and steps are   *)
(* in SidecarStops.  A plan, chosen at the start, says what is asked, what *)
(* the target does, and whether requests wait until the target stands.     *)
(***************************************************************************)
EXTENDS Naturals, Sequences, SequencesExt

CONSTANTS
    Names,      \* parts of the names of classes
    Sites,      \* lines, fields and methods
    Plans

Kinds == {"break", "watch", "method", "catch"}
Modes == {"", "modification", "access", "all", "entry", "exit", "both", "caught", "uncaught"}
Whats == [kind : Kinds \cup {"prepare"}, class : Seq(Names),
          site : Sites \cup {"", "type", "any"}, mode : Modes]
OpNames == {"set", "method", "catch", "clear", "unwatch", "ignore", "list", "continue"}

ASSUME PlanAssumption ==
    \A p \in Plans :
        /\ p.ops \in Seq([op : OpNames, what : Whats])
        /\ \A i \in DOMAIN p.ops : p.ops[i].op \in {"set", "method", "catch"} => p.ops[i].what.kind \in Kinds

VARIABLES
    plan,
    vm,         \* "stopped" until it is resumed, "running", or "held" until an event is handled
    loaded,     \* the classes that are loaded
    ran,        \* how many steps of its program the target has begun
    requests,   \* the EventRequests, in the order in which they were made
    enabled,    \* those the VM heeds
    prepared,   \* the ClassPrepareRequest of the entry each request deferred, 0 before it has one
    list,       \* the lists of DebugSession
    iter,       \* the iterator each thread has on a list
    change,     \* the add or remove each thread is in the middle of
    rpc,        \* what the RPC thread is at
    loop,       \* what the event loop is at
    overlapped, \* history: the requests that were there when both threads changed their list
    asked,      \* history: what has been asked for and not been cleared
    astray      \* history: the target has stopped unasked or run past what was asked

targetVars == <<vm, loaded, ran>>
vmVars == <<requests, enabled, prepared>>
listVars == <<list, iter, change, overlapped>>
vars == <<plan, targetVars, vmVars, listVars, rpc, loop, asked, astray>>

Threads == {"rpc", "loop"}

Pending == [break |-> "pending break", watch |-> "pending watch"]
Lists == Kinds \cup {"pending break", "pending watch"}
IsPending(l) == l \in {"pending break", "pending watch"}

What(kind, class, site, mode) == [kind |-> kind, class |-> class, site |-> site, mode |-> mode]
\* A pending entry is what it is for and the request that made it; another entry
\* is an EventRequest. What two adds at once leave between them is null.
NoEntry == [what |-> What("break", <<>>, "", ""), by |-> 0]
NullIn(l) == IF IsPending(l) THEN NoEntry ELSE 0
EntryOf(l, x) == IF IsPending(l) THEN x.what ELSE requests[x]
HasCode(w) == <<w.class, w.site>> \in plan.code

\* The requests one of mode "all" or "both" stands for.
Parts(w) ==
    LET modes == CASE w.kind = "watch" /\ w.mode = "all"   -> <<"modification", "access">>
                   [] w.kind = "method" /\ w.mode = "both" -> <<"entry", "exit">>
                   [] OTHER                                -> <<w.mode>>
    IN  [i \in DOMAIN modes |-> [w EXCEPT !.mode = modes[i]]]

\* How `clear` names it: lines with a colon, fields and methods with a dot.
Name(w) == <<IF w.kind = "break" THEN ":" ELSE ".", w.class, w.site>>

NoIterator == [over |-> "none", at |-> 0, stale |-> FALSE]
NoChange == [over |-> "none", size |-> 0, entry |-> 0, parts |-> <<>>]

Init ==
    /\ plan \in Plans
    /\ vm = plan.start /\ loaded = {} /\ ran = 0
    /\ requests = <<>> /\ enabled = {} /\ prepared = [i \in DOMAIN plan.ops |-> 0]
    /\ list = [l \in Lists |-> <<>>]
    /\ iter = [t \in Threads |-> NoIterator]
    /\ change = [t \in Threads |-> NoChange]
    /\ rpc = [at |-> "idle", ip |-> 1, nth |-> 0]
    /\ loop = [at |-> "idle", events |-> <<>>, resume |-> TRUE, by |-> 0]
    /\ overlapped = {} /\ asked = {} /\ astray = FALSE

-----------------------------------------------------------------------------
(* The lists *)

\* A change of a list by one thread makes an iterator of the other stale.
Touched(t, l) ==
    [u \in DOMAIN iter |->
        IF u # t /\ iter[u].over = l THEN [iter[u] EXCEPT !.stale = TRUE] ELSE iter[u]]

Over(t) == change[t].over

\* A change reads the size of the list, and ends by writing the entries and the
\* size. Where another thread has changed the list in between, it goes by the size
\* it read or by the one it finds now, whatever lies at a place nobody has written.
\* (Half of a move of the entries, and a size below zero, are left out.)
Begin(t, l, x, parts) ==
    /\ change' = [change EXCEPT ![t] = [over |-> l, size |-> Len(list[l]), entry |-> x, parts |-> parts]]
    /\ overlapped' = IF l \in Kinds /\ \E u \in Threads \ {t} : Over(u) = l
                     THEN overlapped \cup {x} \cup {n \in DOMAIN requests : requests[n].kind = l}
                     ELSE overlapped
    /\ UNCHANGED <<list, iter>>
SizesSeen(t) == {change[t].size, Len(list[Over(t)])}
Sized(l, n) == [i \in 1 .. n |-> IF i <= Len(list[l]) THEN list[l][i] ELSE NullIn(l)]
Ended(t) == change' = [change EXCEPT ![t] = [NoChange EXCEPT !.parts = change[t].parts]]
Abandoned(t) == change' = [change EXCEPT ![t] = NoChange]

EndAdd(t) ==
    /\ \E n \in SizesSeen(t) :
          list' = [list EXCEPT ![Over(t)] = Append(Sized(Over(t), n), change[t].entry)]
    /\ iter' = Touched(t, Over(t))
    /\ Ended(t)
    /\ UNCHANGED overlapped
\* ArrayIndexOutOfBoundsException: the array is the old one and the size is not.
AddThrows(t) ==
    /\ change[t].size # Len(list[Over(t)])
    /\ Abandoned(t)
    /\ UNCHANGED <<list, overlapped>>

\* A request is made and enabled, and is to be entered in the list of its kind:
\* createBreakpoint, createWatchpoints. (An event before it is finds an entry a
\* moment later; no handler but that of exceptions looks for one.)
Make(t, parts) ==
    /\ requests' = Append(requests, Head(parts))
    /\ enabled' = enabled \cup {Len(requests')}
    /\ Begin(t, Head(parts).kind, Len(requests'), Tail(parts))
    /\ UNCHANGED prepared

\* next() of a stale iterator throws, or does not see the change; at the end of
\* a list that has become shorter it throws for certain.
AtEnd(t) == iter[t].at = Len(list[iter[t].over]) + 1
MayThrow(t) == iter[t].stale \/ iter[t].at > Len(list[iter[t].over]) + 1
Next_(t) == iter[t].over # "none" /\ iter[t].at <= Len(list[iter[t].over])
Item(t) == list[iter[t].over][iter[t].at]
Skip(t) == iter' = [iter EXCEPT ![t].at = @ + 1]

IsNull(t) == Next_(t) /\ Item(t) = NullIn(iter[t].over)

\* remove() of the iterator, which goes on behind the entry. Where the list has
\* become too short it throws, or takes the last entry.
BeginRemove(t) == Begin(t, iter[t].over, NullIn(iter[t].over), <<>>)
EndRemove(t) ==
    LET l == Over(t)
        i == iter[t].at
    IN  /\ \E n \in SizesSeen(t) \ {0} :
              list' = [list EXCEPT ![l] = RemoveAt(Sized(l, n), IF i <= n THEN i ELSE n)]
        /\ iter' = [Touched(t, l) EXCEPT ![t].stale = FALSE]
        /\ Ended(t)
        /\ UNCHANGED overlapped
RemoveThrows(t) ==
    /\ iter[t].at > Len(list[Over(t)])
    /\ iter' = [iter EXCEPT ![t] = NoIterator]
    /\ Abandoned(t)
    /\ UNCHANGED <<list, overlapped>>

-----------------------------------------------------------------------------
(* The RPC thread *)

Op == plan.ops[rpc.ip]
Due(op) == /\ rpc.at = "idle" /\ rpc.ip <= Len(plan.ops) /\ Op.op = op
           /\ plan.calm => vm = "stopped"
Goes(at) == rpc' = [rpc EXCEPT !.at = at]
Reply == rpc' = [at |-> "idle", ip |-> rpc.ip + 1, nth |-> 0]
Accepted == asked' = asked \cup ToSet(Parts(Op.what))

Makes(w) == Make("rpc", Parts(w)) /\ Goes("enter") /\ UNCHANGED asked
MakesRest == rpc.at = "make" /\ Make("rpc", change["rpc"].parts) /\ Goes("enter") /\ UNCHANGED asked
Enters ==
    /\ rpc.at = "enter"
    /\ \/ /\ EndAdd("rpc")
          /\ IF change["rpc"].parts = <<>> THEN Accepted /\ Reply ELSE Goes("make") /\ UNCHANGED asked
       \/ AddThrows("rpc") /\ Reply /\ UNCHANGED <<iter, asked>>
    /\ UNCHANGED vmVars

SetNow(w) == w.class \in loaded /\ HasCode(w) /\ Makes(w)
SetRefused(w) ==
    /\ w.class \in loaded /\ ~HasCode(w)
    /\ Reply
    /\ UNCHANGED <<vmVars, listVars, asked>>

\* The entry is in the list before its ClassPrepareRequest is made, and has the
\* request after that is enabled.
SetDeferred(w) ==
    /\ w.class \notin loaded
    /\ Begin("rpc", Pending[w.kind], [what |-> w, by |-> rpc.ip], <<>>)
    /\ Goes("add")
    /\ UNCHANGED <<vmVars, asked>>
AddPending ==
    /\ rpc.at = "add"
    /\ \/ EndAdd("rpc") /\ Goes("prepare")
       \/ AddThrows("rpc") /\ Reply /\ UNCHANGED iter
    /\ UNCHANGED <<vmVars, asked>>
EnablePrepare(w) ==
    /\ rpc.at = "prepare"
    /\ requests' = Append(requests, What("prepare", w.class, "", ""))
    /\ enabled' = enabled \cup {Len(requests')}
    /\ rpc' = [rpc EXCEPT !.at = "assign", !.nth = Len(requests')]
    /\ UNCHANGED <<prepared, listVars, asked>>
AssignPrepare ==
    /\ rpc.at = "assign"
    /\ prepared' = [prepared EXCEPT ![rpc.ip] = rpc.nth]
    /\ Accepted /\ Reply
    /\ UNCHANGED <<requests, enabled, listVars>>

Deferrable(w) ==
    \/ Due("set") /\ (SetNow(w) \/ SetRefused(w) \/ SetDeferred(w))
    \/ AddPending \/ EnablePrepare(w) \/ AssignPrepare
setBreakpoint == Op.what.kind = "break" /\ Deferrable(Op.what)
setWatchpoint == Op.what.kind = "watch" /\ Deferrable(Op.what)

\* Method events filter by a class that need not be loaded.
setMethodEvent == Due("method") /\ Makes(Op.what)

\* A type that is not loaded makes a request for exceptions of any type.
catchException ==
    /\ Due("catch")
    /\ Makes([Op.what EXCEPT !.site = IF Op.what.class \in loaded THEN "type" ELSE "any"])

\* What a request to clear is about. An exception is cleared by its name, and
\* only `ignore` looks at its mode.
SameName(w) == w.class = Op.what.class
SameField(w) == w.kind = "watch" /\ SameName(w) /\ w.site = Op.what.site
OfMode(w) == Op.what.mode \in {w.mode, "all"}
Clears(w) ==
    CASE Op.op = "clear"   -> IF w.kind = "catch" THEN Op.what.kind = "catch" /\ SameName(w)
                              ELSE Op.what.kind # "catch" /\ Name(w) = Name(Op.what)
      [] Op.op = "unwatch" -> SameField(w) /\ OfMode(w)
      [] Op.op = "ignore"  -> w.kind = "catch" /\ SameName(w) /\ OfMode(w)
      [] Op.op = "list"    -> FALSE

\* Mutant: the mode that was taken is the one that stays.
taken_mode(w) == [w EXCEPT !.mode = Op.what.mode]

\* A pending watch for both keeps the mode that is not taken from it.
Narrows(w) == Op.op = "unwatch" /\ SameField(w) /\ w.mode = "all" /\ ~OfMode(w)
removeMode(w) ==
    [w EXCEPT !.mode = IF Op.what.mode = "modification" THEN "access" ELSE "modification"]

WalkOrder ==
    CASE Op.op \in {"clear", "list"} -> <<"pending break", "break", "method", "pending watch",
                                          "watch", "catch">>
      [] Op.op = "unwatch"           -> <<"pending watch", "watch">>
      [] Op.op = "ignore"            -> <<"catch">>
WalkList(n) ==
    /\ rpc' = [rpc EXCEPT !.at = "walk", !.nth = n]
    /\ iter' = [iter EXCEPT !["rpc"] = [over |-> WalkOrder[n], at |-> 1, stale |-> FALSE]]
    /\ UNCHANGED <<enabled, list, change, overlapped, asked>>
WalkStops ==
    /\ iter' = [iter EXCEPT !["rpc"] = NoIterator]
    /\ Reply
    /\ UNCHANGED <<list, change, overlapped>>

Walk ==
    /\ \E op \in {"clear", "list", "unwatch", "ignore"} : Due(op)
    /\ WalkList(1)
WalkOn ==
    /\ AtEnd("rpc") /\ rpc.nth < Len(WalkOrder)
    /\ WalkList(rpc.nth + 1)
WalkDone ==
    /\ AtEnd("rpc") /\ rpc.nth = Len(WalkOrder)
    /\ asked' = {a \in asked : ~Clears(a)}
    /\ WalkStops
    /\ UNCHANGED enabled
\* ConcurrentModificationException, or NullPointerException: the request fails
\* half way.
WalkFails ==
    /\ MayThrow("rpc") \/ IsNull("rpc")
    /\ WalkStops
    /\ UNCHANGED <<enabled, asked>>
WalkPast ==
    LET l == iter["rpc"].over
        w == EntryOf(l, Item("rpc"))
    IN  /\ Next_("rpc") /\ ~IsNull("rpc") /\ ~Clears(w)
        /\ list' = IF Narrows(w) /\ IsPending(l)
                   THEN [list EXCEPT ![l][iter["rpc"].at].what = removeMode(w)]
                   ELSE list
        /\ Skip("rpc")
        /\ UNCHANGED <<enabled, change, overlapped, asked, rpc>>
\* Mutant: the entry goes and the request stays.
keep_request(l, x) == IF IsPending(l) THEN prepared[x.by] ELSE 0
deleteEventRequest(l, x) == IF IsPending(l) THEN prepared[x.by] ELSE x
WalkRemoves ==
    LET l == iter["rpc"].over
    IN  /\ Next_("rpc") /\ ~IsNull("rpc") /\ Clears(EntryOf(l, Item("rpc")))
        /\ enabled' = enabled \ {deleteEventRequest(l, Item("rpc"))}
        /\ \/ BeginRemove("rpc") /\ Goes("remove")
           \/ iter["rpc"].stale /\ WalkStops
        /\ UNCHANGED asked
WalkRemoved ==
    /\ rpc.at = "remove"
    /\ \/ EndRemove("rpc") /\ Goes("walk")
       \/ RemoveThrows("rpc") /\ Reply
    /\ UNCHANGED <<enabled, asked>>
Walking ==
    /\ \/ Walk
       \/ rpc.at = "walk" /\ (WalkOn \/ WalkDone \/ WalkFails \/ WalkPast \/ WalkRemoves)
       \/ WalkRemoved
    /\ UNCHANGED <<requests, prepared>>

\* The target is resumed; what is waited for is another matter.
Continue ==
    /\ Due("continue")
    /\ vm' = IF vm = "stopped" THEN "running" ELSE vm
    /\ Reply
    /\ UNCHANGED <<loaded, ran, vmVars, listVars, asked>>

RpcStep ==
    /\ rpc.ip <= Len(plan.ops)
    /\ \/ /\ \/ setBreakpoint \/ setWatchpoint \/ setMethodEvent \/ catchException
             \/ MakesRest \/ Enters \/ Walking
          /\ UNCHANGED targetVars
       \/ Continue
    /\ UNCHANGED <<plan, loop, astray>>

-----------------------------------------------------------------------------
(* The target and the event loop *)

\* What the VM does at a request: it knows classes, lines, fields and types of
\* exceptions, but no names of methods.
Triggers(r, o) ==
    /\ r.kind = o.kind
    /\ CASE o.kind = "prepare"           -> r.class = o.class
         [] o.kind \in {"break", "watch"} -> r = o
         [] o.kind = "method"            -> r.class = o.class /\ r.mode = o.mode
         [] o.kind = "catch"             -> /\ r.site = "any" \/ r.class = o.class
                                            /\ r.mode \in {o.mode, "all"}

\* What the user means by what was asked.
Heeds(a, o) ==
    IF o.kind = "catch" THEN a.kind = "catch" /\ IsSuffix(a.class, o.class) /\ a.mode \in {o.mode, "all"}
    ELSE a = o

\* A deferred entry behind one that has no code in the same class: resolving
\* that one throws before this one is reached.
Deferred == list["pending break"] \o list["pending watch"]
Blocked(a) ==
    \E i, j \in DOMAIN Deferred :
        /\ i < j /\ ~HasCode(Deferred[i].what)
        /\ Deferred[i].what.class = a.class
        /\ a \in ToSet(Parts(Deferred[j].what))

Judge(o, stops) ==
    LET meant == {a \in asked : Heeds(a, o)}
    IN  astray' = (astray \/ IF stops THEN meant = {} ELSE \E a \in meant : ~Blocked(a))

TargetStep ==
    /\ vm = "running" /\ ran < Len(plan.run)
    /\ ran' = ran + 1
    /\ LET o == plan.run[ran + 1]
           hit == SelectSeq([n \in DOMAIN requests |-> n],
                            LAMBDA n : n \in enabled /\ Triggers(requests[n], o))
       IN  /\ loaded' = IF o.kind = "prepare" THEN loaded \cup {o.class} ELSE loaded
           /\ IF hit = <<>>
              THEN Judge(o, FALSE) /\ UNCHANGED <<vm, loop>>
              ELSE /\ vm' = "held"
                   /\ loop' = [loop EXCEPT !.at = "handle", !.events = hit, !.resume = TRUE]
                   /\ UNCHANGED astray
    /\ UNCHANGED <<plan, vmVars, listVars, rpc, asked>>

Here == plan.run[ran]
Event == Head(loop.events)
LoopWalks(at, l) ==
    /\ loop' = [loop EXCEPT !.at = at]
    /\ iter' = [iter EXCEPT !["loop"] = [over |-> l, at |-> 1, stale |-> FALSE]]
    /\ UNCHANGED <<list, change, overlapped>>
\* The event is done with, by an exception or not; every event of a set is
\* handled, and one that stops the target is enough.
Handled(stops) ==
    /\ loop' = [loop EXCEPT !.at = "handle", !.events = Tail(@), !.resume = @ /\ ~stops, !.by = 0]
    /\ iter' = [iter EXCEPT !["loop"] = NoIterator]
Done(stops) == Handled(stops) /\ UNCHANGED <<list, change, overlapped>>

\* The handlers of the event loop.
HandleStop ==
    /\ loop.at = "handle" /\ loop.events # <<>> /\ requests[Event].kind \in {"break", "watch", "method"}
    /\ Done(requests[Event].kind = "method" => requests[Event].site = Here.site)
    /\ UNCHANGED vmVars
HandlePrepare ==
    /\ loop.at = "handle" /\ loop.events # <<>> /\ requests[Event].kind = "prepare"
    /\ LoopWalks("resolve", "pending break")
    /\ UNCHANGED vmVars
HandleException ==
    /\ loop.at = "handle" /\ loop.events # <<>> /\ requests[Event].kind = "catch"
    /\ LoopWalks("filter", "catch")
    /\ UNCHANGED vmVars

\* A request for exceptions of any type is for those of the name it was made with.
FilterStep ==
    /\ loop.at = "filter"
    /\ \/ AtEnd("loop") /\ Done(TRUE)
       \/ (MayThrow("loop") \/ IsNull("loop")) /\ Done(FALSE)
       \/ /\ Next_("loop") /\ ~IsNull("loop")
          /\ IF Item("loop") = Event /\ ~IsSuffix(requests[Event].class, Here.class)
             THEN Done(FALSE)
             ELSE Skip("loop") /\ UNCHANGED <<loop, list, change, overlapped>>
    /\ UNCHANGED vmVars

ResolveEnds ==
    /\ loop.at = "resolve" /\ AtEnd("loop")
    /\ IF iter["loop"].over = "pending break" THEN LoopWalks("resolve", "pending watch") ELSE Done(FALSE)
    /\ UNCHANGED vmVars
ResolveFails ==
    /\ loop.at = "resolve" /\ (MayThrow("loop") \/ IsNull("loop"))
    /\ Done(FALSE)
    /\ UNCHANGED vmVars
Meets == loop.at = "resolve" /\ Next_("loop") /\ ~IsNull("loop")
Met == Item("loop").what
ResolvePasses ==
    /\ Meets /\ Met.class # Here.class
    /\ Skip("loop")
    /\ UNCHANGED <<vmVars, list, change, overlapped, loop>>
\* Mutant: what an entry without code throws is not caught, and ends the thread.
uncaught ==
    /\ Meets /\ Met.class = Here.class /\ ~HasCode(Met)
    /\ loop' = [loop EXCEPT !.at = "ended"]
    /\ UNCHANGED <<vmVars, listVars>>
\* An entry that has no code in the class throws, and stays.
ResolveThrows ==
    /\ Meets /\ Met.class = Here.class /\ ~HasCode(Met)
    /\ Done(FALSE)
    /\ UNCHANGED vmVars
ResolveMakes ==
    /\ Meets /\ Met.class = Here.class /\ HasCode(Met)
    /\ Make("loop", Parts(Met))
    /\ loop' = [loop EXCEPT !.at = "enter", !.by = Item("loop").by]
ResolveEnters ==
    /\ loop.at = "enter"
    /\ \/ EndAdd("loop") /\ loop' = [loop EXCEPT !.at = IF change["loop"].parts = <<>> THEN "drop" ELSE "make"]
       \/ AddThrows("loop") /\ Handled(FALSE)
    /\ UNCHANGED vmVars
ResolveMakesRest ==
    /\ loop.at = "make"
    /\ Make("loop", change["loop"].parts)
    /\ loop' = [loop EXCEPT !.at = "enter"]
\* remove() takes what is at its place by now.
ResolveDrops ==
    /\ loop.at = "drop"
    /\ enabled' = enabled \ {prepared[loop.by]}
    /\ \/ Next_("loop") /\ BeginRemove("loop") /\ loop' = [loop EXCEPT !.at = "remove"]
       \/ MayThrow("loop") /\ Done(FALSE)
    /\ UNCHANGED <<requests, prepared>>
ResolveDropped ==
    /\ loop.at = "remove"
    /\ \/ EndRemove("loop") /\ loop' = [loop EXCEPT !.at = "resolve", !.by = 0]
       \/ RemoveThrows("loop") /\ Handled(FALSE)
    /\ UNCHANGED vmVars
resolvePending ==
    \/ ResolveEnds \/ ResolveFails \/ ResolvePasses \/ ResolveThrows \/ ResolveMakes
    \/ ResolveEnters \/ ResolveMakesRest \/ ResolveDrops \/ ResolveDropped

LoopEnds ==
    /\ loop.at = "handle" /\ loop.events = <<>>
    /\ vm' = IF loop.resume THEN "running" ELSE "stopped"
    /\ loop' = [loop EXCEPT !.at = "idle"]
    /\ IF Here.kind = "prepare" THEN UNCHANGED astray ELSE Judge(Here, ~loop.resume)
    /\ UNCHANGED <<plan, loaded, ran, vmVars, listVars, rpc, asked>>

LoopStep ==
    \/ /\ HandleStop \/ HandlePrepare \/ HandleException \/ FilterStep \/ resolvePending
       /\ UNCHANGED <<plan, targetVars, rpc, asked, astray>>
    \/ LoopEnds

Next == RpcStep \/ TargetStep \/ LoopStep

\* The event loop is a thread that takes a step when it can.
Spec == Init /\ [][Next]_vars /\ WF_vars(LoopStep)

-----------------------------------------------------------------------------

AtRest == rpc.at = "idle" /\ loop.at = "idle"

\* Types of what the two threads share.
RequestsTypeOK ==
    /\ requests \in Seq(Whats)
    /\ enabled \subseteq DOMAIN requests
    /\ \A k \in Kinds : list[k] \in Seq({0} \cup DOMAIN requests)

\* "Deferred breakpoints bind on run or cont": where requests wait until the
\* target stands, the target stops wherever it was asked to, from the first time
\* it gets there, and nowhere else, but for an entry that was set after one that
\* has no code in the same class. What is listed is enabled, and each
\* ClassPrepareRequest is that of an entry.
StopsAsAsked ==
    plan.calm =>
        /\ ~astray
        /\ AtRest =>
             /\ \A k \in Kinds : ToSet(list[k]) \subseteq enabled
             /\ {n \in enabled : requests[n].kind = "prepare"} =
                   {prepared[Deferred[i].by] : i \in DOMAIN Deferred}

\* Nothing is enabled behind the user's back: wherever the two threads walk and
\* change the lists, each request the VM heeds is in a list, so that it can be seen
\* and cleared, or a thread is about to enter it - but for those made before both
\* were in the middle of a change of that list, where one may undo the other's: of
\* two breakpoints that are entered at once the code may lose one.
Listed(n) ==
    LET k == requests[n].kind
    IN  \/ n \in ToSet(list[k])
        \/ \E t \in Threads : change[t].over = k /\ change[t].entry = n
NoHiddenRequest ==
    \A n \in enabled \ overlapped : requests[n].kind # "prepare" => Listed(n)

\* "Breakpoints set before the class loads are deferred and bind on run or cont":
\* once the class is loaded and its event handled, no breakpoint that has code
\* in it is left pending.
DeferredBinds ==
    plan.calm /\ loop.at = "idle" =>
        \A i \in DOMAIN Deferred :
            Deferred[i].what.class \in loaded => ~HasCode(Deferred[i].what)

\* The target is not held for good, whatever goes wrong with an entry.
EventsHandled == vm = "held" ~> vm # "held"
=============================================================================
