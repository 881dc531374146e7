----------------------------- MODULE SidecarStops -----------------------------
(***************************************************************************)
(* DebugSession (JdiService.java): how the Java sidecar turns suspended    *)
(* event sets of the target VM into stops, and which sets it resumes.      *)
(*                                                                         *)
(* Three actors share its state: the target VM (through the JDI library,   *)
(* external), the event-loop thread, and the RPC thread, which serves one  *)
(* request of the daemon at a time.  A critical section of the session's   *)
(* monitor is one action, but for the two loops that resume one event set  *)
(* after another: target threads run between their iterations.             *)
(***************************************************************************)
EXTENDS StopTypes, FiniteSets

CONSTANTS
    Threads,        \* the debuggee's threads
    NoThread,       \* Java's null, where a thread is optional
    Policies,       \* the suspend policies breakpoints use: "thread", "all"
    LaunchMode,     \* TRUE for launch (VMStartEvent first), FALSE for attach
    TargetMayExit   \* whether the target VM may exit or be killed

ASSUME SidecarAssumption ==
    /\ NoThread \notin Threads
    /\ Policies \subseteq {"thread", "all"}
    /\ LaunchMode \in BOOLEAN
    /\ TargetMayExit \in BOOLEAN

VARIABLES
    \* the target VM, seen through JDI
    suspends,       \* suspends[t]: the suspend count of thread t
    vmUp,           \* the target VM is connected
    vmEvents,       \* EventQueue: event sets the event loop has not read
    stepReq,        \* the thread an enabled StepRequest waits for
    \* DebugSession
    raised,         \* history: raised[id] is the hit behind stop id (stopSeq)
    dropped,        \* history: the stops the sidecar took back unreported
    stops,          \* DebugSession.stops
    current,        \* currentStopSet, by the stop it belongs to
    currentThread,  \* currentThreadId
    stepThread,     \* activeStepThreadId
    loop,           \* the event-loop thread
    rpc,            \* the RPC thread
    \* the connection, one FIFO per direction
    toSidecar,
    toDaemon,
    alive           \* the sidecar process runs

targetVars  == <<suspends, vmUp, vmEvents, stepReq>>
queueVars   == <<raised, dropped, stops, current, currentThread, stepThread>>
sidecarVars == <<targetVars, queueVars, loop, rpc, toSidecar, toDaemon, alive>>

Hits     == [thread : Threads, policy : {"thread", "all"}]
VmEvents == [kind : {"hit", "step"}, thread : Threads, policy : {"thread", "all"}]
              \cup [kind : {"vmStart", "vmDeath"}]
Methods  == {"continue", "step", "ackStop", "suspend", "resume", "terminate"}
Requests == [id : Nat, method : Methods, stop : StopIds \cup {NoEvent}]
Results  == [kind : {"stop", "timedOut", "ok", "error"},
             stop : StopIds \cup {VmExit, NoEvent}, ids : Seq(StopIds)]
Messages == [type : {"event"}, event : SidecarEvents]
              \cup [type : {"response"}, id : Nat, result : Results]

\* Record constructors.
Stopped(s)     == [kind |-> "stop", stop |-> s, ids |-> <<>>]
TimedOut       == [kind |-> "timedOut", stop |-> NoEvent, ids |-> <<>>]
Ok(discarded)  == [kind |-> "ok", stop |-> NoEvent, ids |-> discarded]
RpcError       == [kind |-> "error", stop |-> NoEvent, ids |-> <<>>]

LoopIdle == [pc |-> "idle", stop |-> NoEvent]
RpcIdle  == [pc |-> "idle", id |-> 0, method |-> "continue", stop |-> NoEvent,
             result |-> RpcError]

-----------------------------------------------------------------------------
\* Suspend counts (external: JDI and the target's JDWP agent).

Minus(n, k) == IF n < k THEN 0 ELSE n - k

\* Whether resuming (or raising) a stop's event set concerns thread t.
Holds(s, t) ==
    \/ s = VmStart
    \/ s \in StopIds /\ (raised[s].policy = "all" \/ raised[s].thread = t)

\* EventSet.resume(); vmDisconnected and no stop at all have no set.
CountsAfterResume(s) ==
    [t \in Threads |-> IF Holds(s, t) THEN Minus(suspends[t], 1) ELSE suspends[t]]

CountsAfterHit(t, policy) ==
    [u \in Threads |-> IF policy = "all" \/ u = t THEN suspends[u] + 1 ELSE suspends[u]]

ThreadOf(s) == IF s \in StopIds THEN raised[s].thread ELSE NoThread

\* Mutant: currentStopSet is cleared before it is read.
ResumeNothing(s) ==
    /\ current' = IF current = s THEN NoEvent ELSE current
    /\ suspends' = IF current = s THEN suspends ELSE CountsAfterResume(s)

\* resumeStopSetLocked: the set is no longer current, and resumes.
ResumeStopSet(s) ==
    /\ current' = IF current = s THEN NoEvent ELSE current
    /\ suspends' = CountsAfterResume(s)

\* selectStop
SelectStop(s) ==
    /\ current' = IF s = VmExit THEN NoEvent ELSE s
    /\ currentThread' = IF s \in StopIds THEN ThreadOf(s) ELSE currentThread

\* History: the stops among `out` are taken back unreported.
Drops(out) == dropped' = dropped \cup (out \cap StopIds)

\* The session's monitor is free unless one of the RPC thread's two loops,
\* which resume one set after the other, is inside.
MonitorFree == rpc.pc \notin {"discard", "discardOthers"}

\* acceptsStopFrom, acceptsStopRecord
AcceptsThread(t) == stepThread \in {NoThread, t}
AcceptsStop(s)   == stepThread = NoThread \/ stepThread = ThreadOf(s)

-----------------------------------------------------------------------------
SidecarInit ==
    /\ \E atStart \in (IF LaunchMode THEN {TRUE} ELSE BOOLEAN) :
         /\ suspends = [t \in Threads |-> IF atStart THEN 1 ELSE 0]
         /\ vmEvents = IF atStart THEN <<[kind |-> "vmStart"]>> ELSE <<>>
    /\ vmUp = TRUE
    /\ stepReq = NoThread
    /\ raised = <<>>
    /\ dropped = {}
    /\ stops = <<>>
    /\ current = NoEvent
    /\ currentThread = NoThread
    /\ stepThread = NoThread
    /\ loop = LoopIdle
    /\ rpc = RpcIdle
    /\ toSidecar = <<>>
    /\ toDaemon = <<>>
    /\ alive = TRUE

-----------------------------------------------------------------------------
\* The target VM (external).

\* A running thread reaches a breakpoint, watchpoint, method or exception
\* request: its event set suspends it, or every thread.
TargetHits(t, policy) ==
    /\ vmUp /\ alive
    /\ suspends[t] = 0
    /\ Len(raised) + Len(vmEvents) < MaxStops
    /\ suspends' = CountsAfterHit(t, policy)
    /\ vmEvents' = Append(vmEvents, [kind |-> "hit", thread |-> t, policy |-> policy])
    /\ UNCHANGED <<vmUp, stepReq, queueVars, loop, rpc, toSidecar, toDaemon, alive>>

\* The thread being stepped completes its step (count filter 1: once).
TargetSteps(t) ==
    /\ vmUp /\ alive
    /\ stepReq = t
    /\ suspends[t] = 0
    /\ Len(raised) + Len(vmEvents) < MaxStops
    /\ stepReq' = NoThread
    /\ suspends' = CountsAfterHit(t, "thread")
    /\ vmEvents' = Append(vmEvents, [kind |-> "step", thread |-> t, policy |-> "thread"])
    /\ UNCHANGED <<vmUp, queueVars, loop, rpc, toSidecar, toDaemon, alive>>

\* The target exits, or is killed from outside.
TargetExits ==
    /\ TargetMayExit
    /\ vmUp /\ alive
    /\ vmUp' = FALSE
    /\ vmEvents' = Append(vmEvents, [kind |-> "vmDeath"])
    /\ UNCHANGED <<suspends, stepReq, queueVars, loop, rpc, toSidecar, toDaemon, alive>>

-----------------------------------------------------------------------------
\* The event loop.

LoopReads(kinds) ==
    /\ alive
    /\ loop.pc = "idle"
    /\ vmEvents # <<>>
    /\ Head(vmEvents).kind \in kinds
    /\ vmEvents' = Tail(vmEvents)

\* acceptsStopFrom holds (and so does the condition, when the request has
\* one): stopPayload draws the next stopId and the set stays suspended.
LoopAccepts ==
    /\ LoopReads({"hit", "step"})
    /\ MonitorFree
    /\ LET ev == Head(vmEvents)
       IN /\ AcceptsThread(ev.thread)
          /\ Len(raised) < MaxStops
          /\ raised' = Append(raised, [thread |-> ev.thread, policy |-> ev.policy])
    /\ loop' = [pc |-> "queue", stop |-> Len(raised) + 1]
    /\ UNCHANGED <<suspends, vmUp, stepReq, dropped, stops, current, currentThread,
                   stepThread, rpc, toSidecar, toDaemon, alive>>

\* Another thread is being stepped, or the condition is false: the set
\* resumes silently.
LoopRejects ==
    /\ LoopReads({"hit", "step"})
    /\ MonitorFree
    /\ LET ev == Head(vmEvents)
       IN /\ ~ AcceptsThread(ev.thread) \/ ev.kind = "hit"
          /\ suspends' = [t \in Threads |->
                            IF ev.policy = "all" \/ ev.thread = t
                            THEN Minus(suspends[t], 1) ELSE suspends[t]]
    /\ UNCHANGED <<vmUp, stepReq, queueVars, loop, rpc, toSidecar, toDaemon, alive>>

\* The target is gone: the handler's JDI calls throw and the set is left
\* alone, or eventSet.resume(), outside the try block, ends the thread.
LoopFails ==
    /\ LoopReads({"hit", "step"})
    /\ MonitorFree
    /\ ~ vmUp
    /\ loop' \in {LoopIdle, [pc |-> "ended", stop |-> NoEvent]}
    /\ UNCHANGED <<suspends, vmUp, stepReq, queueVars, rpc, toSidecar, toDaemon, alive>>

\* queueStop
LoopQueuesStop ==
    /\ alive
    /\ loop.pc = "queue"
    /\ MonitorFree
    /\ stops' = Append(stops, loop.stop)
    /\ IF current = NoEvent
       THEN SelectStop(loop.stop)
       ELSE UNCHANGED <<current, currentThread>>
    /\ loop' = [loop EXCEPT !.pc = "send"]
    /\ UNCHANGED <<targetVars, raised, dropped, stepThread, rpc, toSidecar, toDaemon, alive>>

\* handleVmStart
LoopVmStart ==
    /\ LoopReads({"vmStart"})
    /\ MonitorFree
    /\ current' = VmStart
    /\ stops' = Append(stops, VmStart)
    /\ loop' = [pc |-> "send", stop |-> VmStart]
    /\ UNCHANGED <<suspends, vmUp, stepReq, raised, dropped, currentThread, stepThread,
                   rpc, toSidecar, toDaemon, alive>>

\* queueVmDisconnected; its record carries neither thread nor event set.
LoopVmDeath ==
    /\ LoopReads({"vmDeath"})
    /\ MonitorFree
    /\ stops' = Append(stops, VmExit)
    /\ loop' = [pc |-> "send", stop |-> VmExit]
    /\ UNCHANGED <<suspends, vmUp, stepReq, raised, dropped, current, currentThread, stepThread,
                   rpc, toSidecar, toDaemon, alive>>

\* sendEvent; after vmDisconnected the loop is over.
LoopSends ==
    /\ alive
    /\ loop.pc = "send"
    /\ toDaemon' = Append(toDaemon, [type |-> "event", event |-> loop.stop])
    /\ loop' = IF loop.stop = VmExit THEN [pc |-> "ended", stop |-> NoEvent] ELSE LoopIdle
    /\ UNCHANGED <<targetVars, queueVars, rpc, toSidecar, alive>>

LoopNext ==
    \/ LoopAccepts
    \/ LoopRejects
    \/ LoopFails
    \/ LoopQueuesStop
    \/ LoopVmStart
    \/ LoopVmDeath
    \/ LoopSends

-----------------------------------------------------------------------------
\* The RPC thread.

FirstStep(method) ==
    CASE method = "continue" -> "poll"
      [] method = "step"     -> "step"
      [] OTHER               -> method

\* serve() reads the next request once it has answered the previous one.
RpcReads ==
    /\ alive
    /\ rpc.pc = "idle"
    /\ toSidecar # <<>>
    /\ LET req == Head(toSidecar)
       IN rpc' = [RpcIdle EXCEPT !.pc = FirstStep(req.method), !.id = req.id,
                                 !.method = req.method, !.stop = req.stop]
    /\ toSidecar' = Tail(toSidecar)
    /\ UNCHANGED <<targetVars, queueVars, loop, toDaemon, alive>>

RpcAt(pc) == alive /\ rpc.pc = pc

\* Mutant: the finally block of step is skipped on a timeout.
AnswerAtOnce(result) ==
    rpc' = [rpc EXCEPT !.pc = IF rpc.method = "step" /\ result.kind = "stop"
                              THEN "finally" ELSE "reply",
                       !.result = result]

\* The answer is ready; a step first runs its `finally` block.
Answer(result) ==
    rpc' = [rpc EXCEPT !.pc = IF rpc.method = "step" THEN "finally" ELSE "reply",
                       !.result = result]

\* continueFor, its first line: pollQueuedStopOrResume.
PollQueuedStopOrResume ==
    /\ RpcAt("poll")
    /\ IF stops = <<>>
       THEN /\ ResumeStopSet(current)
            /\ rpc' = [rpc EXCEPT !.pc = "wait"]
            /\ UNCHANGED stops
       ELSE /\ rpc' = [rpc EXCEPT !.pc = "examine", !.stop = Head(stops)]
            /\ stops' = Tail(stops)
            /\ UNCHANGED <<current, suspends>>
    /\ UNCHANGED <<vmUp, vmEvents, stepReq, raised, dropped, currentThread, stepThread,
                   loop, toSidecar, toDaemon, alive>>

\* continueFor, in its loop: stops.poll(remaining).
PollStop ==
    /\ RpcAt("wait")
    /\ stops # <<>>
    /\ rpc' = [rpc EXCEPT !.pc = "examine", !.stop = Head(stops)]
    /\ stops' = Tail(stops)
    /\ UNCHANGED <<targetVars, raised, dropped, current, currentThread, stepThread,
                   loop, toSidecar, toDaemon, alive>>

\* Deadline and grace period have passed.  The queue need not be empty: with
\* no grace period left, or none granted, it is not polled again.
TimesOut ==
    /\ RpcAt("wait")
    /\ Answer(TimedOut)
    /\ UNCHANGED <<targetVars, queueVars, loop, toSidecar, toDaemon, alive>>

\* continueFor, on a polled record: vmStart and the stops of threads other
\* than the stepped one are resumed, any other stop is the answer.
ExamineStop ==
    /\ RpcAt("examine")
    /\ IF rpc.stop = VmStart \/ ~ AcceptsStop(rpc.stop)
       THEN /\ IF rpc.stop = VmExit
               THEN UNCHANGED <<current, suspends>>
               ELSE ResumeStopSet(rpc.stop)
            /\ Drops({rpc.stop})
            /\ rpc' = [rpc EXCEPT !.pc = "wait", !.stop = NoEvent]
            /\ UNCHANGED currentThread
       ELSE /\ SelectStop(rpc.stop)
            /\ Answer(Stopped(rpc.stop))
            /\ UNCHANGED <<suspends, dropped>>
    /\ UNCHANGED <<vmUp, vmEvents, stepReq, raised, stops, stepThread,
                   loop, toSidecar, toDaemon, alive>>

\* currentThread(): the selected thread, else some suspended one with
\* frames (before the VM has started no thread has any).
StepCandidates ==
    IF currentThread # NoThread THEN {currentThread}
    ELSE IF current = VmStart THEN {}
    ELSE {t \in Threads : suspends[t] > 0}

\* step: the request is created and enabled.
StepBegins(t) ==
    /\ RpcAt("step")
    /\ vmUp
    /\ t \in StepCandidates
    /\ currentThread' = t
    /\ stepThread' = t
    /\ stepReq' = t
    /\ rpc' = [rpc EXCEPT !.pc = "discardOthers"]
    /\ UNCHANGED <<suspends, vmUp, vmEvents, raised, dropped, stops, current,
                   loop, toSidecar, toDaemon, alive>>

\* The first queued stop of another thread than the stepped one.
FirstOther(i) ==
    /\ i \in DOMAIN stops
    /\ ThreadOf(stops[i]) # stepThread
    /\ \A j \in 1 .. (i - 1) : ThreadOf(stops[j]) = stepThread

\* discardQueuedStopsForOtherThreads: one iteration, in the monitor.
StepDiscardsOther ==
    /\ RpcAt("discardOthers")
    /\ \E i \in DOMAIN stops :
         /\ FirstOther(i)
         /\ stops' = RemoveAt(stops, i)
         /\ ResumeStopSet(stops[i])
         /\ Drops({stops[i]})
    /\ UNCHANGED <<vmUp, vmEvents, stepReq, raised, currentThread, stepThread,
                   loop, rpc, toSidecar, toDaemon, alive>>

\* Its end; continueFor is next.
StepDiscardedOthers ==
    /\ RpcAt("discardOthers")
    /\ \A s \in ToSet(stops) : ThreadOf(s) = stepThread
    /\ rpc' = [rpc EXCEPT !.pc = "poll"]
    /\ UNCHANGED <<targetVars, queueVars, loop, toSidecar, toDaemon, alive>>

\* No thread to step, or JDI refuses a step request for a running thread.
StepFails ==
    /\ RpcAt("step")
    /\ vmUp
    /\ StepCandidates = {} \/ \E t \in StepCandidates : suspends[t] = 0
    /\ rpc' = [rpc EXCEPT !.pc = "reply", !.result = RpcError]
    /\ UNCHANGED <<targetVars, queueVars, loop, toSidecar, toDaemon, alive>>

\* step, its finally block: the step is over and its request deleted.
StepFinally ==
    /\ RpcAt("finally")
    /\ stepThread' = NoThread
    /\ stepReq' = NoThread
    /\ rpc' = [rpc EXCEPT !.pc = "reply"]
    /\ UNCHANGED <<suspends, vmUp, vmEvents, raised, dropped, stops, current, currentThread,
                   loop, toSidecar, toDaemon, alive>>

\* Mutant: the acknowledged stop is removed but not selected.
AckWithoutSelect ==
    /\ RpcAt("ackStop")
    /\ stops' = RemoveFirst(stops, rpc.stop)
    /\ Answer(Ok(<<>>))
    /\ UNCHANGED <<targetVars, raised, dropped, current, currentThread, stepThread,
                   loop, toSidecar, toDaemon, alive>>

\* Mutant: the current set resumes even if it is the acknowledged one.
AckResumesCurrent ==
    /\ RpcAt("ackStop")
    /\ IF rpc.stop \in ToSet(stops)
       THEN /\ stops' = RemoveFirst(stops, rpc.stop)
            /\ suspends' = CountsAfterResume(current)
            /\ SelectStop(rpc.stop)
       ELSE UNCHANGED <<stops, suspends, current, currentThread>>
    /\ Answer(Ok(<<>>))
    /\ UNCHANGED <<vmUp, vmEvents, stepReq, raised, dropped, stepThread, loop, toSidecar, toDaemon, alive>>

\* ackStop: the daemon has told a stop from its own queue.
AckStop ==
    /\ RpcAt("ackStop")
    /\ IF rpc.stop \in ToSet(stops)
       THEN /\ stops' = RemoveFirst(stops, rpc.stop)
            /\ suspends' = IF current \in {NoEvent, rpc.stop}
                           THEN suspends ELSE CountsAfterResume(current)
            /\ SelectStop(rpc.stop)
       ELSE UNCHANGED <<stops, suspends, current, currentThread>>
    /\ Answer(Ok(<<>>))
    /\ UNCHANGED <<vmUp, vmEvents, stepReq, raised, dropped, stepThread, loop, toSidecar, toDaemon, alive>>

\* suspend without a thread id: vm.suspend().
SuspendAll ==
    /\ RpcAt("suspend")
    /\ suspends' = [t \in Threads |-> suspends[t] + 1]
    /\ Answer(Ok(<<>>))
    /\ UNCHANGED <<vmUp, vmEvents, stepReq, queueVars, loop, toSidecar, toDaemon, alive>>

\* discardStopsAndResumeAll, in the monitor: the current set resumes ...
DiscardCurrent ==
    /\ RpcAt("resume")
    /\ ResumeStopSet(current)
    /\ rpc' = [rpc EXCEPT !.pc = "discard", !.stop = current, !.result = Ok(<<>>)]
    /\ UNCHANGED <<vmUp, vmEvents, stepReq, raised, dropped, stops, currentThread, stepThread,
                   loop, toSidecar, toDaemon, alive>>

\* Mutant: a record without a stopId is not told apart.
DiscardsAnyId ==
    /\ RpcAt("discard")
    /\ stops # <<>>
    /\ LET s == Head(stops)
       IN /\ IF s = rpc.stop THEN UNCHANGED <<current, suspends>> ELSE ResumeStopSet(s)
          /\ Drops({s})
          /\ rpc' = [rpc EXCEPT !.result = Ok(Append(rpc.result.ids, s))]
    /\ stops' = Tail(stops)
    /\ UNCHANGED <<vmUp, vmEvents, stepReq, raised, currentThread, stepThread,
                   loop, toSidecar, toDaemon, alive>>

\* ... then every queued one, unless it is the set resumed already ...
DiscardNext ==
    /\ RpcAt("discard")
    /\ stops # <<>>
    /\ LET s == Head(stops)
       IN /\ IF s = rpc.stop THEN UNCHANGED <<current, suspends>> ELSE ResumeStopSet(s)
          /\ Drops({s})
          /\ rpc' = IF s \in StopIds
                    THEN [rpc EXCEPT !.result = Ok(Append(rpc.result.ids, s))]
                    ELSE rpc
    /\ stops' = Tail(stops)
    /\ UNCHANGED <<vmUp, vmEvents, stepReq, raised, currentThread, stepThread,
                   loop, toSidecar, toDaemon, alive>>

\* ... and vm.resume() releases every thread once more.
VmResume ==
    /\ RpcAt("discard")
    /\ stops = <<>>
    /\ suspends' = [t \in Threads |-> Minus(suspends[t], 1)]
    /\ rpc' = [rpc EXCEPT !.pc = "reply"]
    /\ UNCHANGED <<vmUp, vmEvents, stepReq, queueVars, loop, toSidecar, toDaemon, alive>>

\* terminate or detach; the event loop may or may not see the disconnection.
Terminate ==
    /\ RpcAt("terminate")
    /\ ResumeStopSet(current)
    /\ vmUp' = FALSE
    /\ \/ vmUp /\ vmEvents' = Append(vmEvents, [kind |-> "vmDeath"])
       \/ UNCHANGED vmEvents
    /\ Answer(Ok(<<>>))
    /\ UNCHANGED <<stepReq, raised, dropped, stops, currentThread, stepThread,
                   loop, toSidecar, toDaemon, alive>>

\* A JDI call of the handler throws because the target is gone, after what
\* the handler had changed by then.
GoneWhilePolling ==
    /\ rpc.pc = "poll"
    /\ stops = <<>>
    /\ current # NoEvent
    /\ current' = NoEvent
    /\ UNCHANGED <<stops, stepThread, dropped>>

\* Without a finally block around discardQueuedStopsForOtherThreads, a
\* throw inside it leaves activeStepThreadId set.
GoneWhileStepping ==
    \/ rpc.pc = "step" /\ UNCHANGED <<stops, stepThread, current, dropped>>
    \/ /\ rpc.pc = "discardOthers"
       /\ \E i \in DOMAIN stops :
            /\ FirstOther(i)
            /\ stops[i] # VmExit
            /\ stops' = RemoveAt(stops, i)
            /\ Drops({stops[i]})
            /\ current' = IF current = stops[i] THEN NoEvent ELSE current
       /\ UNCHANGED stepThread

GoneWhileAcking ==
    /\ rpc.pc = "ackStop"
    /\ rpc.stop \in ToSet(stops)
    /\ current \notin {NoEvent, rpc.stop}
    /\ current' = NoEvent
    /\ stops' = RemoveFirst(stops, rpc.stop)
    /\ UNCHANGED <<stepThread, dropped>>

GoneWhileResuming ==
    /\ \/ rpc.pc = "suspend" /\ UNCHANGED <<stops, current, dropped>>
       \/ rpc.pc = "resume" /\ current # NoEvent /\ current' = NoEvent /\ UNCHANGED <<stops, dropped>>
       \/ rpc.pc = "discard" /\ stops = <<>> /\ UNCHANGED <<stops, current, dropped>>
       \/ /\ rpc.pc = "discard"
          /\ stops # <<>>
          /\ Head(stops) \notin {VmExit, rpc.stop}
          /\ stops' = Tail(stops)
          /\ Drops({Head(stops)})
          /\ UNCHANGED current
    /\ UNCHANGED stepThread

TargetGone ==
    /\ alive
    /\ ~ vmUp
    /\ \/ GoneWhilePolling
       \/ GoneWhileStepping
       \/ GoneWhileAcking
       \/ GoneWhileResuming
    /\ rpc' = [rpc EXCEPT !.pc = IF rpc.method = "step" /\ rpc.pc \notin {"step", "discardOthers"}
                                 THEN "finally" ELSE "reply",
                          !.result = RpcError]
    /\ UNCHANGED <<targetVars, raised, currentThread, loop, toSidecar, toDaemon, alive>>

\* respond() writes the response frame.
RpcReplies ==
    /\ RpcAt("reply")
    /\ toDaemon' = Append(toDaemon, [type |-> "response", id |-> rpc.id, result |-> rpc.result])
    /\ rpc' = RpcIdle
    /\ UNCHANGED <<targetVars, queueVars, loop, toSidecar, alive>>

RpcNext ==
    \/ RpcReads
    \/ PollQueuedStopOrResume
    \/ PollStop
    \/ TimesOut
    \/ ExamineStop
    \/ \E t \in Threads : StepBegins(t)
    \/ StepDiscardsOther
    \/ StepDiscardedOthers
    \/ StepFails
    \/ StepFinally
    \/ AckStop
    \/ SuspendAll
    \/ DiscardCurrent
    \/ DiscardNext
    \/ VmResume
    \/ Terminate
    \/ TargetGone
    \/ RpcReplies

TargetHitsRequest == \E t \in Threads, policy \in Policies : TargetHits(t, policy)

TargetNext ==
    \/ TargetHitsRequest
    \/ \E t \in Threads : TargetSteps(t)
    \/ TargetExits

-----------------------------------------------------------------------------
LoopStates == [pc : {"idle", "queue", "send", "ended"}, stop : SidecarEvents \cup {NoEvent}]
RpcStates  == [pc : {"idle", "poll", "wait", "examine", "discardOthers", "finally",
                     "discard", "reply"} \cup Methods,
               id : Nat, method : Methods, stop : SidecarEvents \cup {NoEvent},
               result : Results]

SidecarTypeOK ==
    /\ suspends \in [Threads -> Nat]
    /\ vmUp \in BOOLEAN
    /\ vmEvents \in Seq(VmEvents)
    /\ stepReq \in Threads \cup {NoThread}
    /\ raised \in Seq(Hits)
    /\ dropped \subseteq StopIds
    /\ stops \in Seq(SidecarEvents)
    /\ current \in StopIds \cup {VmStart, NoEvent}
    /\ currentThread \in Threads \cup {NoThread}
    /\ stepThread \in Threads \cup {NoThread}
    /\ loop \in LoopStates
    /\ rpc \in RpcStates
    /\ toSidecar \in Seq(Requests)
    /\ toDaemon \in Seq(Messages)
    /\ alive \in BOOLEAN
=============================================================================
