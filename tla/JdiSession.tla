------------------------------ MODULE JdiSession ------------------------------
(***************************************************************************)
(* A JDI debug session end to end: the daemon's JdiSession with its        *)
(* SidecarTransport (jdi/session.rs, jdi/transport.rs), the Java sidecar   *)
(* (SidecarStops) and the two FIFO byte streams between them.              *)
(*                                                                         *)
(* Daemon threads: the command thread (command_lock admits one command at  *)
(* a time), the transport's reader thread, which queues every event and    *)
(* then hands it to the event sink, and the pollers, other clients whose   *)
(* list, attach, status or persist_sessions calls state().  They meet in   *)
(* the mutex `inner`; a loop that holds it over several steps owns `mutex`. *)
(***************************************************************************)
EXTENDS StopInbox, SidecarStops

CONSTANTS
    Commands,       \* the commands clients issue
    MaxRequests,    \* bound: requests sent to the sidecar in a behaviour
    RequestTimeouts,\* whether recv_timeout may give up on a live sidecar
    SidecarMayCrash \* whether the sidecar process may die by itself

ASSUME JdiSessionAssumption ==
    /\ Commands \subseteq {"run", "continue", "step", "suspend", "resume", "kill"}
    /\ MaxRequests \in Nat
    /\ RequestTimeouts \in BOOLEAN
    /\ SidecarMayCrash \in BOOLEAN

VARIABLES
    events,     \* EventQueue.events: events the reader thread has queued
    sunk,       \* the event the reader thread has queued but not yet sunk
    sinkOn,     \* register_event_sink has run
    eof,        \* the reader thread has ended
    mutex,      \* owner of `inner` between two steps
    batch,      \* batch[w]: events thread w drained and has yet to apply
    sawAlive,   \* sawAlive[w]: what is_alive() told thread w at the drain
    pollPc,     \* the poller
    cmd,        \* the command thread
    requestId,  \* SidecarTransport.ids
    told        \* history: the stops reported to the user, in order

transportVars == <<events, sunk, sinkOn, eof>>
pollVars      == <<pollPc, batch, sawAlive>>
sessionVars   == <<transportVars, mutex, pollVars, cmd, requestId, told>>
jdiVars       == <<inboxVars, sidecarVars, sessionVars>>

Free    == "free"
Workers == {"command", "poller"}
NoReply == [kind |-> "none", stop |-> NoEvent, ids |-> <<>>]
CmdIdle == [pc |-> "idle", name |-> "continue", id |-> 0, reply |-> NoReply,
            stop |-> NoEvent, ids |-> <<>>]

MayLock(w) == mutex \in {Free, w}
Untouched  == UNCHANGED inboxVars

JdiInit ==
    /\ InboxInit
    /\ state = IF LaunchMode THEN "Loaded" ELSE "Running"
    /\ SidecarInit
    /\ events = <<>>
    /\ sunk = NoEvent
    /\ sinkOn = FALSE
    /\ eof = FALSE
    /\ mutex = Free
    /\ batch = [w \in Workers |-> <<>>]
    /\ sawAlive = [w \in Workers |-> TRUE]
    /\ pollPc = "idle"
    /\ cmd = CmdIdle
    /\ requestId = 0
    /\ told = <<>>

-----------------------------------------------------------------------------
\* The reader thread (dispatch_incoming).

\* An event is queued first and sunk afterwards.
ReaderQueuesEvent ==
    /\ ~ eof
    /\ sunk = NoEvent
    /\ toDaemon # <<>>
    /\ Head(toDaemon).type = "event"
    /\ events' = Append(events, Head(toDaemon).event)
    /\ sunk' = Head(toDaemon).event
    /\ toDaemon' = Tail(toDaemon)
    /\ UNCHANGED <<targetVars, queueVars, loop, rpc, toSidecar, alive>>
    /\ UNCHANGED <<sinkOn, eof, mutex, pollVars, cmd, requestId, told>>
    /\ Untouched

\* Mutant: the sink does not wait for the mutex.
ReaderSinksUnlocked ==
    /\ sunk # NoEvent
    /\ IF sinkOn THEN ApplySidecarEvent(sunk) ELSE Untouched
    /\ sunk' = NoEvent
    /\ UNCHANGED <<sidecarVars, events, sinkOn, eof, mutex, pollVars, cmd, requestId, told>>

\* Mutant: no sink: an event waits in the queue to be drained.
ReaderOnlyQueues ==
    /\ sunk # NoEvent
    /\ sunk' = NoEvent
    /\ UNCHANGED <<sidecarVars, events, sinkOn, eof, mutex, pollVars, cmd, requestId, told>>
    /\ Untouched

\* The sink applies the event, if it is registered by now.
ReaderSinksEvent ==
    /\ sunk # NoEvent
    /\ IF sinkOn
       THEN mutex = Free /\ ApplySidecarEvent(sunk)
       ELSE Untouched
    /\ sunk' = NoEvent
    /\ UNCHANGED <<sidecarVars, events, sinkOn, eof, mutex, pollVars, cmd, requestId, told>>

\* A response reaches the waiting request, or nobody.
ReaderDeliversResponse ==
    /\ ~ eof
    /\ sunk = NoEvent
    /\ toDaemon # <<>>
    /\ Head(toDaemon).type = "response"
    /\ cmd' = IF cmd.id = Head(toDaemon).id
              THEN [cmd EXCEPT !.reply = Head(toDaemon).result, !.id = 0]
              ELSE cmd
    /\ toDaemon' = Tail(toDaemon)
    /\ UNCHANGED <<targetVars, queueVars, loop, rpc, toSidecar, alive>>
    /\ UNCHANGED <<transportVars, mutex, pollVars, requestId, told>>
    /\ Untouched

\* Mutant: the waiting requests are not told of the end of the stream.
ReaderEndsSilently ==
    /\ ~ alive
    /\ ~ eof
    /\ sunk = NoEvent
    /\ toDaemon = <<>>
    /\ eof' = TRUE
    /\ UNCHANGED <<sidecarVars, events, sunk, sinkOn, mutex, pollVars, cmd, requestId, told>>
    /\ Untouched

\* End of the stream: waiting requests see Disconnected at once.
ReaderEnds ==
    /\ ~ alive
    /\ ~ eof
    /\ sunk = NoEvent
    /\ toDaemon = <<>>
    /\ eof' = TRUE
    /\ cmd' = IF cmd.id = 0 THEN cmd ELSE [cmd EXCEPT !.reply = RpcError, !.id = 0]
    /\ UNCHANGED <<sidecarVars, events, sunk, sinkOn, mutex, pollVars, requestId, told>>
    /\ Untouched

\* attach or launch registers the sink after its request has returned.
RegisterSink ==
    /\ ~ sinkOn
    /\ sinkOn' = TRUE
    /\ UNCHANGED <<sidecarVars, events, sunk, eof, mutex, pollVars, cmd, requestId, told>>
    /\ Untouched

ReaderNext ==
    \/ ReaderQueuesEvent
    \/ ReaderSinksEvent
    \/ ReaderDeliversResponse
    \/ ReaderEnds

-----------------------------------------------------------------------------
\* drain_transport_events and apply_transport_events, for either worker.

\* The queue is emptied; `inner` is not locked when there is nothing to do.
Drains(w) ==
    /\ batch' = [batch EXCEPT ![w] = events]
    /\ sawAlive' = [sawAlive EXCEPT ![w] = alive]
    /\ events' = <<>>

NothingToApply == events = <<>> /\ alive

\* One iteration of apply_sidecar_events, the mutex held.
AppliesOne(w) ==
    /\ MayLock(w)
    /\ batch[w] # <<>>
    /\ ApplySidecarEvent(Head(batch[w]))
    /\ batch' = [batch EXCEPT ![w] = Tail(@)]
    /\ mutex' = w

\* Its end: a dead sidecar marks the session, and the mutex is released.
AppliedAll(w) ==
    /\ MayLock(w)
    /\ batch[w] = <<>>
    /\ IF sawAlive[w] THEN Untouched ELSE MarkDead
    /\ mutex' = Free

\* state(): worth a step only when it finds something to apply.
PollerDrains ==
    /\ sinkOn
    /\ pollPc = "idle"
    /\ \/ events # <<>>
       \/ ~ alive /\ state \notin Over
    /\ Drains("poller")
    /\ pollPc' = "apply"
    /\ UNCHANGED <<sidecarVars, sunk, sinkOn, eof, mutex, cmd, requestId, told>>
    /\ Untouched

PollerApplies ==
    /\ pollPc = "apply"
    /\ AppliesOne("poller")
    /\ UNCHANGED <<sidecarVars, transportVars, pollPc, sawAlive, cmd, requestId, told>>

PollerDone ==
    /\ pollPc = "apply"
    /\ AppliedAll("poller")
    /\ pollPc' = "idle"
    /\ UNCHANGED <<sidecarVars, transportVars, batch, sawAlive, cmd, requestId, told>>

PollerNext == PollerDrains \/ PollerApplies \/ PollerDone

-----------------------------------------------------------------------------
\* The command thread.

Method(name) ==
    IF name = "run" THEN "continue" ELSE name

At(pc)   == cmd.pc = pc
Goto(pc) == cmd' = [cmd EXCEPT !.pc = pc]

\* SidecarTransport.request: a dead peer fails the write.
Sends(method, s, pc) ==
    /\ requestId' = requestId + 1
    /\ IF alive
       THEN /\ toSidecar' = Append(toSidecar, [id |-> requestId + 1, method |-> method, stop |-> s])
            /\ cmd' = [cmd EXCEPT !.pc = pc, !.id = requestId + 1, !.reply = NoReply, !.stop = s]
       ELSE /\ UNCHANGED toSidecar
            /\ cmd' = [cmd EXCEPT !.pc = pc, !.id = 0, !.reply = RpcError, !.stop = s]
    /\ UNCHANGED <<targetVars, queueVars, loop, rpc, toDaemon, alive>>

Finishes == cmd' = CmdIdle

\* A client's command takes command_lock.  run looks at the state first;
\* kill sends its request at once; the others start by draining events.
CmdIssue(name) ==
    /\ sinkOn
    /\ At("idle")
    /\ requestId < MaxRequests
    /\ name # "kill"
    /\ name = "run" => LaunchMode /\ mutex = Free /\ state = "Loaded"
    /\ Drains("command")
    /\ cmd' = [CmdIdle EXCEPT !.name = name,
                              !.pc = IF NothingToApply THEN "applied" ELSE "apply"]
    /\ UNCHANGED <<sidecarVars, sunk, sinkOn, eof, mutex, pollPc, requestId, told>>
    /\ Untouched

CmdKill ==
    /\ sinkOn
    /\ At("idle")
    /\ requestId < MaxRequests
    /\ "kill" \in Commands
    /\ requestId' = requestId + 1
    /\ IF alive
       THEN /\ toSidecar' = Append(toSidecar, [id |-> requestId + 1, method |-> "terminate", stop |-> NoEvent])
            /\ cmd' = [CmdIdle EXCEPT !.name = "kill", !.pc = "await", !.id = requestId + 1]
       ELSE /\ UNCHANGED toSidecar
            /\ cmd' = [CmdIdle EXCEPT !.name = "kill", !.pc = "await", !.reply = RpcError]
    /\ UNCHANGED <<targetVars, queueVars, loop, rpc, toDaemon, alive>>
    /\ UNCHANGED <<transportVars, mutex, pollVars, told>>
    /\ Untouched

CmdApplies ==
    /\ cmd.pc \in {"apply", "graceApply"}
    /\ AppliesOne("command")
    /\ UNCHANGED <<sidecarVars, transportVars, pollPc, sawAlive, cmd, requestId, told>>

CmdApplied ==
    /\ cmd.pc \in {"apply", "graceApply"}
    /\ AppliedAll("command")
    /\ Goto(IF At("apply") THEN "applied" ELSE "graceApplied")
    /\ UNCHANGED <<sidecarVars, transportVars, pollVars, requestId, told>>

\* suspend and resume: the request follows.
CmdRequests ==
    /\ At("applied")
    /\ cmd.name \in {"suspend", "resume"}
    /\ Sends(Method(cmd.name), NoEvent, "await")
    /\ UNCHANGED <<transportVars, mutex, pollVars, told>>
    /\ Untouched

\* resume_like: a pending stop is told instead of resuming; ackStop follows.
CmdTakesPending ==
    /\ \/ At("applied") /\ cmd.name \in {"run", "continue", "step"}
       \/ At("graceApplied")
    /\ mutex = Free
    /\ PopPending
    /\ Sends("ackStop", Head(pendingStops), "acking")
    /\ UNCHANGED <<transportVars, mutex, pollVars, told>>

CmdNoPending ==
    /\ \/ At("applied") /\ cmd.name \in {"run", "continue", "step"}
       \/ At("graceApplied")
    /\ mutex = Free
    /\ pendingStops = <<>>
    /\ Goto(IF At("applied") THEN "arm" ELSE "timeout")
    /\ UNCHANGED <<sidecarVars, transportVars, mutex, pollVars, requestId, told>>
    /\ Untouched

\* resume_like, second part: the session is Running, the request leaves.
CmdArms ==
    /\ At("arm")
    /\ mutex = Free
    /\ Arm
    /\ Sends(Method(cmd.name), NoEvent, "await")
    /\ UNCHANGED <<transportVars, mutex, pollVars, told>>

CmdSessionDead ==
    /\ At("arm")
    /\ mutex = Free
    /\ state \in Over
    /\ Finishes
    /\ UNCHANGED <<sidecarVars, transportVars, mutex, pollVars, requestId, told>>
    /\ Untouched

\* recv_timeout gives up: a later response finds nobody waiting.
CmdRequestTimesOut ==
    /\ RequestTimeouts
    /\ cmd.pc \in {"await", "acking"}
    /\ cmd.id # 0
    /\ cmd' = [cmd EXCEPT !.reply = RpcError, !.id = 0]
    /\ UNCHANGED <<sidecarVars, transportVars, mutex, pollVars, requestId, told>>
    /\ Untouched

\* What becomes of the command when its request has been answered; an
\* error or a payload of another shape fails it.
AfterReply(name, kind) ==
    CASE name = "kill"                        -> "shutdown"
      [] name = "suspend" /\ kind = "ok"      -> "suspended"
      [] name = "resume" /\ kind = "ok"       -> "discard"
      [] name \in {"run", "continue", "step"} /\ kind = "timedOut" -> "grace"
      [] name \in {"run", "continue", "step"} /\ kind = "stop"     -> "finalize"
      [] OTHER                                -> "idle"

CmdGetsReply ==
    /\ At("await")
    /\ cmd.reply # NoReply
    /\ LET pc == AfterReply(cmd.name, cmd.reply.kind)
       IN cmd' = IF pc = "idle" THEN CmdIdle
                 ELSE [cmd EXCEPT !.pc = pc, !.stop = cmd.reply.stop, !.ids = cmd.reply.ids,
                                  !.reply = NoReply]
    /\ UNCHANGED <<sidecarVars, transportVars, mutex, pollVars, requestId, told>>
    /\ Untouched

\* stop_response_from_value after timedOut: wait_for_events returns what is
\* queued, stale copies included, or nothing when the grace period passes.
CmdGraceWait ==
    /\ At("grace")
    /\ Drains("command")
    /\ Goto(IF NothingToApply THEN "graceApplied" ELSE "graceApply")
    /\ UNCHANGED <<sidecarVars, sunk, sinkOn, eof, mutex, pollPc, requestId, told>>
    /\ Untouched

\* No stop in the grace period either: Timeout, and the state is Running.
CmdReportsTimeout ==
    /\ At("timeout")
    /\ mutex = Free
    /\ SetRunning
    /\ Finishes
    /\ UNCHANGED <<sidecarVars, transportVars, mutex, pollVars, requestId, told>>

\* ackStop's outcome only makes a note.
CmdAcked ==
    /\ At("acking")
    /\ cmd.reply # NoReply
    /\ cmd' = [cmd EXCEPT !.pc = "finalize", !.reply = NoReply]
    /\ UNCHANGED <<sidecarVars, transportVars, mutex, pollVars, requestId, told>>
    /\ Untouched

\* command_response_from_stop_payload: the stop is told to the user.
CmdTellsStop ==
    /\ At("finalize")
    /\ mutex = Free
    /\ FinalizeDeliveredStop(cmd.stop)
    /\ told' = IF cmd.stop = VmExit THEN told ELSE Append(told, cmd.stop)
    /\ Finishes
    /\ UNCHANGED <<sidecarVars, transportVars, mutex, pollVars, requestId>>

\* suspend without a thread id has succeeded.
CmdSuspended ==
    /\ At("suspended")
    /\ mutex = Free
    /\ SetSuspended
    /\ Finishes
    /\ UNCHANGED <<sidecarVars, transportVars, mutex, pollVars, requestId, told>>

\* discard_stops_after_resume_all, its three parts under one lock.
CmdDrainsPending ==
    /\ At("discard")
    /\ mutex = Free
    /\ DrainPending
    /\ mutex' = "command"
    /\ cmd' = [cmd EXCEPT !.pc = "remember", !.ids = pendingStops \o cmd.ids]
    /\ UNCHANGED <<sidecarVars, transportVars, pollVars, requestId, told>>

CmdRemembers ==
    /\ At("remember")
    /\ cmd.ids # <<>>
    /\ RememberDiscarded(Head(cmd.ids))
    /\ cmd' = [cmd EXCEPT !.ids = Tail(@)]
    /\ UNCHANGED <<sidecarVars, transportVars, mutex, pollVars, requestId, told>>

CmdResumed ==
    /\ At("remember")
    /\ cmd.ids = <<>>
    /\ FinishDiscard
    /\ mutex' = Free
    /\ Finishes
    /\ UNCHANGED <<sidecarVars, transportVars, pollVars, requestId, told>>

\* kill: whatever terminate answered, the sidecar process is shut down ...
CmdShutsDown ==
    /\ At("shutdown")
    /\ alive' = FALSE
    /\ Goto("killed")
    /\ UNCHANGED <<targetVars, queueVars, loop, rpc, toSidecar, toDaemon>>
    /\ UNCHANGED <<transportVars, mutex, pollVars, requestId, told>>
    /\ Untouched

\* ... and then the session is Dead.
CmdKilled ==
    /\ At("killed")
    /\ mutex = Free
    /\ SetDead
    /\ Finishes
    /\ UNCHANGED <<sidecarVars, transportVars, mutex, pollVars, requestId, told>>

CmdNext ==
    \/ CmdApplies
    \/ CmdApplied
    \/ CmdRequests
    \/ CmdTakesPending
    \/ CmdNoPending
    \/ CmdArms
    \/ CmdSessionDead
    \/ CmdGetsReply
    \/ CmdGraceWait
    \/ CmdReportsTimeout
    \/ CmdAcked
    \/ CmdTellsStop
    \/ CmdSuspended
    \/ CmdDrainsPending
    \/ CmdRemembers
    \/ CmdResumed
    \/ CmdShutsDown
    \/ CmdKilled

ClientNext == CmdKill \/ \E name \in Commands : CmdIssue(name)

\* The sidecar process dies: both its threads stop where they are.
SidecarCrashes ==
    /\ SidecarMayCrash
    /\ alive
    /\ alive' = FALSE
    /\ UNCHANGED <<targetVars, queueVars, loop, rpc, toSidecar, toDaemon>>
    /\ UNCHANGED sessionVars
    /\ Untouched

-----------------------------------------------------------------------------
\* Breakpoints and the like are set by commands, which need a session.
SidecarActs ==
    /\ TargetNext \/ LoopNext \/ RpcNext
    /\ TargetHitsRequest => sinkOn
    /\ UNCHANGED sessionVars
    /\ Untouched

JdiNext ==
    \/ SidecarActs
    \/ ReaderNext
    \/ RegisterSink
    \/ PollerNext
    \/ ClientNext
    \/ CmdNext
    \/ CmdRequestTimesOut
    \/ SidecarCrashes

JdiSafety == JdiInit /\ [][JdiNext]_jdiVars

\* Threads that can run do: the sidecar's two, the reader and the command
\* thread. Neither the target nor a client nor a poller owes anything.
JdiSpec ==
    /\ JdiSafety
    /\ WF_jdiVars(LoopNext /\ UNCHANGED sessionVars /\ Untouched)
    /\ WF_jdiVars(RpcNext /\ UNCHANGED sessionVars /\ Untouched)
    /\ WF_jdiVars(ReaderNext)
    /\ WF_jdiVars(PollerApplies \/ PollerDone)
    /\ WF_jdiVars(CmdNext)
    /\ WF_jdiVars(RegisterSink)
=============================================================================
