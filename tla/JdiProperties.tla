---------------------------- MODULE JdiProperties ----------------------------
(***************************************************************************)
(* What a JDI debug session must get right, said of JdiSession.            *)
(***************************************************************************)
EXTENDS JdiSession

CmdPcs == {"idle", "apply", "applied", "arm", "await", "grace", "graceApply", "graceApplied",
           "timeout", "acking", "finalize", "suspended", "discard", "remember",
           "shutdown", "killed"}

CmdStates == [pc : CmdPcs, name : Commands \cup {"continue", "kill"}, id : Nat,
              reply : Results \cup {NoReply}, stop : StopEvents \cup {NoEvent},
              ids : Seq(StopIds)]

\* The types of the daemon's side of a session.
SessionTypeOK ==
    /\ events \in Seq(SidecarEvents)
    /\ sunk \in SidecarEvents \cup {NoEvent}
    /\ sinkOn \in BOOLEAN
    /\ eof \in BOOLEAN
    /\ mutex \in Workers \cup {Free}
    /\ batch \in [Workers -> Seq(SidecarEvents)]
    /\ sawAlive \in [Workers -> BOOLEAN]
    /\ pollPc \in {"idle", "apply"}
    /\ cmd \in CmdStates
    /\ requestId \in Nat
    /\ told \in Seq(StopIds)

\* The types of a whole session: inbox, sidecar and the threads between.
JdiTypeOK == InboxTypeOK /\ SidecarTypeOK /\ SessionTypeOK

-----------------------------------------------------------------------------
\* Where a stop can be on its way from the sidecar to the user.

Raised == 1 .. Len(raised)

StopsIn(messages) ==
    {m.result.stop : m \in {n \in ToSet(messages) : n.type = "response"}}

InSidecar == ToSet(stops) \cup {loop.stop, rpc.stop, rpc.result.stop}
OnTheWire == StopsIn(toDaemon)
              \cup {m.event : m \in {n \in ToSet(toDaemon) : n.type = "event"}}
InDaemon  == ToSet(events) \cup ToSet(pendingStops) \cup {sunk, cmd.stop, cmd.reply.stop}
              \cup UNION {ToSet(batch[w]) : w \in Workers}

\* Nothing is under way between the target and the daemon's `inner`.
Quiet ==
    /\ sinkOn
    /\ alive
    /\ At("idle")
    /\ rpc.pc = "idle"
    /\ loop.pc \in {"idle", "ended"}
    /\ vmEvents = <<>>
    /\ toDaemon = <<>>
    /\ sunk = NoEvent
    /\ pollPc = "idle"
    /\ events = <<>>

-----------------------------------------------------------------------------
\* A stop travels on two channels, the blocking response and the event, and
\* the event itself twice, through the queue and through the sink.  Still
\* the user is told every stop at most once, in the order the stops were
\* raised: no phantom stop is replayed, none is overtaken.
ToldInOrder ==
    \A i, j \in DOMAIN told : i < j => told[i] < told[j]

\* No stop is lost: while session and sidecar live, a stop that was raised
\* has been told, was taken back by the sidecar, or is still in one of the
\* places from which a later command will tell it, also when the request
\* whose answer carries it has been given up.
StopAccounted ==
    alive /\ state \notin Over =>
        Raised \subseteq ToSet(told) \cup dropped \cup InSidecar \cup OnTheWire \cup InDaemon

\* The stop the user is told is one the target is still held at: the thread
\* that hit it is suspended at that moment.
HeldWhenTold ==
    [][told' # told => suspends[ThreadOf(Last(told'))] > 0]_jdiVars

\* When nothing is under way, the stop the last command told is the one
\* status names and the sidecar inspects: last_event and the frames, locals
\* and threads the inspection commands show do not disagree.
ToldIsInspected ==
    Quiet /\ state = "Suspended" /\ deliveredStop \in StopIds =>
        lastEvent = deliveredStop /\ current = deliveredStop

\* When nothing is under way, a suspended thread is held by a stop that is
\* current or queued, so that a later continue releases it.
NoOrphanSuspension ==
    Quiet =>
        \A t \in Threads : suspends[t] > 0 =>
            \E s \in ToSet(stops) \cup {current} : Holds(s, t)

\* A step leaves nothing behind, however it ended: between requests no
\* filter of a finished step swallows the stops of other threads, and no
\* step request fires unasked.  (A target that is gone raises none.)
StepLeavesNoFilter ==
    rpc.pc = "idle" /\ vmUp => stepThread = NoThread /\ stepReq = NoThread

\* The discard after a resume-all is atomic: between the draining of the
\* queue and the last id remembered no stop slips in, to be remembered by
\* nobody or swept away with the others.
DiscardAtomic ==
    At("remember") => mutex = "command" /\ pendingStops = <<>>

\* The session reports each stop once and never one the sidecar took back:
\* it implements the ledger of stops.
Ledger == INSTANCE StopLedger WITH
    outstanding <- Raised \ (ToSet(told) \cup dropped),
    reported    <- told

ImplementsLedger == Ledger!LedgerSpec

-----------------------------------------------------------------------------
\* Every command returns, and with it the command lock, whatever the target
\* does and even when the sidecar dies in the middle.
CommandReturns == cmd.pc # "idle" ~> cmd.pc = "idle"

\* status reflects a stop without any command being issued: a stop that was
\* raised comes to be known to the daemon, whichever thread carries it.
StopNoticed ==
    \A s \in StopIds :
        Len(raised) >= s ~>
            \/ s \in ToSet(pendingStops) \cup ToSet(deliveredIds) \cup dropped
            \/ state \in Over \/ ~ alive

\* The exit of the target marks the session Exited for good.
ExitedIsFinal == [][state = "Exited" => state' # "Running"]_jdiVars

\* While a thread is stepped the stops of other threads are resumed and do
\* not replace the result of the step.
StepNotReplaced ==
    [][told' # told /\ cmd.name = "step" => Last(told') \notin dropped]_jdiVars

\* A client that keeps asking for the status comes to see the target's exit.
WatchedSpec == JdiSpec /\ WF_jdiVars(PollerDrains)
ExitNoticed == ~ vmUp ~> state \in Over
=============================================================================
