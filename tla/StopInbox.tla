------------------------------ MODULE StopInbox ------------------------------
(***************************************************************************)
(* JdiSessionInner (jdi/session.rs): what the daemon knows of the stops of *)
(* one JDI session, behind the mutex `inner`.  Every action is one         *)
(* critical section of that mutex, or one iteration of a loop that runs    *)
(* inside one; nothing is assumed here of who calls it and when, so what   *)
(* is proved of this specification holds whatever the sidecar sends and    *)
(* however the daemon's threads interleave.                                *)
(***************************************************************************)
EXTENDS StopTypes

CONSTANT IdCap      \* delivered_stop_ids keeps this many ids (32 in the code)

ASSUME IdCapAssumption == IdCap \in Nat \ {0}

VARIABLES
    state,          \* JdiSessionInner.state
    lastEvent,      \* last_event
    deliveredStop,  \* delivered_stop
    deliveredIds,   \* delivered_stop_ids
    pendingStops    \* pending_stops

inboxVars == <<state, lastEvent, deliveredStop, deliveredIds, pendingStops>>

RunStates == {"Loaded", "Running", "Suspended", "Exited", "Dead"}
Over      == {"Exited", "Dead"}
StopEvents == StopIds \cup {VmExit}

InboxTypeOK ==
    /\ state \in RunStates
    /\ lastEvent \in StopEvents \cup {NoEvent}
    /\ deliveredStop \in StopEvents \cup {NoEvent}
    /\ deliveredIds \in Seq(StopIds)
    /\ pendingStops \in Seq(StopIds)

\* attach starts Running, launch starts Loaded.
InboxInit ==
    /\ state \in {"Running", "Loaded"}
    /\ lastEvent = NoEvent
    /\ deliveredStop = NoEvent
    /\ deliveredIds = <<>>
    /\ pendingStops = <<>>

-----------------------------------------------------------------------------
\* apply_sidecar_event for "vmDisconnected".
ApplyVmExit ==
    /\ IF state = "Dead"
       THEN UNCHANGED <<state, lastEvent>>
       ELSE state' = "Exited" /\ lastEvent' = VmExit
    /\ UNCHANGED <<deliveredStop, deliveredIds, pendingStops>>

\* Mutant: the twin already waiting in the queue is not looked for.
ApplyStopTwice(s) ==
    IF state \in Over \/ s \in ToSet(deliveredIds)
    THEN UNCHANGED inboxVars
    ELSE /\ pendingStops' = Append(pendingStops, s)
         /\ state' = "Suspended"
         /\ lastEvent' = s
         /\ UNCHANGED <<deliveredStop, deliveredIds>>

\* apply_sidecar_event for a stop: queued unless it is already known.
ApplyStop(s) ==
    IF \/ state \in Over
       \/ s \in ToSet(deliveredIds)
       \/ s \in ToSet(pendingStops)
    THEN UNCHANGED inboxVars
    ELSE /\ pendingStops' = Append(pendingStops, s)
         /\ IF state # "Suspended" \/ lastEvent = NoEvent
            THEN state' = "Suspended" /\ lastEvent' = s
            ELSE UNCHANGED <<state, lastEvent>>
         /\ UNCHANGED <<deliveredStop, deliveredIds>>

\* "vmStart" is no stop event for the daemon.
ApplySidecarEvent(e) ==
    \/ e = VmExit /\ ApplyVmExit
    \/ e \in StopIds /\ ApplyStop(e)
    \/ e = VmStart /\ UNCHANGED inboxVars

\* The tail of apply_sidecar_events, when the sidecar process is gone.
MarkDead ==
    /\ state' = IF state \in Over THEN state ELSE "Dead"
    /\ UNCHANGED <<lastEvent, deliveredStop, deliveredIds, pendingStops>>

\* pending_stops.pop_front()
PopPending ==
    /\ pendingStops # <<>>
    /\ pendingStops' = Tail(pendingStops)
    /\ UNCHANGED <<state, lastEvent, deliveredStop, deliveredIds>>

\* Mutant: the queue is emptied as the session starts to run.
ArmForgetting ==
    /\ state \notin Over
    /\ state' = "Running"
    /\ lastEvent' = NoEvent
    /\ deliveredStop' = NoEvent
    /\ pendingStops' = <<>>
    /\ UNCHANGED deliveredIds

\* resume_like, before its request: the session is Running from here on.
Arm ==
    /\ state \notin Over
    /\ state' = "Running"
    /\ lastEvent' = NoEvent
    /\ deliveredStop' = NoEvent
    /\ UNCHANGED <<deliveredIds, pendingStops>>

\* stop_response_from_value, when no stop came: state alone is assigned.
SetRunning ==
    /\ state' = "Running"
    /\ UNCHANGED <<lastEvent, deliveredStop, deliveredIds, pendingStops>>

\* suspend without a thread id.
SetSuspended ==
    /\ state' = "Suspended"
    /\ UNCHANGED <<lastEvent, deliveredStop, deliveredIds, pendingStops>>

\* kill
SetDead ==
    /\ state' = "Dead"
    /\ UNCHANGED <<lastEvent, deliveredStop, deliveredIds, pendingStops>>

\* Mutant: the cap is tested before the push.
RememberLate(ids, s) ==
    IF s \in ToSet(ids) THEN ids
    ELSE IF Len(ids) <= IdCap THEN Append(ids, s)
    ELSE Tail(Append(ids, s))

\* remember_delivered_stop_id: the oldest id leaves when the list is full.
Remember(ids, s) ==
    IF s \in ToSet(ids) THEN ids
    ELSE IF Len(ids) < IdCap THEN Append(ids, s)
    ELSE Tail(Append(ids, s))

\* Mutant: the twin queued by another thread is not purged.
FinalizeWithoutPurge(s) ==
    /\ s \in StopEvents
    /\ state' = IF s = VmExit THEN "Exited" ELSE "Suspended"
    /\ lastEvent' = s
    /\ deliveredStop' = s
    /\ deliveredIds' = IF s = VmExit THEN deliveredIds ELSE Remember(deliveredIds, s)
    /\ UNCHANGED pendingStops

\* finalize_delivered_stop: the stop is told; its twin leaves the queue.
\* (`retain` drops every twin: there is at most one, NoDuplicatePending.)
FinalizeDeliveredStop(s) ==
    /\ s \in StopEvents
    /\ state' = IF s = VmExit THEN "Exited" ELSE "Suspended"
    /\ lastEvent' = s
    /\ deliveredStop' = s
    /\ deliveredIds' = IF s = VmExit THEN deliveredIds ELSE Remember(deliveredIds, s)
    /\ pendingStops' = RemoveFirst(pendingStops, s)

\* discard_stops_after_resume_all holds the mutex through three parts:
\* the queue is drained, its ids and the sidecar's are remembered one by
\* one, and the session is Running.
DrainPending ==
    /\ pendingStops' = <<>>
    /\ UNCHANGED <<state, lastEvent, deliveredStop, deliveredIds>>

\* Mutant: a discarded stop's id is not kept.
ForgetDiscarded(s) ==
    /\ s \in StopIds
    /\ pendingStops = <<>>
    /\ UNCHANGED inboxVars

RememberDiscarded(s) ==
    /\ s \in StopIds
    /\ pendingStops = <<>>
    /\ deliveredIds' = Remember(deliveredIds, s)
    /\ UNCHANGED <<state, lastEvent, deliveredStop, pendingStops>>

FinishDiscard ==
    /\ state' = "Running"
    /\ lastEvent' = NoEvent
    /\ deliveredStop' = NoEvent
    /\ UNCHANGED <<deliveredIds, pendingStops>>

-----------------------------------------------------------------------------
InboxNext ==
    \/ \E e \in SidecarEvents : ApplySidecarEvent(e)
    \/ MarkDead
    \/ PopPending
    \/ Arm
    \/ SetRunning
    \/ SetSuspended
    \/ SetDead
    \/ \E s \in StopEvents : FinalizeDeliveredStop(s)
    \/ DrainPending
    \/ \E s \in StopIds : RememberDiscarded(s)
    \/ FinishDiscard

InboxSpec == InboxInit /\ [][InboxNext]_inboxVars

-----------------------------------------------------------------------------
\* A stop waits at most once for the user: the two channels that carry it
\* (the blocking response and the event, queued and sunk) never leave two
\* copies in pending_stops.
NoDuplicatePending == Distinct(pendingStops)

\* A stop the session remembers as delivered or discarded is not waiting to
\* be delivered again, whatever order the twins arrive in.
PendingNotDelivered == ToSet(pendingStops) \cap ToSet(deliveredIds) = {}

\* The memory of delivered ids stays within its cap and holds no id twice,
\* so a repeated id never evicts another one early.
DeliveredIdsBounded == Len(deliveredIds) <= IdCap /\ Distinct(deliveredIds)
=============================================================================
