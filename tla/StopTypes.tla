------------------------------ MODULE StopTypes ------------------------------
(***************************************************************************)
(* The vocabulary shared by the two halves of a JDI debug session: the     *)
(* Java sidecar (DebugSession in JdiService.java), which observes stops in *)
(* the target VM, and the Rust daemon (JdiSession in jdi/session.rs),      *)
(* which tells them to the user.  A stop is known by its stopId, a number  *)
(* the sidecar counts up; vmStart and vmDisconnected carry none.           *)
(***************************************************************************)
EXTENDS Naturals, SequencesExt

CONSTANTS
    MaxStops,   \* bound: how many stops the target raises in a behaviour
    NoEvent,    \* Rust's None / Java's null, where a stop or an event is optional
    VmExit,     \* the "vmDisconnected" event
    VmStart     \* the "vmStart" event

ASSUME MaxStopsAssumption == MaxStops \in Nat

StopIds == 1 .. MaxStops

ASSUME EventsDistinct ==
    /\ {NoEvent, VmExit, VmStart} \cap StopIds = {}
    /\ NoEvent # VmExit
    /\ NoEvent # VmStart
    /\ VmExit # VmStart

\* What the "event" field of a sidecar event can say.
SidecarEvents == StopIds \cup {VmExit, VmStart}

\* No value occurs twice in a queue.
Distinct(s) == \A i, j \in DOMAIN s : s[i] = s[j] => i = j
=============================================================================
