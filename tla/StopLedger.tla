------------------------------ MODULE StopLedger ------------------------------
(***************************************************************************)
(* What a debug session promises about stops, with no daemon, sidecar or   *)
(* wire in sight: a stop is outstanding from the moment it is raised until *)
(* it is either reported to the user, once, or dropped, and a dropped stop *)
(* is never reported (the doc comments of finalize_delivered_stop and      *)
(* discard_stops_after_resume_all in jdi/session.rs).                      *)
(***************************************************************************)
EXTENDS StopTypes

VARIABLES
    outstanding,    \* raised, neither reported nor dropped
    reported,       \* reported to the user, in this order
    dropped         \* taken back unreported

ledgerVars == <<outstanding, reported, dropped>>

LedgerInit ==
    /\ outstanding = {}
    /\ reported = <<>>
    /\ dropped = {}

Raise(s) ==
    /\ s \notin outstanding \cup ToSet(reported) \cup dropped
    /\ outstanding' = outstanding \cup {s}
    /\ UNCHANGED <<reported, dropped>>

Report(s) ==
    /\ s \in outstanding
    /\ outstanding' = outstanding \ {s}
    /\ reported' = Append(reported, s)
    /\ UNCHANGED dropped

Drop(out) ==
    /\ out # {}
    /\ out \subseteq outstanding
    /\ outstanding' = outstanding \ out
    /\ dropped' = dropped \cup out
    /\ UNCHANGED reported

LedgerNext ==
    \/ \E s \in StopIds : Raise(s) \/ Report(s)
    \/ \E out \in SUBSET StopIds : Drop(out)

LedgerSpec == LedgerInit /\ [][LedgerNext]_ledgerVars
=============================================================================
