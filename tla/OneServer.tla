------------------------------ MODULE OneServer ------------------------------
(***************************************************************************)
(* What a login's daemons promise the programs that look for them: one     *)
(* server at a time, which alone changes the entry that names it, and      *)
(* which takes the entry away before it leaves.  Only something from       *)
(* outside (a kill, another program) ends a server or removes an entry     *)
(* otherwise, and that shows in outside.                                   *)
(***************************************************************************)
CONSTANTS Pids, Nobody

VARIABLES
    server,    \* the process that has the name, or Nobody
    entry,     \* the process daemon.json names, or Nobody
    outside    \* all that the outside does

Init ==
    /\ server \in Pids \cup {Nobody} /\ entry \in Pids \cup {Nobody}
    /\ server # Nobody => entry = server

\* Only a vacant place is taken; an entry somebody has left behind stays.
Elect ==
    /\ server = Nobody /\ server' \in Pids
    /\ UNCHANGED <<entry, outside>>

Announce ==
    /\ server # Nobody /\ entry' = server
    /\ UNCHANGED <<server, outside>>

Withdraw ==
    /\ server # Nobody /\ entry' = Nobody
    /\ UNCHANGED <<server, outside>>

\* Nobody leaves with the entry still naming it.
Leave ==
    /\ server # Nobody /\ server # entry /\ server' = Nobody
    /\ UNCHANGED <<entry, outside>>

Disturb ==
    /\ outside' # outside
    /\ server' \in {server, Nobody} /\ entry' \in {entry, Nobody}

Next == Elect \/ Announce \/ Withdraw \/ Leave \/ Disturb
Spec == Init /\ [][Next]_<<server, entry>>
=============================================================================
