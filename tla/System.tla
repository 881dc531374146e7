------------------------------- MODULE System -------------------------------
(***************************************************************************)
(* The whole but for what a session does with a target: daemons, clients,  *)
(* handler threads, sessions and their child processes, and the programs   *)
(* that set jdbg up and update it.  A plan says what is asked of it.       *)
(***************************************************************************)
EXTENDS Update

vars == <<dvars, launchVars, managerVars, updateVars>>

Init ==
    /\ plan \in Plans
    /\ todo = plan.todo
    /\ DaemonInit /\ LaunchInit /\ ManagerInit /\ UpdateInit
    /\ platform \in plan.platforms
    /\ daemon[FirstDaemon] \in plan.worlds
    /\ {d \in Daemons \ {FirstDaemon} : daemon[d] = "gone"} = plan.ended

-----------------------------------------------------------------------------

Beside == UNCHANGED <<launchVars, managerVars, updateVars>>

\* The processes and the clients, as in DaemonLife.
ProcessStep(d) ==
    /\ DaemonStart(d) \/ LeaveLoop(d) \/ Unregister(d) \/ Unlink(d) \/ CloseListener(d)
    /\ Beside
ProcessEnds(d) == Exit(d) /\ ManagerEnds(d) /\ UNCHANGED updateVars
ProcessKilled(d) == plan.crash /\ Crash(d) /\ ManagerEnds(d) /\ UNCHANGED updateVars
ShutDownStep(d) ==
    /\ LockToShutDown(d) \/ shutdown(d) \/ \E s \in SessionIds : KillAtShutDown(d, s)
    /\ UNCHANGED updateVars

Asks(c) == Ask(c) /\ Beside
Talks(c) == ClientStep(c) /\ Beside

\* The handler threads, with the work in the place of DaemonLife's Worked.
Accepts(d, c) == Accept(d, c) /\ Beside
Replies(c) == ThreadStep(c) /\ Beside
Works(c) == RequestStep(c) /\ UNCHANGED updateVars

\* What the children and the targets do by themselves. A sidecar whose
\* connection is gone ends, and so does a jdb whose input is.
SidecarStep(s) == (SidecarConnects(s) \/ SidecarDies(s)) /\ UNCHANGED <<managerVars, updateVars>>
TargetEnds(s) == TargetGone(s) /\ UNCHANGED updateVars
OrphanEnds(p) ==
    /\ child[p] = "orphan"
    /\ child' = [child EXCEPT ![p] = "dead"]
    /\ UNCHANGED <<dvars, plan, job, ends, jar, managerVars, updateVars>>

\* The main thread of a daemon, but for accept, and a client with its connection
\* and its handler thread: at no time can more than one of the steps be taken.
MainThread(d) == ProcessStep(d) \/ ProcessEnds(d) \/ ShutDownStep(d)
Exchange(c) == Talks(c) \/ (\E d \in Daemons : Accepts(d, c)) \/ Replies(c) \/ Works(c)

Next ==
    \/ \E d \in Daemons : MainThread(d) \/ ProcessKilled(d)
    \/ \E c \in Clients : Asks(c) \/ Exchange(c)
    \/ \E s \in SessionIds : SidecarStep(s) \/ TargetEnds(s)
    \/ \E p \in Children : OrphanEnds(p)
    \/ UpdaterStep \/ Publish

\* Every process and every thread gets on when it can, connections are taken in
\* turn as long as any are, every wait with a deadline ends, a JVM that was started comes up or dies, a command on a session
\* ends (it has a timeout). Nobody has to ask, to crash, or to end by itself.
Fairness ==
    /\ \A d \in Daemons : WF_vars(MainThread(d))
    /\ \A c \in Clients : WF_vars(Exchange(c))
    /\ \A s \in SessionIds : WF_vars(SidecarStep(s))

Spec == Init /\ [][Next]_vars /\ Fairness
=============================================================================
