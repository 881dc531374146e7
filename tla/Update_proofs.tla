---------------------------- MODULE Update_proofs ----------------------------
(***************************************************************************)
(* Proofs about the program beside the daemon (`jdbg update`, `jdbg        *)
(* setup`), for every plan: the daemon it replaces is past its service     *)
(* before anything is touched, the jar it leaves is the one that was verified,    *)
(* and the files of the agents keep what the user had in them.             *)
(***************************************************************************)
EXTENDS System_proofs, WellFoundedInduction

\* The stages of a process whose listener takes connections.
Serving == {"register", "serve", "cleanup", "unregister", "unlink", "close"}
Past == {"exit", "gone"}

\* A process takes connections until it closes its listener, and its threads go on
\* until it ends; a connection that is cut led to a process that is past its
\* service; and daemon.json names only processes that have come as far.
ListenersServe == \A d \in Daemons : d \in listening <=> daemon[d] \in Serving
ConnectionsServed ==
    \A c \in Clients : /\ thread[c] = "queued" => client[c].peer \in listening
                       /\ thread[c] \in {"running", "replying"} =>
                             daemon[client[c].peer] \in Serving \cup {"exit"}
                       /\ thread[c] = "cut" => daemon[client[c].peer] \in Past
EntryStarted == registered # None => daemon[registered] \in Serving \cup Past
ListenInv == ListenersServe /\ ConnectionsServed /\ EntryStarted

-----------------------------------------------------------------------------
(* The listeners, under every step of the system.                          *)

LEMMA ListenInit == DaemonInit => ListenInv
  <1> SUFFICES ASSUME DaemonInit PROVE ListenInv
    OBVIOUS
  <1> USE DaemonAssumption
  <1>1. PICK stage \in {"unborn", "serve", "gone"}, ended \in SUBSET (Daemons \ {FirstDaemon}) :
           World(stage, ended)
    BY DEF DaemonInit
  <1>2. FirstDaemon \in Daemons
    BY DEF FirstDaemon
  <1>3. ListenersServe /\ EntryStarted
    BY <1>1, <1>2 DEF World, ListenersServe, EntryStarted, Serving, Past
  <1>4. ConnectionsServed
    BY DEF DaemonInit, ConnectionsServed
  <1> QED BY <1>3, <1>4 DEF ListenInv

\* A process that moves from one stage to another of the same sort.
LEMMA ListenMove ==
    ASSUME DaemonTypeOK, Occupied, ListenInv, NEW d \in Daemons, NEW stage, Goto(d, stage),
           daemon[d] \notin Past, daemon[d] \in Serving <=> stage \in Serving,
           registered = d => stage \in Serving \cup {"gone"},
           registered' \in {None, registered} \/ (registered' = d /\ stage \in Serving),
           UNCHANGED <<listening, client, thread>>
    PROVE  ListenInv'
  <1> USE DEF Goto, DaemonTypeOK, Past
  <1>1. ListenersServe'
    BY DEF ListenInv, ListenersServe
  <1>2. ConnectionsServed'
    BY DEF ListenInv, ConnectionsServed, Occupied
  <1>3. EntryStarted'
    BY DaemonAssumption DEF ListenInv, EntryStarted
  <1> QED BY <1>1, <1>2, <1>3 DEF ListenInv

LEMMA ListenEnds ==
    ASSUME DaemonTypeOK, Occupied, ListenInv, NEW d \in Daemons, Ends(d)
    PROVE  ListenInv'
  <1> USE DEF Goto, DaemonTypeOK, Ends, Closes, Serving, Past
  <1>1. ListenersServe'
    BY DEF ListenInv, ListenersServe
  <1>2. ConnectionsServed'
    BY DEF ListenInv, ConnectionsServed, Occupied
  <1>3. EntryStarted'
    BY DaemonAssumption DEF ListenInv, EntryStarted
  <1> QED BY <1>1, <1>2, <1>3 DEF ListenInv

LEMMA ListenCloses ==
    ASSUME DaemonTypeOK, Occupied, ListenInv, NEW d \in Daemons, CloseListener(d)
    PROVE  ListenInv'
  <1> USE DEF Goto, DaemonTypeOK, CloseListener, Closes, Serving, Past
  <1>1. ListenersServe'
    BY DEF ListenInv, ListenersServe
  <1>2. ConnectionsServed'
    BY DEF ListenInv, ConnectionsServed, Occupied
  <1>3. EntryStarted'
    BY DaemonAssumption DEF ListenInv, EntryStarted
  <1> QED BY <1>1, <1>2, <1>3 DEF ListenInv

\* A client or a connection that moves while the processes stay.
LEMMA ListenBeside ==
    ASSUME ListenInv, listening \subseteq Daemons, UNCHANGED <<daemon, listening, registered>>,
           \A c \in Clients :
              \/ thread'[c] = thread[c] /\ client'[c].peer = client[c].peer
              \/ thread'[c] \in {"none", "written"}
              \/ client'[c].peer \in listening /\ thread'[c] = "queued"
              \/ /\ client'[c].peer = client[c].peer
                 /\ thread[c] \in {"queued", "running", "replying"}
                 /\ thread'[c] \in {"running", "replying"}
    PROVE  ListenInv'
  <1>1. ConnectionsServed'
    BY DEF ListenInv, ListenersServe, ConnectionsServed
  <1> QED BY <1>1 DEF ListenInv, ListenersServe, EntryStarted

LEMMA ListenProcess ==
    ASSUME HolderInv, ListenInv, NEW d \in Daemons,
           DaemonStart(d) \/ DaemonEnd(d) \/ ShutDown(d) \/ Crash(d)
    PROVE  ListenInv'
  <1>0. DaemonTypeOK /\ Occupied
    BY DEF HolderInv
  <1>1. CASE Bind(d) \/ Probe(d) \/ Reclaim(d)
    BY <1>0, <1>1, ListenMove, DaemonAssumption
       DEF Bind, Probe, Reclaim, ListenInv, EntryStarted, Serving, Past, clientVars
  <1>2. CASE Listen(d)
    <2>1. registered # d
      BY <1>2, DaemonAssumption DEF Listen, ListenInv, EntryStarted, Serving, Past
    <2> QED BY <1>0, <1>2, <2>1 DEF Listen, Goto, DaemonTypeOK, clientVars, ListenInv, ListenersServe,
                                    ConnectionsServed, EntryStarted, Occupied, Serving, Past
  <1>3. CASE write_daemon(d) \/ LeaveLoop(d) \/ ShutDown(d) \/ Unregister(d) \/ Unlink(d)
    BY <1>0, <1>3, ListenMove DEF write_daemon, LeaveLoop, ShutDown, Unregister, Unlink, Serving, Past,
                              clientVars
  <1>4. CASE Exit(d) \/ Crash(d)
    BY <1>0, <1>4, ListenEnds DEF Exit, Crash
  <1>5. CASE CloseListener(d)
    BY <1>0, <1>5, ListenCloses
  <1> QED BY <1>1, <1>2, <1>3, <1>4, <1>5 DEF DaemonStart, DaemonEnd

LEMMA ListenClient ==
    ASSUME HolderInv, ListenInv, NEW c \in Clients,
           Ask(c) \/ ClientStep(c) \/ ThreadStep(c) \/ Worked(c) \/ \E d \in Daemons : Accept(d, c)
    PROVE  ListenInv'
  <1>0. DaemonTypeOK /\ Occupied
    BY DEF HolderInv
  <1> USE <1>0 DEF DaemonTypeOK, daemonVars
  <1>1. CASE Ask(c)
    <2>1. thread[c] = "none" /\ thread' = thread
      BY <1>1 DEF Ask, Occupied
    <2>2. \A e \in Clients \ {c} : client'[e] = client[e]
      BY <1>1 DEF Ask, To
    <2> QED BY <1>1, <2>1, <2>2, ListenBeside DEF Ask
  <1>2. CASE Poll(c) \/ try_connect(c)
    <2>1. CASE Connected(c)
      BY <2>1, ListenBeside DEF Connected, Reachable, Place
    <2>2. CASE Refused(c) /\ client[c].at # "sent"
      <3>1. thread[c] = "none" /\ thread' = thread
        BY <2>2 DEF Refused, Occupied
      <3>2. \A e \in Clients \ {c} : client'[e] = client[e]
        BY <2>2 DEF Refused, To, Finish
      <3> QED BY <2>2, <3>1, <3>2, ListenBeside DEF Refused
    <2> QED BY <1>2, <2>1, <2>2 DEF Poll, try_connect
  <1>3. CASE spawn_daemon_detached(c)
    <2>1. thread[c] = "none" /\ thread' = thread
      BY <1>3 DEF spawn_daemon_detached, Occupied
    <2>2. \A e \in Clients \ {c} : client'[e] = client[e]
      BY <1>3 DEF spawn_daemon_detached, To, Finish
    <2>3. CASE daemon' = daemon
      BY <1>3, <2>1, <2>2, <2>3, ListenBeside DEF spawn_daemon_detached
    <2>4. CASE Goto(NewPid, "bind") /\ \E d \in Daemons : daemon[d] = "unborn"
      <3>1. NewPid \in Daemons /\ daemon[NewPid] = "unborn"
        BY <2>4, Zenon DEF NewPid
      <3>2. registered # NewPid
        BY <3>1, DaemonAssumption DEF ListenInv, EntryStarted, Serving, Past
      <3>3. \A e \in Clients : thread[e] # "none" => client'[e] = client[e]
        BY <2>1, <2>2
      <3>4. ListenersServe' /\ EntryStarted'
        BY <1>3, <2>4, <3>1, <3>2 DEF spawn_daemon_detached, Goto, ListenInv, ListenersServe, EntryStarted, Serving, Past
      <3>5. ConnectionsServed'
        <4>1. \A e \in Clients : /\ thread[e] = "cut" => daemon[client[e].peer] \in Past
                                 /\ thread[e] \in {"running", "replying"} =>
                                       daemon[client[e].peer] \in Serving \cup {"exit"}
                                 /\ thread[e] # "none" => client[e].peer \in Daemons
          BY DEF ListenInv, ConnectionsServed, Occupied
        <4>2. \A e \in Clients : thread[e] = "queued" => client[e].peer \in listening
          BY DEF ListenInv, ConnectionsServed
        <4>3. thread' = thread /\ listening' = listening
          BY <1>3 DEF spawn_daemon_detached
        <4> QED BY <2>4, <3>1, <3>3, <4>1, <4>2, <4>3 DEF ConnectionsServed, Goto, Serving, Past
      <3> QED BY <3>4, <3>5 DEF ListenInv
    <2> QED BY <1>3, <2>3, <2>4 DEF spawn_daemon_detached
  <1>4. CASE Deadline(c) \/ ReadResponse(c) \/ Transient(c)
    <2>1. thread'[c] = "none"
      BY <1>4 DEF Deadline, ReadResponse, Transient, Occupied
    <2>2. \A e \in Clients \ {c} : client'[e] = client[e] /\ thread'[e] = thread[e]
      BY <1>4 DEF Deadline, ReadResponse, Transient, To, Finish
    <2> QED BY <1>4, <2>1, <2>2, ListenBeside DEF Deadline, ReadResponse, Transient
  <1>5. CASE ThreadStep(c) \/ Worked(c) \/ \E d \in Daemons : Accept(d, c)
    <2>1. /\ UNCHANGED <<daemon, listening, registered, client>>
          /\ thread[c] \in {"queued", "running", "replying"}
          /\ thread'[c] \in {"running", "replying", "written"}
          /\ \A e \in Clients \ {c} : thread'[e] = thread[e]
      BY <1>5 DEF ThreadStep, daemon_stop_response, write_response, Worked, Accept
    <2> QED BY <2>1, ListenBeside
  <1> QED BY <1>1, <1>2, <1>3, <1>4, <1>5 DEF ClientStep

LEMMA ListenDaemonStep ==
    ASSUME HolderInv, ListenInv, [DaemonNext]_dvars
    PROVE  ListenInv'
  <1>1. CASE \E d \in Daemons : DaemonStart(d) \/ DaemonEnd(d) \/ ShutDown(d) \/ Crash(d)
    BY <1>1, ListenProcess
  <1>2. CASE \E c \in Clients : \/ Ask(c) \/ ClientStep(c) \/ ThreadStep(c) \/ Worked(c)
                                \/ \E d \in Daemons : Accept(d, c)
    BY <1>2, ListenClient
  <1>3. CASE UNCHANGED dvars
    BY <1>3 DEF dvars, daemonVars, clientVars, ListenInv, ListenersServe, ConnectionsServed, EntryStarted
  <1> QED BY <1>1, <1>2, <1>3 DEF DaemonNext

-----------------------------------------------------------------------------
(* The program beside the daemon: what it does to the daemon.              *)

\* It ends a process only as the system does: with its threads and its sessions.
KillsVictim ==
    /\ AtStage("kill") /\ Victim # None /\ Alive(Victim)
    /\ Ends(Victim) /\ ManagerEnds(Victim) /\ UNCHANGED crashes
    /\ up' = [up EXCEPT !.stage = "await death", !.pid = Victim]

\* Otherwise it leaves the sessions alone, and of the daemon it touches its own
\* request, or the entry in daemon.json.
AsksDaemon ==
    /\ \/ AtStage("stop") /\ Enter("stopping") /\ SendTo("DaemonStop")
       \/ AtStage("await exit") /\ Enter("ask status") /\ SendTo("DaemonStatus")
       \/ AtStage("await death") /\ Enter("ask again") /\ SendTo("DaemonStatus")
    /\ Keep
ClearsEntry ==
    /\ registered' \in {None, registered}
    /\ UNCHANGED <<platform, daemon, socket, listening, stopping, crashes, clientVars>>
    /\ UNCHANGED <<job, child, ends, managerVars>>

LEMMA UpdaterMoves ==
    ASSUME UpdaterStep \/ Publish
    PROVE  /\ plan' = plan
           /\ AsksDaemon \/ ClearsEntry \/ KillsVictim
  <1> USE DEF Keep
  <1>1. CASE UNCHANGED dvars /\ UNCHANGED <<plan, job, child, ends, managerVars>>
    BY <1>1 DEF ClearsEntry, dvars, daemonVars
  <1>2. CASE run_update \/ run_setup \/ ensure_jdi_sidecar_available \/ remove_target
             \/ install_target \/ move_self_aside \/ install_command
    BY <1>1, <1>2 DEF run_update, run_setup, ensure_jdi_sidecar_available, remove_target,
                      install_target, move_self_aside, install_command
  <1>3. CASE download_archive \/ verify_archive_checksum \/ install_sidecar_file \/ Publish
    BY <1>1, <1>3 DEF download_archive, verify_archive_checksum, Step, install_sidecar_file, Publish, launchVars
  <1>4. CASE stop_daemon_before_update
    BY <1>4 DEF stop_daemon_before_update, AsksDaemon, ClearsEntry
  <1>5. CASE wait_for_daemon_exit
    BY <1>1, <1>5 DEF wait_for_daemon_exit, AsksDaemon
  <1>6. CASE stop_process
    BY <1>1, <1>6 DEF stop_process, KillsVictim
  <1>7. CASE remove_daemon
    BY <1>7 DEF remove_daemon, ClearsEntry
  <1> QED BY <1>2, <1>3, <1>4, <1>5, <1>6, <1>7 DEF UpdaterStep

\* Whatever else happens in the system leaves the program, its files and the jar alone.
LEMMA OthersMove ==
    ASSUME [Next]_vars
    PROVE  \/ UpdaterStep \/ Publish
           \/ UNCHANGED <<plan, jar, updateVars>> /\ [DaemonNext]_dvars
  <1>1. CASE UNCHANGED vars
    BY <1>1 DEF vars, launchVars
  <1>2. ASSUME NEW d \in Daemons, MainThread(d) \/ ProcessKilled(d)
        PROVE  jar' = jar
    BY <1>2 DEF MainThread, ProcessStep, ProcessEnds, ProcessKilled, ShutDownStep, LockToShutDown,
                KillAtShutDown, shutdown, Beside, ManagerEnds, launchVars
  <1>3. ASSUME NEW c \in Clients, RequestStep(c)
        PROVE  jar' = jar
    <2>1. CASE BuildStep(c)
      BY <2>1, BuildLeaves
    <2> QED BY <1>3, <2>1
         DEF RequestStep, dispatch, LockMap, check_duplicate, create_session, insert_session, persist_sessions,
             list, get, use_session, session_used, remove_session, kill_session, kill_fails, work_done, launchVars
  <1>4. ASSUME NEW c \in Clients, Asks(c) \/ Exchange(c)
        PROVE  jar' = jar
    BY <1>3, <1>4 DEF Asks, Exchange, Talks, Accepts, Replies, Works, Beside, launchVars
  <1>5. CASE \/ \E s \in SessionIds : SidecarStep(s) \/ TargetEnds(s)
             \/ \E p \in Children : OrphanEnds(p)
    BY <1>5, ChildrenLeave DEF SidecarStep, SidecarConnects, SidecarDies, TargetEnds, TargetGone, OrphanEnds, launchVars
  <1> QED BY <1>1, <1>2, <1>4, <1>5, MainThreadLeaves, ExchangeLeaves DEF Next

-----------------------------------------------------------------------------
(* The jar.                                                                *)

\* From its check to the rename the archive is the one whose checksum was read.
VerifiedInv ==
    /\ {"stage", "archive", "sum"} \subseteq DOMAIN up
    /\ up.stage \in {"replace", "rename"} => up.archive = up.sum

LEMMA VerifiedStep ==
    ASSUME VerifiedInv, [Next]_vars
    PROVE  /\ VerifiedInv'
           /\ jar' \notin {jar, "absent"} => jar' = up.sum
  <1> USE DEF AtStage, Enter, Failed, VerifiedInv
  <1>1. CASE UNCHANGED <<plan, jar, updateVars>>
    BY <1>1 DEF updateVars
  <1>2. CASE run_update \/ stop_daemon_before_update \/ wait_for_daemon_exit \/ stop_process \/ remove_daemon
    BY <1>2 DEF run_update, stop_daemon_before_update, wait_for_daemon_exit, stop_process, remove_daemon, Files
  <1>3. CASE run_setup
    BY <1>3 DEF run_setup, Files
  <1>4. CASE ensure_jdi_sidecar_available \/ remove_target \/ install_target
    BY <1>4 DEF ensure_jdi_sidecar_available, remove_target, install_target, AfterRemoval, Files
  <1>5. CASE move_self_aside \/ install_command \/ download_archive \/ verify_archive_checksum
    BY <1>5 DEF move_self_aside, install_command, download_archive, verify_archive_checksum, Step, Files
  <1>6. CASE install_sidecar_file
    BY <1>6 DEF install_sidecar_file
  <1>7. CASE Publish
    BY <1>7 DEF Publish, launchVars
  <1> QED BY <1>1, <1>2, <1>3, <1>4, <1>5, <1>6, <1>7, OthersMove DEF UpdaterStep

\* A jar that takes the place of another is the one whose checksum was read,
\* for every sequence of releases, failures and retries.
THEOREM OnlyVerifiedJarHolds == Spec => OnlyVerifiedJar
  <1>1. Init => VerifiedInv
    BY DEF Init, UpdateInit, VerifiedInv
  <1>2. VerifiedInv /\ [Next]_vars => VerifiedInv'
    BY VerifiedStep
  <1>3. VerifiedInv /\ [Next]_vars => [jar' \notin {jar, "absent"} => jar' = up.sum]_vars
    BY VerifiedStep
  <1> QED BY <1>1, <1>2, <1>3, PTL DEF Spec, OnlyVerifiedJar

-----------------------------------------------------------------------------
(* The daemon that is replaced.                                            *)

AskingStages == {"stopping", "ask status", "ask again"}
AskRequests == {<<AskFor("DaemonStop")>>, <<AskFor("DaemonStatus")>>}
HasEnded(d) == d = None \/ daemon[d] \in Past

\* The process that is to be replaced was there once: it serves or is past that.
PidStarted ==
    /\ {"stage", "pid"} \subseteq DOMAIN up
    /\ up.pid \in Daemons \cup {None}
    /\ up.pid # None => daemon[up.pid] \in Serving \cup Past

\* As a client the program has one request under way, and only while it asks.
AsksAlone ==
    plan.program = "update" =>
        /\ up.stage \notin AskingStages => todo[Updater] = <<>>
        /\ todo[Updater] \in AskRequests \cup {<<>>}
        /\ client[Updater].at \in {"idle", "connect", "sent"}
        /\ up.stage # "select"

\* A request to stop reaches the process as long as it serves: who is connected is
\* connected to it, and who got no answer asked when it had closed its listener.
StopHeard ==
    plan.program = "update" /\ up.stage = "stopping" /\ ~NameOutlivesProcess =>
        /\ thread[Updater] # "none" => client[Updater].peer = up.pid \/ HasEnded(up.pid)
        /\ Answered /\ ~client[Updater].ok => HasEnded(up.pid)

ReplacedHasEnded ==
    plan.program = "update" /\ (Replacing \/ up.stage = "unregister") /\ ~NameOutlivesProcess =>
        HasEnded(up.pid)

UpdaterInv == PidStarted /\ AsksAlone /\ StopHeard /\ ReplacedHasEnded

LEMMA UpdaterInvInit == Init => UpdaterInv
  <1> SUFFICES ASSUME Init PROVE UpdaterInv
    OBVIOUS
  <1>1. PidStarted /\ up.pid = None /\ up.stage \in {"read", "select", "none"}
    BY DEF Init, UpdateInit, PidStarted
  <1>2. client[Updater].at = "idle"
    BY UpdaterAssumption DEF Init, DaemonInit, Idle, Place
  <1>3. plan.program = "update" => todo[Updater] = <<>>
    BY ProgramAssumption DEF Init
  <1>4. AsksAlone
    <2>1. plan.program = "update" => up.stage = "read"
      BY DEF Init, UpdateInit
    <2> QED BY <1>1, <1>2, <1>3, <2>1 DEF AsksAlone, AskingStages
  <1> QED BY <1>1, <1>4 DEF UpdaterInv, StopHeard, ReplacedHasEnded, HasEnded

\* A process that serves does so until it is past that, for good.
LEMMA StagesAdvance ==
    ASSUME DaemonTypeOK, NEW d \in Daemons, [DaemonNext]_dvars
    PROVE  /\ daemon[d] \in Serving \cup Past => daemon'[d] \in Serving \cup Past
           /\ daemon[d] \in Past => daemon'[d] \in Past
           /\ daemon[d] = "gone" => daemon'[d] = "gone"
  <1> USE DEF Serving, Past, Goto, DaemonTypeOK
  <1>1. ASSUME NEW e \in Daemons, DaemonStart(e)
        PROVE  /\ daemon[d] \in Serving \cup Past => daemon'[d] \in Serving \cup Past
               /\ daemon[d] \in Past => daemon'[d] \in Past
               /\ daemon[d] = "gone" => daemon'[d] = "gone"
    BY <1>1 DEF DaemonStart, Bind, Listen, Probe, Reclaim, write_daemon
  <1>2. ASSUME NEW e \in Daemons, DaemonEnd(e) \/ ShutDown(e) \/ Crash(e)
        PROVE  /\ daemon[d] \in Serving \cup Past => daemon'[d] \in Serving \cup Past
               /\ daemon[d] \in Past => daemon'[d] \in Past
               /\ daemon[d] = "gone" => daemon'[d] = "gone"
    BY <1>2 DEF DaemonEnd, LeaveLoop, ShutDown, Unregister, Unlink, CloseListener, Exit, Crash, Ends
  <1>3. ASSUME NEW c \in Clients, spawn_daemon_detached(c)
        PROVE  /\ daemon[d] \in Serving \cup Past => daemon'[d] \in Serving \cup Past
               /\ daemon[d] \in Past => daemon'[d] \in Past
               /\ daemon[d] = "gone" => daemon'[d] = "gone"
    <2>1. (\E e \in Daemons : daemon[e] = "unborn") => daemon[NewPid] = "unborn"
      BY Zenon DEF NewPid
    <2> QED BY <1>3, <2>1 DEF spawn_daemon_detached
  <1>4. ASSUME NEW c \in Clients, \/ Ask(c) \/ try_connect(c) \/ Poll(c) \/ Deadline(c) \/ ReadResponse(c)
                                  \/ Transient(c) \/ ThreadStep(c) \/ Worked(c)
                                  \/ \E e \in Daemons : Accept(e, c)
        PROVE  daemon' = daemon
    BY <1>4 DEF Ask, try_connect, Connected, Refused, Poll, Deadline, ReadResponse, Transient, ThreadStep,
                daemon_stop_response, write_response, Worked, Accept, daemonVars
  <1>5. CASE UNCHANGED dvars
    BY <1>5 DEF dvars, daemonVars
  <1> QED BY <1>1, <1>2, <1>3, <1>4, <1>5 DEF DaemonNext, ClientStep

\* What the daemon and its clients do leaves the program as far as it was: its
\* request is refused only when the process is past its service.
LEMMA UpdaterBeside ==
    ASSUME HolderInv, ListenInv, UpdaterInv, [DaemonNext]_dvars, UNCHANGED <<plan, updateVars>>
    PROVE  UpdaterInv'
  <1>0. /\ DaemonTypeOK /\ Occupied /\ NameLeadsToHolder /\ up' = up /\ plan' = plan
        /\ PidStarted /\ AsksAlone /\ StopHeard /\ ReplacedHasEnded
    BY DEF HolderInv, UpdaterInv, updateVars
  <1>1. PidStarted'
    BY <1>0, StagesAdvance DEF PidStarted
  <1>2. HasEnded(up.pid) => HasEnded(up.pid)'
    BY <1>0, StagesAdvance DEF PidStarted, HasEnded
  <1>3. platform' = platform
    BY PlatformStays DEF dvars, daemonVars
  <1>4. ReplacedHasEnded'
    BY <1>0, <1>2, <1>3 DEF ReplacedHasEnded, Replacing, AtStage, NameOutlivesProcess
  <1>5. CASE plan.program # "update"
    BY <1>0, <1>1, <1>4, <1>5 DEF UpdaterInv, AsksAlone, StopHeard
  <1>6. CASE plan.program = "update"
    <2> DEFINE U == Updater
    <2>0. U \in Clients /\ \A r \in AskRequests : Head(r).how = "existing" /\ Tail(r) = <<>> /\ r # <<>>
      BY UpdaterAssumption DEF AskRequests, AskFor
    <2>1. CASE client'[U] = client[U] /\ todo'[U] = todo[U]
               /\ (thread[U] = "none" => thread'[U] = "none")
      BY <1>0, <1>1, <1>2, <1>3, <1>4, <2>1 DEF UpdaterInv, AsksAlone, StopHeard, NameOutlivesProcess, Answered
    <2>2. CASE \E d \in Daemons : DaemonStart(d) \/ DaemonEnd(d) \/ ShutDown(d) \/ Crash(d)
      <3>1. UNCHANGED <<client, todo>>
        BY <2>2 DEF DaemonStart, Bind, Listen, Probe, Reclaim, write_daemon, DaemonEnd, LeaveLoop, Unregister,
                    Unlink, CloseListener, Closes, Exit, Crash, Ends, ShutDown, clientVars
      <3>2. thread[U] = "none" => thread'[U] = "none"
        BY <2>0, <2>2 DEF DaemonStart, Bind, Listen, Probe, Reclaim, write_daemon, DaemonEnd, LeaveLoop, Unregister,
                          Unlink, CloseListener, Closes, Exit, Crash, Ends, ShutDown, clientVars
      <3> QED BY <2>1, <3>1, <3>2
    <2>3. CASE UNCHANGED dvars
      BY <2>1, <2>3 DEF dvars, clientVars
    <2>4. ASSUME NEW c \in Clients, c # U,
                 Ask(c) \/ ClientStep(c) \/ ThreadStep(c) \/ Worked(c) \/ \E d \in Daemons : Accept(d, c)
          PROVE  UpdaterInv'
      <3>1. client'[U] = client[U] /\ todo'[U] = todo[U] /\ thread'[U] = thread[U]
        BY <1>0, <2>0, <2>4
           DEF DaemonTypeOK, Ask, ClientStep, try_connect, Connected, Refused, spawn_daemon_detached, Poll, Deadline,
               ReadResponse, Transient, ThreadStep, daemon_stop_response, write_response, Worked, Accept, To, Finish
      <3> QED BY <2>1, <3>1
    <2>5. CASE ThreadStep(U) \/ Worked(U) \/ \E d \in Daemons : Accept(d, U)
      <3>1. client' = client /\ todo' = todo /\ thread[U] # "none"
        BY <2>5 DEF ThreadStep, daemon_stop_response, write_response, Worked, Accept
      <3> QED BY <2>1, <3>1
    <2>6. ASSUME client[U].at # "idle"
          PROVE  todo[U] \in AskRequests /\ Request(U).how = "existing" /\ Tail(todo[U]) = <<>>
                 /\ up.stage \in AskingStages
      BY <1>0, <1>6, <2>0, <2>6 DEF Occupied, AsksAlone, Request
    <2>7. CASE Ask(U)
      <3>1. todo[U] \in AskRequests /\ up.stage \in AskingStages /\ Request(U).how = "existing"
        BY <1>0, <1>6, <2>0, <2>7 DEF Ask, AsksAlone, Request
      <3>2. client'[U] = Place("connect", 1, None, FALSE) /\ todo' = todo /\ thread' = thread
        BY <1>0, <2>0, <2>7, <3>1 DEF Ask, To, DaemonTypeOK
      <3>3. thread[U] = "none"
        BY <1>0, <2>0, <2>7 DEF Ask, Occupied
      <3> QED BY <1>0, <1>1, <1>4, <3>1, <3>2, <3>3 DEF Place, UpdaterInv, AsksAlone, StopHeard, Answered
    <2>8. ASSUME NEW ok \in BOOLEAN, client[U].at # "idle", Finish(U, ok), thread'[U] = "none",
                 ~ok /\ up.stage = "stopping" /\ ~NameOutlivesProcess => HasEnded(up.pid)
          PROVE  UpdaterInv'
      <3>1. client'[U] = Place("idle", 1, None, ok) /\ todo'[U] = <<>>
        BY <1>0, <2>0, <2>6, <2>8 DEF Finish, DaemonTypeOK
      <3> QED BY <1>0, <1>1, <1>2, <1>3, <1>4, <2>6, <2>8, <3>1
              DEF Place, UpdaterInv, AsksAlone, StopHeard, NameOutlivesProcess
    <2>9. ASSUME ~NameOutlivesProcess, ~HasEnded(up.pid)
          PROVE  up.pid \in Daemons /\ up.pid \in listening /\ socket = up.pid
      <3>1. up.pid \in Daemons /\ daemon[up.pid] \in Serving
        BY <1>0, <2>9 DEF PidStarted, HasEnded
      <3> QED BY <1>0, <2>9, <3>1 DEF ListenInv, ListenersServe, NameLeadsToHolder, Holding, Serving
    <2>10. CASE try_connect(U)
      <3>1. CASE Connected(U)
        <4>1. client'[U] = Place("sent", client[U].try, socket, FALSE) /\ todo' = todo
          BY <1>0, <2>0, <3>1 DEF Connected, DaemonTypeOK
        <4> QED BY <1>0, <1>1, <1>2, <1>3, <1>4, <2>6, <2>9, <2>10, <4>1
                DEF try_connect, Place, UpdaterInv, AsksAlone, StopHeard, Answered, NameOutlivesProcess
      <3>2. CASE Refused(U)
        <4>1. Finish(U, FALSE) /\ thread[U] = "none" /\ thread' = thread /\ client[U].at = "connect"
          BY <1>0, <2>0, <2>6, <2>10, <3>2 DEF try_connect, Refused, Occupied
        <4> QED BY <2>8, <2>9, <3>2, <4>1 DEF Refused, Reachable
      <3> QED BY <2>10, <3>1, <3>2 DEF try_connect
    <2>11. CASE spawn_daemon_detached(U) \/ Poll(U) \/ Deadline(U)
      BY <1>0, <1>6, <2>11 DEF spawn_daemon_detached, Poll, Deadline, AsksAlone
    <2>12. CASE ReadResponse(U)
      BY <1>0, <2>0, <2>8, <2>12 DEF ReadResponse, Occupied, DaemonTypeOK
    <2>13. CASE Transient(U)
      <3>0. client[U].at = "sent" /\ client[U].peer \in Daemons /\ daemon[client[U].peer] \in Past
            /\ thread'[U] = "none"
        BY <1>0, <2>0, <2>13 DEF Transient, Occupied, DaemonTypeOK, ListenInv, ConnectionsServed
      <3>1. CASE To(U, "connect", 2)
        <4>1. client'[U] = Place("connect", 2, None, FALSE) /\ todo' = todo
          BY <1>0, <2>0, <3>1 DEF To, DaemonTypeOK
        <4> QED BY <1>0, <1>1, <1>4, <2>6, <3>0, <4>1 DEF Place, UpdaterInv, AsksAlone, StopHeard, Answered
      <3>2. CASE Finish(U, FALSE)
        <4>1. up.stage = "stopping" /\ ~NameOutlivesProcess => HasEnded(up.pid)
          BY <1>0, <1>6, <2>13, <3>0 DEF StopHeard, HasEnded, Transient
        <4> QED BY <2>8, <3>0, <3>2, <4>1
      <3> QED BY <2>6, <2>13, <3>0, <3>1, <3>2 DEF Transient
    <2> QED BY <2>2, <2>3, <2>4, <2>5, <2>7, <2>10, <2>11, <2>12, <2>13 DEF DaemonNext, ClientStep
  <1> QED BY <1>5, <1>6

\* What the program does itself: it goes on only when the process has ended.
LEMMA UpdaterOwn ==
    ASSUME HolderInv, ListenInv, UpdaterAloof, UpdaterInv, UpdaterStep \/ Publish
    PROVE  UpdaterInv' /\ ListenInv'
  <1>0. /\ DaemonTypeOK /\ Occupied /\ NameLeadsToHolder
        /\ PidStarted /\ AsksAlone /\ StopHeard /\ ReplacedHasEnded
    BY DEF HolderInv, UpdaterInv
  <1>1. plan' = plan /\ UpdaterAloof' /\ (plan.program = "update" \/ UNCHANGED dvars)
    BY UpdaterLeaves
  <1>2. ASSUME UNCHANGED <<platform, daemon, listening, client, thread>>, registered' \in {None, registered}
        PROVE  ListenInv'
    BY <1>2 DEF ListenInv, ListenersServe, ConnectionsServed, EntryStarted
  <1>3. ASSUME UNCHANGED <<platform, daemon, socket, listening, client, thread, todo>>,
               registered' \in {None, registered}, {"stage", "pid"} \subseteq DOMAIN up', up'.pid = up.pid,
               up.stage \in AskingStages => Answered \/ up'.stage \in AskingStages,
               up'.stage \notin {"stopping", "select"},
               (Replacing \/ up.stage = "unregister")' =>
                   \/ Replacing \/ up.stage = "unregister"
                   \/ HasEnded(up.pid)
                   \/ up.stage = "stopping" /\ Answered /\ ~client[Updater].ok
        PROVE  UpdaterInv' /\ ListenInv'
    <2>1. PidStarted' /\ AsksAlone'
      BY <1>0, <1>1, <1>3 DEF PidStarted, AsksAlone, Answered
    <2>2. StopHeard'
      BY <1>0, <1>1, <1>3 DEF StopHeard, Answered, HasEnded, NameOutlivesProcess
    <2>3. ReplacedHasEnded'
      BY <1>0, <1>1, <1>3 DEF StopHeard, ReplacedHasEnded, HasEnded, NameOutlivesProcess
    <2> QED BY <1>2, <1>3, <2>1, <2>2, <2>3 DEF UpdaterInv
  <1>a. AskFor("DaemonStop") \in Requests /\ AskFor("DaemonStatus") \in Requests /\ Updater \in Clients
    BY UpdaterAssumption
  <1>4. CASE AsksDaemon
    <2>1. plan.program = "update" /\ todo[Updater] = <<>> /\ up.stage \notin AskingStages
      BY <1>0, <1>4 DEF AsksDaemon, AtStage, AskingStages, AsksAlone, UpdaterAloof, Aloof
    <2>2. client[Updater].at = "idle" /\ thread[Updater] = "none"
      BY <1>0, <1>a, <2>1 DEF Occupied
    <2>3. /\ todo'[Updater] \in AskRequests /\ todo'[Updater] # <<>>
          /\ UNCHANGED <<platform, daemon, socket, listening, registered, client, thread>>
      <3>1. PICK op \in {"DaemonStop", "DaemonStatus"} : SendTo(op)
        BY <1>4 DEF AsksDaemon
      <3>2. todo'[Updater] = <<AskFor(op)>>
        BY <1>0, <1>a, <3>1 DEF SendTo, DaemonTypeOK
      <3>3. <<AskFor(op)>> \in AskRequests /\ <<AskFor(op)>> # <<>>
        BY DEF AskRequests
      <3> QED BY <3>1, <3>2, <3>3 DEF SendTo, daemonVars
    <2>4. up' = [up EXCEPT !.stage = up'.stage] /\ up'.stage \in AskingStages
      BY <1>0, <1>4 DEF AsksDaemon, Enter, AskingStages, PidStarted
    <2>5. PidStarted' /\ AsksAlone'
      BY <1>0, <1>1, <2>2, <2>3, <2>4 DEF PidStarted, AsksAlone, AskingStages
    <2>6. StopHeard' /\ ReplacedHasEnded'
      BY <1>0, <2>2, <2>3, <2>4 DEF PidStarted, StopHeard, Answered, ReplacedHasEnded, Replacing, AskingStages
    <2> QED BY <1>2, <2>3, <2>5, <2>6 DEF UpdaterInv
  <1>5. CASE KillsVictim
    <2>1. Victim \in Daemons
      BY <1>0, <1>5 DEF KillsVictim, Victim, PidStarted, DaemonTypeOK
    <2>2. ListenInv'
      BY <1>0, <1>5, <2>1, ListenEnds DEF KillsVictim
    <2>3. up'.pid = Victim /\ up'.stage = "await death" /\ {"stage", "pid"} \subseteq DOMAIN up'
      BY <1>0, <1>5 DEF KillsVictim, PidStarted
    <2>4. daemon'[Victim] = "gone" /\ client' = client /\ todo' = todo
      BY <1>0, <1>5, <2>1 DEF KillsVictim, Ends, Goto, DaemonTypeOK
    <2>5. up.stage \notin AskingStages
      BY <1>5 DEF KillsVictim, AtStage, AskingStages
    <2> QED BY <1>0, <1>1, <2>1, <2>2, <2>3, <2>4, <2>5
            DEF UpdaterInv, PidStarted, Past, AsksAlone, StopHeard, ReplacedHasEnded, Replacing
  <1> USE DEF AtStage, Enter, Failed, PidStarted, AskingStages, Replacing
  <1>6. CASE stop_daemon_before_update /\ ~AsksDaemon
    <2>1. UNCHANGED <<platform, daemon, socket, listening, client, thread, todo>> /\ registered' \in {None, registered}
      BY <1>6 DEF stop_daemon_before_update, AsksDaemon, clientVars
    <2> QED BY <1>0, <1>3, <1>6, <2>1 DEF stop_daemon_before_update, AsksDaemon
  <1>7. CASE wait_for_daemon_exit /\ ~AsksDaemon
    <2>1. UNCHANGED dvars
      BY <1>7 DEF wait_for_daemon_exit, AsksDaemon
    <2> QED BY <1>0, <1>3, <1>7, <2>1
            DEF wait_for_daemon_exit, AsksDaemon, ProcessIsAlive, Alive, HasEnded, Serving, Past, dvars,
                daemonVars, clientVars
  <1>8. CASE stop_process /\ ~KillsVictim
    <2>1. UNCHANGED dvars
      BY <1>8 DEF stop_process, KillsVictim
    <2>2. UNCHANGED <<platform, daemon, socket, listening, registered, client, thread, todo>>
      BY <2>1 DEF dvars, daemonVars, clientVars
    <2>3. CASE up' = Failed(up)
      BY <1>0, <1>3, <1>8, <2>2, <2>3 DEF stop_process
    <2>4. CASE Victim # None /\ up' = [up EXCEPT !.stage = "await death", !.pid = Victim] /\ AtStage("kill")
      <3>1. PidStarted'
        BY <1>0, <2>2, <2>4 DEF Victim, ListenInv, EntryStarted, DaemonTypeOK
      <3> QED BY <1>0, <1>1, <1>2, <2>2, <2>4, <3>1 DEF UpdaterInv, AsksAlone, StopHeard, ReplacedHasEnded
    <2> QED BY <1>8, <2>3, <2>4 DEF stop_process, KillsVictim
  <1>9. CASE remove_daemon
    BY <1>0, <1>3, <1>9 DEF remove_daemon, clientVars
  <1>10. CASE run_update
    <2>2. UNCHANGED <<platform, daemon, socket, listening, registered, client, thread, todo>>
      BY <1>10 DEF run_update, dvars, daemonVars, clientVars
    <2>3. up'.pid = registered /\ up'.stage = "stop" /\ up.stage = "read" /\ {"stage", "pid"} \subseteq DOMAIN up'
      BY <1>0, <1>10 DEF run_update
    <2>4. PidStarted'
      BY <1>0, <2>2, <2>3 DEF ListenInv, EntryStarted, DaemonTypeOK
    <2> QED BY <1>0, <1>1, <1>2, <2>2, <2>3, <2>4 DEF UpdaterInv, AsksAlone, StopHeard, ReplacedHasEnded
  <1>11. CASE run_setup
    <2>1. plan.program # "update" /\ UNCHANGED dvars
      BY <1>0, <1>11 DEF run_setup, AsksAlone
    <2>2. UNCHANGED <<platform, daemon, socket, listening, registered, client, thread, todo>>
      BY <2>1 DEF dvars, daemonVars, clientVars
    <2>3. PidStarted'
      BY <1>0, <1>11, <2>2 DEF run_setup
    <2> QED BY <1>1, <1>2, <2>1, <2>2, <2>3 DEF UpdaterInv, AsksAlone, StopHeard, ReplacedHasEnded
  <1>12. CASE \/ ensure_jdi_sidecar_available \/ remove_target \/ install_target \/ move_self_aside
              \/ install_command \/ download_archive \/ verify_archive_checksum \/ install_sidecar_file
              \/ Publish
    <2>1. UNCHANGED dvars
      BY <1>12 DEF ensure_jdi_sidecar_available, remove_target, install_target, move_self_aside,
                   install_command, download_archive, verify_archive_checksum, Step, install_sidecar_file, Publish
    <2>2. UNCHANGED <<platform, daemon, socket, listening, registered, client, thread, todo>>
      BY <2>1 DEF dvars, daemonVars, clientVars
    <2>3. CASE ensure_jdi_sidecar_available \/ remove_target \/ install_target \/ move_self_aside
      BY <1>0, <1>3, <2>2, <2>3 DEF ensure_jdi_sidecar_available, remove_target, install_target, move_self_aside,
                                    AfterRemoval
    <2>4. CASE install_command \/ download_archive \/ verify_archive_checksum \/ install_sidecar_file
      BY <1>0, <1>3, <2>2, <2>4 DEF install_command, download_archive, verify_archive_checksum, Step,
                                    install_sidecar_file
    <2>5. CASE Publish
      BY <1>0, <1>3, <2>2, <2>5 DEF Publish
    <2> QED BY <1>12, <2>3, <2>4, <2>5
  <1> QED BY <1>4, <1>5, <1>6, <1>7, <1>8, <1>9, <1>10, <1>11, <1>12 DEF UpdaterStep

ProgramInv == SystemInv /\ ListenInv /\ UpdaterInv

LEMMA ProgramInvariance == Spec => []ProgramInv
  <1>1. Init => ListenInv /\ UpdaterInv
    BY ListenInit, UpdaterInvInit DEF Init
  <1>2. SystemInv /\ ListenInv /\ UpdaterInv /\ [Next]_vars => (ListenInv /\ UpdaterInv)'
    BY OthersMove, ListenDaemonStep, UpdaterBeside, UpdaterOwn DEF SystemInv
  <1> QED BY <1>1, <1>2, SystemInvariance, PTL DEF Spec, ProgramInv

\* The process that served when `jdbg update` began has ended its sessions,
\* removed its entry and closed its listener before anything is removed or
\* replaced, whoever else stops, kills or starts daemons: a stop that is refused
\* or cut off is one that met a process at that point.
THEOREM OldDaemonPastServiceHolds == Spec => []OldDaemonPastService
  <1>1. ProgramInv => OldDaemonPastService
    BY DEF ProgramInv, UpdaterInv, ReplacedHasEnded, HasEnded, Past, OldDaemonPastService
  <1> QED BY <1>1, ProgramInvariance, PTL

-----------------------------------------------------------------------------
(* The files of the agents: what the functions of AgentConfig leave of them. *)

KeysKept(old, new) ==
    /\ JsonFile(old) => JsonFile(new)
    /\ JsonFile(old) /\ Regular(old) => Regular(new) /\ UserKeys \cap old.has \subseteq new.has
TablesKept(old, new) ==
    /\ TomlFile(old) => TomlFile(new)
    /\ TomlFile(old) /\ old # <<"unreadable">> /\ ~ArrayBehindBlock(old) =>
         new # <<"unreadable">> /\ ~ArrayBehindBlock(new) /\ SameTables(new, old)

LEMMA JsonInstalled ==
    ASSUME NEW file
    PROVE  /\ KeysKept(file, apply_mcp_install(read_json(file)))
           /\ KeysKept(file, apply_opencode_mcp_install(read_json(file)))
           /\ KeysKept(file, apply_perm_install(read_json(file)))
  <1> USE DEF KeysKept, JsonFile, Regular, UserKeys, read_json, Object, Json, Keys
  <1>1. KeysKept(file, apply_mcp_install(read_json(file)))
    BY DEF apply_mcp_install
  <1>2. KeysKept(file, apply_opencode_mcp_install(read_json(file)))
    BY DEF apply_opencode_mcp_install
  <1>3. KeysKept(file, apply_perm_install(read_json(file)))
    BY DEF apply_perm_install
  <1> QED BY <1>1, <1>2, <1>3

LEMMA JsonRemoved ==
    ASSUME NEW file
    PROVE  /\ KeysKept(file, apply_mcp_remove(file))
           /\ KeysKept(file, apply_perm_remove(file))
           /\ HasServer(file) /\ apply_opencode_mcp_remove(file).has = {} => KeysKept(file, NoFile)
  <1> USE DEF KeysKept, JsonFile, Regular, UserKeys, Object, Json, Keys
  <1>1. KeysKept(file, apply_mcp_remove(file))
    BY DEF apply_mcp_remove, HasServer
  <1>2. KeysKept(file, apply_perm_remove(file))
    BY DEF apply_perm_remove
  <1>3. HasServer(file) /\ apply_opencode_mcp_remove(file).has = {} => KeysKept(file, NoFile)
    BY DEF apply_opencode_mcp_remove, apply_mcp_remove, HasServer, NoFile
  <1> QED BY <1>1, <1>2, <1>3

-----------------------------------------------------------------------------
(* Codex's file is a sequence of tables. *)

TomlTags == {"top", "table", "array", "jdbg", "jdbg edited"}

\* A set of naturals that has a member has a least one.
LEMMA LeastIndex ==
    ASSUME NEW T \in SUBSET Nat, T # {}
    PROVE  \E x \in T : \A y \in T : x <= y
  <1> DEFINE Below == {pair \in Nat \X Nat : pair[1] < pair[2]}
  <1>1. IsWellFoundedOn(Below, Nat)
    BY NatLessThanWellFounded, Zenon DEF OpToRel
  <1> HIDE DEF Below
  <1>2. PICK x \in T : \A y \in T : <<y, x>> \notin Below
    BY <1>1, WFMin
  <1>3. \A y \in T : ~ (y < x)
    BY <1>2 DEF Below
  <1> QED BY <1>3

LEMMA LeastOf ==
    ASSUME NEW T \in SUBSET Nat, T # {}
    PROVE  Min(T) \in T /\ \A y \in T : Min(T) <= y
  <1>1. PICK x \in T : \A y \in T : x <= y
    BY LeastIndex
  <1> QED BY <1>1, Zenon DEF Min

\* What is taken for the header of jdbg's block is one, and none is passed over.
LEMMA HeaderFound ==
    ASSUME NEW toml \in Seq(TomlTags), NEW start, start = find_toml_header(toml)
    PROVE  \/ start = 0 /\ \A i \in 1 .. Len(toml) : ~IsBlock(toml[i])
           \/ /\ start \in 1 .. Len(toml) /\ IsBlock(toml[start])
              /\ \A i \in 1 .. start - 1 : ~IsBlock(toml[i])
  <1> DEFINE blocks == {i \in 1 .. Len(toml) : IsBlock(toml[i])}
  <1>1. start = IF blocks # {} THEN Min(blocks) ELSE 0
    BY Zenon DEF find_toml_header, SelectInSeq
  <1>2. blocks \in SUBSET Nat
    BY LenProperties
  <1>3. CASE blocks = {}
    BY <1>1, <1>3
  <1>4. CASE blocks # {}
    <2>1. start \in blocks /\ \A i \in blocks : start <= i
      BY <1>1, <1>2, <1>4, LeastOf
    <2>2. \A i \in 1 .. start - 1 : i \in 1 .. Len(toml) /\ ~(start <= i)
      BY <1>2, <2>1, LenProperties
    <2> QED BY <2>1, <2>2
  <1> QED BY <1>3, <1>4

LEMMA HasHeader ==
    ASSUME NEW toml \in Seq(TomlTags), NEW i \in 1 .. Len(toml), IsBlock(toml[i])
    PROVE  find_toml_header(toml) # 0
  BY HeaderFound

\* The block ends after its header, and where no array of tables follows, at once.
LEMMA BlockEnds ==
    ASSUME NEW toml \in Seq(TomlTags), NEW start \in 1 .. Len(toml), IsBlock(toml[start]),
           NEW end, end = find_next_toml_table(toml, start + 1)
    PROVE  /\ end \in (start + 1) .. (Len(toml) + 1)
           /\ ~ArrayBehindBlock(toml) => end = start + 1
  <1> DEFINE after == {i \in (start + 1) .. Len(toml) : toml[i] # "array"}
             next == IF after # {} THEN Min(after) ELSE 0
  <1>1. end = IF next = 0 THEN Len(toml) + 1 ELSE next
    BY Zenon DEF find_next_toml_table, SelectInSubSeq
  <1>2. Len(toml) \in Nat
    BY LenProperties
  <1>3. ~ArrayBehindBlock(toml) => start = Len(toml) \/ start + 1 \in after
    <2>1. CASE start = Len(toml)
      BY <2>1
    <2>2. CASE start # Len(toml)
      <3>1. start \in 1 .. Len(toml) - 1 /\ start + 1 \in (start + 1) .. Len(toml)
        BY <1>2, <2>2
      <3> QED BY <3>1 DEF ArrayBehindBlock
    <2> QED BY <2>1, <2>2
  <1>4. after \in SUBSET Nat /\ after \subseteq (start + 1) .. Len(toml)
    BY <1>2
  <1>5. CASE after = {}
    <2>1. next = 0
      BY <1>5
    <2>2. ~ArrayBehindBlock(toml) => start = Len(toml)
      BY <1>3, <1>5
    <2> QED BY <1>1, <1>2, <2>1, <2>2
  <1>6. CASE after # {}
    <2>1. next \in after /\ \A y \in after : next <= y
      BY <1>4, <1>6, LeastOf
    <2> HIDE DEF next
    <2>2. next \in (start + 1) .. Len(toml)
      BY <1>4, <2>1
    <2>3. ~ArrayBehindBlock(toml) => next = start + 1
      BY <1>2, <1>3, <2>1, <2>2
    <2> QED BY <1>1, <1>2, <2>2, <2>3
  <1> QED BY <1>5, <1>6

\* A file without tables: it is not there, or cannot be read.
Untabled == {<<"absent">>, <<"unreadable">>}

LEMMA UntabledIs ==
    ASSUME NEW toml \in Untabled
    PROVE  Len(toml) = 1 /\ toml[1] \in {"absent", "unreadable"}
  <1>1. CASE toml = <<"absent">>
    BY <1>1
  <1>2. CASE toml = <<"unreadable">>
    BY <1>2
  <1> QED BY <1>1, <1>2 DEF Untabled

LEMMA TablesOf == /\ \A toml \in Seq(TomlTags) : Tables(toml) = toml /\ toml \notin Untabled
                  /\ \A toml \in Untabled : Tables(toml) = <<>> /\ ~ArrayBehindBlock(toml)
  <1>1. ASSUME NEW toml \in Seq(TomlTags) PROVE toml \notin Untabled
    <2>1. SUFFICES ASSUME toml \in Untabled PROVE FALSE
      OBVIOUS
    <2>2. 1 \in 1 .. Len(toml) /\ toml[1] \in {"absent", "unreadable"}
      BY <2>1, UntabledIs
    <2>3. toml[1] \in TomlTags
      BY <2>2, ElementOfSeq
    <2> QED BY <2>2, <2>3 DEF TomlTags
  <1>2. ASSUME NEW toml \in Untabled PROVE ~ArrayBehindBlock(toml)
    <2>1. Len(toml) = 1
      BY <1>2, UntabledIs
    <2>2. \A i \in 1 .. Len(toml) - 1 : FALSE
      BY <2>1
    <2> QED BY <2>2 DEF ArrayBehindBlock
  <1> QED BY <1>1, <1>2 DEF Tables, Untabled

LEMMA SameItself == ASSUME NEW toml PROVE SameTables(toml, toml)
  <1> DEFINE at == [i \in UserAt(toml) |-> i]
  <1>1. at \in [UserAt(toml) -> UserAt(toml)]
    OBVIOUS
  <1> QED BY <1>1 DEF SameTables

LEMMA SameTransitive ==
    ASSUME NEW a, NEW b, NEW c, SameTables(b, a), SameTables(c, b)
    PROVE  SameTables(c, a)
  <1>1. PICK f \in [UserAt(a) -> UserAt(b)] :
          /\ \A i, j \in UserAt(a) : i < j => f[i] < f[j]
          /\ \A k \in UserAt(b) : \E i \in UserAt(a) : f[i] = k
          /\ \A i \in UserAt(a) : Tables(b)[f[i]] = Tables(a)[i]
    BY DEF SameTables
  <1>2. PICK g \in [UserAt(b) -> UserAt(c)] :
          /\ \A i, j \in UserAt(b) : i < j => g[i] < g[j]
          /\ \A k \in UserAt(c) : \E i \in UserAt(b) : g[i] = k
          /\ \A i \in UserAt(b) : Tables(c)[g[i]] = Tables(b)[i]
    BY DEF SameTables
  <1> DEFINE at == [i \in UserAt(a) |-> g[f[i]]]
  <1>3. at \in [UserAt(a) -> UserAt(c)]
    BY <1>1, <1>2
  <1>4. \A i, j \in UserAt(a) : i < j => at[i] < at[j]
    BY <1>1, <1>2
  <1>5. \A k \in UserAt(c) : \E i \in UserAt(a) : at[i] = k
    BY <1>1, <1>2
  <1>6. \A i \in UserAt(a) : Tables(c)[at[i]] = Tables(a)[i]
    BY <1>1, <1>2
  <1> QED BY <1>3, <1>4, <1>5, <1>6 DEF SameTables

\* A block is appended to a file, or replaced in its place.
LEMMA SameInPlace ==
    ASSUME NEW old, NEW new, Tables(old) \in Seq(TomlTags), Tables(new) \in Seq(TomlTags),
           \A i \in 1 .. Len(Tables(new)) : \/ i \in 1 .. Len(Tables(old)) /\ Tables(new)[i] = Tables(old)[i]
                                           \/ /\ IsBlock(Tables(new)[i])
                                              /\ i \in 1 .. Len(Tables(old)) => IsBlock(Tables(old)[i]),
           Len(Tables(old)) <= Len(Tables(new))
    PROVE  SameTables(new, old)
  <1> DEFINE at == [i \in UserAt(old) |-> i]
  <1>1. /\ DOMAIN Tables(old) = 1 .. Len(Tables(old)) /\ Len(Tables(old)) \in Nat
        /\ DOMAIN Tables(new) = 1 .. Len(Tables(new)) /\ Len(Tables(new)) \in Nat
    BY LenProperties
  <1>2. UserAt(old) = UserAt(new)
    BY <1>1 DEF UserAt
  <1>3. at \in [UserAt(old) -> UserAt(new)]
    BY <1>2
  <1>4. \A i \in UserAt(old) : Tables(new)[i] = Tables(old)[i]
    BY <1>1, <1>2 DEF UserAt
  <1> QED BY <1>2, <1>3, <1>4 DEF SameTables

\* A block is taken out of a file.
LEMMA SameWithout ==
    ASSUME NEW old, NEW new, Tables(old) \in Seq(TomlTags), Tables(new) \in Seq(TomlTags),
           NEW start \in 1 .. Len(Tables(old)), IsBlock(Tables(old)[start]),
           Len(Tables(new)) = Len(Tables(old)) - 1,
           \A i \in 1 .. Len(Tables(new)) :
             Tables(new)[i] = IF i < start THEN Tables(old)[i] ELSE Tables(old)[i + 1]
    PROVE  SameTables(new, old)
  <1> DEFINE at == [i \in UserAt(old) |-> IF i < start THEN i ELSE i - 1]
  <1>1. /\ DOMAIN Tables(old) = 1 .. Len(Tables(old)) /\ Len(Tables(old)) \in Nat
        /\ DOMAIN Tables(new) = 1 .. Len(Tables(new)) /\ Len(Tables(new)) \in Nat
    BY LenProperties
  <1>2. ASSUME NEW i \in UserAt(old)
        PROVE  /\ i \in 1 .. Len(Tables(old)) /\ i # start
               /\ at[i] \in 1 .. Len(Tables(new))
               /\ Tables(new)[at[i]] = Tables(old)[i]
               /\ at[i] \in UserAt(new)
    <2>1. i \in 1 .. Len(Tables(old)) /\ i # start /\ ~IsBlock(Tables(old)[i])
      BY <1>1 DEF UserAt
    <2>2. at[i] \in 1 .. Len(Tables(new)) /\ Tables(new)[at[i]] = Tables(old)[i]
      BY <1>1, <2>1
    <2> QED BY <1>1, <2>1, <2>2 DEF UserAt
  <1>3. at \in [UserAt(old) -> UserAt(new)]
    BY <1>2
  <1>4. \A i, j \in UserAt(old) : i < j => at[i] < at[j]
    BY <1>1, <1>2
  <1>5. ASSUME NEW k \in UserAt(new) PROVE \E i \in UserAt(old) : at[i] = k
    <2>1. k \in 1 .. Len(Tables(new)) /\ ~IsBlock(Tables(new)[k])
      BY <1>1 DEF UserAt
    <2> DEFINE i == IF k < start THEN k ELSE k + 1
    <2>2. i \in 1 .. Len(Tables(old)) /\ Tables(old)[i] = Tables(new)[k] /\ i # start
      BY <1>1, <2>1
    <2>3. i \in UserAt(old)
      BY <1>1, <2>1, <2>2 DEF UserAt
    <2>4. at[i] = k
      BY <1>1, <2>1, <2>3
    <2> QED BY <2>3, <2>4
  <1> HIDE DEF at
  <1> QED BY <1>2, <1>3, <1>4, <1>5 DEF SameTables

LEMMA OneMember == ASSUME NEW S, NEW x \in S PROVE <<x>> \in Seq(S)
  OBVIOUS

\* What is in three sequences put together.
LEMMA ThreeParts ==
    ASSUME NEW S, NEW before \in Seq(S), NEW middle \in Seq(S), NEW after \in Seq(S)
    PROVE  /\ before \o middle \o after \in Seq(S)
           /\ Len(before \o middle \o after) = Len(before) + Len(middle) + Len(after)
           /\ \A i \in 1 .. Len(before) : (before \o middle \o after)[i] = before[i]
           /\ \A i \in Len(before) + 1 .. Len(before) + Len(middle) :
                (before \o middle \o after)[i] = middle[i - Len(before)]
           /\ \A i \in Len(before) + Len(middle) + 1 .. Len(before) + Len(middle) + Len(after) :
                (before \o middle \o after)[i] = after[i - Len(before) - Len(middle)]
  <1>1. Len(before) \in Nat /\ Len(middle) \in Nat /\ Len(after) \in Nat
    BY LenProperties
  <1>2. PICK half : half = before \o middle
    OBVIOUS
  <1>3. PICK all : all = half \o after
    OBVIOUS
  <1>4. /\ half \in Seq(S) /\ Len(half) = Len(before) + Len(middle)
        /\ \A i \in 1 .. Len(before) + Len(middle) :
             half[i] = IF i <= Len(before) THEN before[i] ELSE middle[i - Len(before)]
    BY <1>2, ConcatProperties
  <1>5. half \in Seq(S)
    BY <1>4
  <1>6. /\ all \in Seq(S) /\ Len(all) = Len(half) + Len(after)
        /\ \A i \in 1 .. Len(half) + Len(after) :
             all[i] = IF i <= Len(half) THEN half[i] ELSE after[i - Len(half)]
    BY <1>3, <1>5, ConcatProperties
  <1>7. /\ \A i \in 1 .. Len(before) : all[i] = before[i]
        /\ \A i \in Len(before) + 1 .. Len(before) + Len(middle) : all[i] = middle[i - Len(before)]
        /\ \A i \in Len(before) + Len(middle) + 1 .. Len(before) + Len(middle) + Len(after) :
             all[i] = after[i - Len(before) - Len(middle)]
    BY <1>1, <1>4, <1>6
  <1>8. all \in Seq(S) /\ Len(all) = Len(before) + Len(middle) + Len(after)
    BY <1>1, <1>4, <1>6
  <1>9. all = before \o middle \o after
    BY <1>2, <1>3
  <1> QED BY <1>7, <1>8, <1>9

\* What is before and what is after a block.
LEMMA PartsOf ==
    ASSUME NEW toml \in Seq(TomlTags), NEW start \in 1 .. Len(toml), NEW end \in (start + 1) .. (Len(toml) + 1)
    PROVE  /\ SubSeq(toml, 1, start - 1) \in Seq(TomlTags) /\ Len(SubSeq(toml, 1, start - 1)) = start - 1
           /\ \A i \in 1 .. start - 1 : SubSeq(toml, 1, start - 1)[i] = toml[i]
           /\ SubSeq(toml, end, Len(toml)) \in Seq(TomlTags)
           /\ Len(SubSeq(toml, end, Len(toml))) = Len(toml) + 1 - end
           /\ \A i \in 1 .. Len(toml) + 1 - end : SubSeq(toml, end, Len(toml))[i] = toml[i + end - 1]
  <1>1. Len(toml) \in Nat /\ \A i \in 1 .. Len(toml) : toml[i] \in TomlTags
    BY LenProperties, ElementOfSeq
  <1>2. /\ SubSeq(toml, 1, start - 1) \in Seq(TomlTags) /\ Len(SubSeq(toml, 1, start - 1)) = start - 1
        /\ \A i \in 1 .. start - 1 : SubSeq(toml, 1, start - 1)[i] = toml[i]
    <2> DEFINE before == SubSeq(toml, 1, start - 1)
    <2>1. 1 \in Int /\ start - 1 \in Int /\ \A i \in 1 .. start - 1 : toml[i] \in TomlTags
      BY <1>1
    <2>2. /\ before \in Seq(TomlTags) /\ Len(before) = IF 1 <= start - 1 THEN start - 1 - 1 + 1 ELSE 0
          /\ \A i \in 1 .. start - 1 - 1 + 1 : before[i] = toml[1 + i - 1]
      BY <2>1, SubSeqProperties
    <2> HIDE DEF before
    <2>3. /\ before \in Seq(TomlTags) /\ Len(before) = start - 1
          /\ \A i \in 1 .. start - 1 : before[i] = toml[i]
      BY <1>1, <2>2
    <2> QED BY <2>3 DEF before
  <1>3. /\ SubSeq(toml, end, Len(toml)) \in Seq(TomlTags)
        /\ Len(SubSeq(toml, end, Len(toml))) = Len(toml) + 1 - end
        /\ \A i \in 1 .. Len(toml) + 1 - end : SubSeq(toml, end, Len(toml))[i] = toml[i + end - 1]
    <2> DEFINE after == SubSeq(toml, end, Len(toml))
    <2>1. end \in Int /\ Len(toml) \in Int /\ \A i \in end .. Len(toml) : toml[i] \in TomlTags
      BY <1>1
    <2>2. /\ after \in Seq(TomlTags) /\ Len(after) = IF end <= Len(toml) THEN Len(toml) - end + 1 ELSE 0
          /\ \A i \in 1 .. Len(toml) - end + 1 : after[i] = toml[end + i - 1]
      BY <2>1, SubSeqProperties
    <2> HIDE DEF after
    <2>3. /\ after \in Seq(TomlTags) /\ Len(after) = Len(toml) + 1 - end
          /\ \A i \in 1 .. Len(toml) + 1 - end : after[i] = toml[i + end - 1]
      BY <1>1, <2>2
    <2> QED BY <2>3 DEF after
  <1> QED BY <1>2, <1>3
\* A block put in the place of one, and a block taken out.
LEMMA BlockReplaced ==
    ASSUME NEW toml \in Seq(TomlTags), NEW start \in 1 .. Len(toml), IsBlock(toml[start]),
           \A i \in 1 .. start - 1 : ~IsBlock(toml[i]),
           NEW end, end = find_next_toml_table(toml, start + 1)
    PROVE  \A new : new = SubSeq(toml, 1, start - 1) \o <<"jdbg">> \o SubSeq(toml, end, Len(toml)) =>
             /\ new \in Seq(TomlTags) /\ start \in 1 .. Len(new) /\ IsBlock(new[start])
             /\ ~ArrayBehindBlock(toml) => ~ArrayBehindBlock(new) /\ SameTables(new, toml)
  <1>1. PICK before : before = SubSeq(toml, 1, start - 1)
    OBVIOUS
  <1>2. PICK after : after = SubSeq(toml, end, Len(toml))
    OBVIOUS
  <1>3. PICK block : block = <<"jdbg">>
    OBVIOUS
  <1>4. Len(toml) \in Nat /\ end \in (start + 1) .. (Len(toml) + 1)
    BY BlockEnds, LenProperties
  <1>5. /\ before \in Seq(TomlTags) /\ Len(before) = start - 1
        /\ \A i \in 1 .. start - 1 : before[i] = toml[i]
        /\ after \in Seq(TomlTags) /\ Len(after) = Len(toml) + 1 - end
        /\ \A i \in 1 .. Len(toml) + 1 - end : after[i] = toml[i + end - 1]
    BY <1>1, <1>2, <1>4, PartsOf
  <1>6. block \in Seq(TomlTags)
    <2>1. "jdbg" \in TomlTags
      BY DEF TomlTags
    <2> QED BY <1>3, <2>1, OneMember, Zenon
  <1>7. Len(block) = 1 /\ block[1] = "jdbg"
    BY <1>3
  <1>8. PICK new : new = before \o block \o after
    OBVIOUS
  <1>9. /\ new \in Seq(TomlTags) /\ Len(new) = Len(before) + Len(block) + Len(after)
        /\ \A i \in 1 .. Len(before) : new[i] = before[i]
        /\ \A i \in Len(before) + 1 .. Len(before) + Len(block) : new[i] = block[i - Len(before)]
        /\ \A i \in Len(before) + Len(block) + 1 .. Len(before) + Len(block) + Len(after) :
             new[i] = after[i - Len(before) - Len(block)]
    <2>1. before \in Seq(TomlTags) /\ after \in Seq(TomlTags)
      BY <1>5
    <2>2. ASSUME NEW b \in Seq(TomlTags), NEW m \in Seq(TomlTags), NEW a \in Seq(TomlTags), new = b \o m \o a
          PROVE  /\ new \in Seq(TomlTags) /\ Len(new) = Len(b) + Len(m) + Len(a)
                 /\ \A i \in 1 .. Len(b) : new[i] = b[i]
                 /\ \A i \in Len(b) + 1 .. Len(b) + Len(m) : new[i] = m[i - Len(b)]
                 /\ \A i \in Len(b) + Len(m) + 1 .. Len(b) + Len(m) + Len(a) :
                      new[i] = a[i - Len(b) - Len(m)]
      BY <2>2, ThreeParts
    <2> QED BY <1>6, <1>8, <2>1, <2>2
  <1>10. ASSUME ~ArrayBehindBlock(toml) PROVE ~ArrayBehindBlock(new) /\ SameTables(new, toml)
    <2>1. end = start + 1
      BY <1>10, BlockEnds
    <2>2. /\ Len(before) = start - 1 /\ Len(block) = 1 /\ Len(after) = Len(toml) - start
          /\ Len(new) = Len(toml)
      <3>1. Len(before) = start - 1 /\ Len(block) = 1 /\ Len(after) = Len(toml) + 1 - end
        BY <1>5, <1>7
      <3>2. Len(new) = Len(before) + Len(block) + Len(after)
        BY <1>9
      <3> QED BY <1>4, <2>1, <3>1, <3>2
    <2>3. \A i \in 1 .. Len(toml) : i # start => new[i] = toml[i]
      <3>1. \A i \in 1 .. start - 1 : new[i] = toml[i]
        BY <1>4, <1>5, <1>9
      <3>2. ASSUME NEW i \in start + 1 .. Len(toml) PROVE new[i] = toml[i]
        <4>1. i \in Len(before) + Len(block) + 1 .. Len(before) + Len(block) + Len(after)
          BY <1>4, <2>2
        <4>2. new[i] = after[i - Len(before) - Len(block)]
          BY <1>9, <4>1
        <4>3. i - Len(before) - Len(block) = i - start /\ i - start \in 1 .. Len(toml) + 1 - end
          BY <1>4, <2>1, <2>2
        <4>4. after[i - start] = toml[i - start + end - 1]
          BY <1>5, <4>3
        <4>5. start \in Int /\ i \in Int
          OBVIOUS
        <4>6. i - start + end - 1 = i
          BY <2>1, <4>5
        <4> QED BY <4>2, <4>3, <4>4, <4>6
      <3> QED BY <1>4, <3>1, <3>2
    <2>4. new[start] = "jdbg"
      BY <1>4, <1>5, <1>7, <1>9
    <2>5. IsBlock(new[start])
      BY <2>4 DEF IsBlock
    <2>6. Tables(toml) = toml /\ Tables(new) = new
      BY <1>9, TablesOf
    <2>7. SameTables(new, toml)
      BY <1>4, <1>9, <2>2, <2>3, <2>5, <2>6, SameInPlace
    <2>8. ASSUME NEW i \in 1 .. Len(new) - 1, IsBlock(new[i]), new[i + 1] = "array"
          PROVE  FALSE
      <3>1. i \in 1 .. Len(toml) - 1 /\ i + 1 \in 1 .. Len(toml)
        BY <1>4, <2>2
      <3>2. IsBlock(toml[i])
        BY <2>3, <2>8, <3>1
      <3>3. toml[i + 1] = "array"
        <4>1. i + 1 # start
          BY <2>4, <2>8
        <4> QED BY <2>3, <2>8, <3>1, <4>1
      <3> QED BY <1>10, <3>1, <3>2, <3>3 DEF ArrayBehindBlock
    <2> QED BY <2>7, <2>8 DEF ArrayBehindBlock
  <1>11. start \in 1 .. Len(new) /\ IsBlock(new[start])
    <2>1. Len(before) = start - 1 /\ Len(block) = 1 /\ Len(after) \in Nat
      BY <1>5, <1>7, LenProperties
    <2>2. Len(new) = Len(before) + Len(block) + Len(after)
      BY <1>9
    <2>3. start \in 1 .. Len(new)
      BY <1>4, <2>1, <2>2
    <2>4. new[start] = "jdbg"
      BY <1>4, <1>7, <1>9, <2>1
    <2> QED BY <2>3, <2>4 DEF IsBlock
  <1> QED BY <1>1, <1>2, <1>3, <1>8, <1>9, <1>10, <1>11, Zenon

LEMMA BlockTaken ==
    ASSUME NEW toml \in Seq(TomlTags), NEW start \in 1 .. Len(toml), IsBlock(toml[start]),
           \A i \in 1 .. start - 1 : ~IsBlock(toml[i]),
           NEW end, end = find_next_toml_table(toml, start + 1)
    PROVE  \A new : new = SubSeq(toml, 1, start - 1) \o SubSeq(toml, end, Len(toml)) =>
             /\ new \in Seq(TomlTags)
             /\ ~ArrayBehindBlock(toml) => /\ ~ArrayBehindBlock(new) /\ SameTables(new, toml)
                                           /\ new = <<>> => SameTables(<<"absent">>, toml)
  <1>1. PICK before : before = SubSeq(toml, 1, start - 1)
    OBVIOUS
  <1>2. PICK after : after = SubSeq(toml, end, Len(toml))
    OBVIOUS
  <1>3. PICK new : new = before \o after
    OBVIOUS
  <1>4. Len(toml) \in Nat /\ end \in (start + 1) .. (Len(toml) + 1)
    BY BlockEnds, LenProperties
  <1>5. /\ before \in Seq(TomlTags) /\ Len(before) = start - 1
        /\ \A i \in 1 .. start - 1 : before[i] = toml[i]
        /\ after \in Seq(TomlTags) /\ Len(after) = Len(toml) + 1 - end
        /\ \A i \in 1 .. Len(toml) + 1 - end : after[i] = toml[i + end - 1]
    BY <1>1, <1>2, <1>4, PartsOf
  <1>6. /\ new \in Seq(TomlTags) /\ Len(new) = Len(before) + Len(after)
        /\ \A i \in 1 .. Len(before) + Len(after) :
             new[i] = IF i <= Len(before) THEN before[i] ELSE after[i - Len(before)]
    BY <1>3, <1>5, ConcatProperties
  <1>7. ASSUME ~ArrayBehindBlock(toml)
        PROVE  /\ ~ArrayBehindBlock(new) /\ SameTables(new, toml)
               /\ new = <<>> => SameTables(<<"absent">>, toml)
    <2>1. end = start + 1
      BY <1>7, BlockEnds
    <2>2. Len(before) = start - 1 /\ Len(after) = Len(toml) - start /\ Len(new) = Len(toml) - 1
      <3>1. Len(before) = start - 1 /\ Len(after) = Len(toml) + 1 - end
        BY <1>5
      <3>2. Len(new) = Len(before) + Len(after)
        BY <1>6
      <3> QED BY <1>4, <2>1, <3>1, <3>2
    <2>3. \A i \in 1 .. Len(new) : new[i] = IF i < start THEN toml[i] ELSE toml[i + 1]
      <3>1. ASSUME NEW i \in 1 .. Len(new), i < start PROVE new[i] = toml[i]
        <4>1. i \in 1 .. Len(before) + Len(after) /\ i <= Len(before) /\ i \in 1 .. start - 1
          BY <1>4, <2>2, <3>1
        <4>2. new[i] = before[i]
          BY <1>6, <4>1
        <4>3. before[i] = toml[i]
          BY <1>5, <4>1
        <4> QED BY <4>2, <4>3
      <3>2. ASSUME NEW i \in 1 .. Len(new), ~ (i < start) PROVE new[i] = toml[i + 1]
        <4>1. i \in 1 .. Len(before) + Len(after) /\ ~ (i <= Len(before))
          BY <1>4, <2>2, <3>2
        <4>2. new[i] = after[i - Len(before)]
          BY <1>6, <4>1
        <4>3. i - Len(before) = i - start + 1 /\ i - start + 1 \in 1 .. Len(toml) + 1 - end
          BY <1>4, <2>1, <2>2, <3>2
        <4>4. after[i - start + 1] = toml[i - start + 1 + end - 1]
          BY <1>5, <4>3
        <4>5. i - start + 1 + end - 1 = i + 1
          BY <1>4, <2>1
        <4> QED BY <4>2, <4>3, <4>4, <4>5
      <3> QED BY <3>1, <3>2
    <2>4. Tables(toml) = toml /\ Tables(new) = new
      BY <1>6, TablesOf
    <2>5. SameTables(new, toml)
      BY <1>6, <2>2, <2>3, <2>4, SameWithout
    <2>6. ASSUME NEW i \in 1 .. Len(new) - 1, IsBlock(new[i]), new[i + 1] = "array"
          PROVE  FALSE
      <3>1. i \in 1 .. Len(new) /\ i + 1 \in 1 .. Len(new)
        BY <1>4, <2>2
      <3>2. ~ (i < start)
        BY <1>4, <2>3, <2>6, <3>1
      <3>3. new[i] = toml[i + 1] /\ new[i + 1] = toml[i + 1 + 1] /\ i + 1 \in 1 .. Len(toml) - 1
        BY <1>4, <2>2, <2>3, <3>1, <3>2
      <3> QED BY <1>7, <2>6, <3>3 DEF ArrayBehindBlock
    <2>7. ASSUME new = <<>> PROVE SameTables(<<"absent">>, toml)
      <3>1. Tables(<<"absent">>) = Tables(new)
        BY <2>4, <2>7, TablesOf, Zenon DEF Untabled
      <3>2. UserAt(<<"absent">>) = UserAt(new)
        BY <3>1, Zenon DEF UserAt
      <3> QED BY <2>5, <3>1, <3>2, Zenon DEF SameTables
    <2> QED BY <2>5, <2>6, <2>7 DEF ArrayBehindBlock
  <1> QED BY <1>1, <1>2, <1>3, <1>6, <1>7, Zenon

LEMMA NoHeaderUntabled == ASSUME NEW toml \in Untabled PROVE find_toml_header(toml) = 0
  <1> DEFINE blocks == {i \in 1 .. Len(toml) : IsBlock(toml[i])}
  <1>1. ASSUME NEW i \in 1 .. Len(toml) PROVE ~IsBlock(toml[i])
    <2>1. i = 1
      BY UntabledIs
    <2>2. toml[i] \in {"absent", "unreadable"}
      BY <2>1, UntabledIs
    <2> QED BY <2>2 DEF IsBlock
  <1>2. blocks = {}
    BY <1>1
  <1>3. find_toml_header(toml) = IF blocks # {} THEN Min(blocks) ELSE 0
    BY Zenon DEF find_toml_header, SelectInSeq
  <1> QED BY <1>2, <1>3

LEMMA TomlInstalled == ASSUME NEW toml, TomlFile(toml) PROVE TablesKept(toml, upsert_toml_table(toml)) /\ find_toml_header(upsert_toml_table(toml)) # 0
  <1>0. /\ TomlFile(toml) <=> toml \in Untabled \/ toml \in Seq(TomlTags)
        /\ \A file \in Seq(TomlTags) : TomlFile(file) /\ file # <<"unreadable">>
    BY TablesOf DEF TomlFile, TomlTags, Untabled
  <1>1. PICK start : start = find_toml_header(toml)
    OBVIOUS
  <1>2. PICK end : end = find_next_toml_table(toml, start + 1)
    OBVIOUS
  <1>3. PICK new : new = upsert_toml_table(toml)
    OBVIOUS
  <1>4. /\ start = 0 => new = Tables(toml) \o <<"jdbg">>
        /\ start # 0 => \/ new = toml
                        \/ new = SubSeq(toml, 1, start - 1) \o <<"jdbg">> \o SubSeq(toml, end, Len(toml))
    BY <1>1, <1>2, <1>3, Zenon DEF upsert_toml_table
  <1>5. CASE start = 0
    <2>1. PICK tables : tables = Tables(toml)
      OBVIOUS
    <2>2. tables \in Seq(TomlTags) /\ (toml \in Seq(TomlTags) => tables = toml) /\ (toml \in Untabled => tables = <<>>)
      <3>1. CASE toml \in Untabled
        <4>1. tables = <<>> /\ <<>> \in Seq(TomlTags)
          BY <2>1, <3>1, TablesOf
        <4>2. \A t \in Seq(TomlTags) : t \notin Untabled
          BY TablesOf
        <4> QED BY <3>1, <4>1, <4>2, Zenon
      <3>2. CASE toml \in Seq(TomlTags)
        BY <2>1, <3>2, TablesOf, Zenon
      <3> QED BY <1>0, <3>1, <3>2, Zenon
    <2>3. "jdbg" \in TomlTags
      BY DEF TomlTags
    <2>4. PICK block : block = <<"jdbg">>
      OBVIOUS
    <2>5. block \in Seq(TomlTags) /\ Len(block) = 1 /\ block[1] = "jdbg"
      BY <2>3, <2>4, OneMember
    <2>6. new = tables \o block
      BY <1>4, <1>5, <2>1, <2>4
    <2>7. /\ new \in Seq(TomlTags) /\ Len(new) = Len(tables) + Len(block)
          /\ \A i \in 1 .. Len(tables) + Len(block) :
               new[i] = IF i <= Len(tables) THEN tables[i] ELSE block[i - Len(tables)]
      BY <2>2, <2>5, <2>6, ConcatProperties
    <2>8. Len(tables) \in Nat /\ Len(new) = Len(tables) + 1
      BY <2>2, <2>5, <2>7, LenProperties
    <2>9. /\ \A i \in 1 .. Len(tables) : new[i] = tables[i]
          /\ new[Len(tables) + 1] = "jdbg"
      BY <2>5, <2>7, <2>8
    <2>10. Tables(new) = new
      BY <2>7, TablesOf
    <2>11. IsBlock(new[Len(tables) + 1])
      BY <2>9 DEF IsBlock
    <2>12. SameTables(new, toml)
      <3>1. \A i \in 1 .. Len(new) : \/ i \in 1 .. Len(tables) /\ new[i] = tables[i]
                                     \/ IsBlock(new[i]) /\ i \notin 1 .. Len(tables)
        BY <2>8, <2>9, <2>11
      <3> QED BY <2>1, <2>2, <2>7, <2>8, <2>10, <3>1, SameInPlace
    <2>13. ASSUME ~ArrayBehindBlock(toml) PROVE ~ArrayBehindBlock(new)
      <3>1. \A i \in 1 .. Len(tables) : ~IsBlock(tables[i])
        <4>1. CASE toml \in Untabled
          <5>1. tables = <<>>
            BY <2>2, <4>1
          <5>2. Len(tables) = 0
            BY <5>1
          <5> QED BY <5>2
        <4>2. CASE toml \in Seq(TomlTags)
          <5>1. start = 0 /\ start \notin 1 .. Len(toml)
            BY <1>5
          <5>2. \A i \in 1 .. Len(toml) : ~IsBlock(toml[i])
            BY <1>1, <4>2, <5>1, HeaderFound
          <5> QED BY <2>2, <4>2, <5>2, Zenon
        <4> QED BY <1>0, <4>1, <4>2
      <3>2. \A i \in 1 .. Len(new) - 1 : i \in 1 .. Len(tables)
        BY <2>8
      <3> QED BY <2>9, <3>1, <3>2 DEF ArrayBehindBlock
    <2>14. find_toml_header(new) # 0
      <3>1. Len(tables) + 1 \in 1 .. Len(new)
        BY <2>8
      <3>2. PICK i \in 1 .. Len(new) : IsBlock(new[i])
        BY <2>11, <3>1
      <3>3. new \in Seq(TomlTags)
        BY <2>7
      <3> QED BY <3>2, <3>3, HasHeader
    <2> QED BY <1>0, <1>3, <2>7, <2>12, <2>13, <2>14 DEF TablesKept
  <1>6. CASE start # 0
    <2>1. toml \in Seq(TomlTags)
      BY <1>0, <1>1, <1>6, NoHeaderUntabled
    <2>2. start \in 1 .. Len(toml) /\ IsBlock(toml[start]) /\ \A i \in 1 .. start - 1 : ~IsBlock(toml[i])
      BY <1>1, <1>6, <2>1, HeaderFound
    <2>3. CASE new = toml
      BY <1>0, <1>1, <1>3, <1>6, <2>1, <2>3, SameItself DEF TablesKept
    <2>4. CASE new = SubSeq(toml, 1, start - 1) \o <<"jdbg">> \o SubSeq(toml, end, Len(toml))
      <3>1. /\ new \in Seq(TomlTags) /\ start \in 1 .. Len(new) /\ IsBlock(new[start])
            /\ ~ArrayBehindBlock(toml) => ~ArrayBehindBlock(new) /\ SameTables(new, toml)
        <4>1. \A n : n = SubSeq(toml, 1, start - 1) \o <<"jdbg">> \o SubSeq(toml, end, Len(toml)) =>
                /\ n \in Seq(TomlTags) /\ start \in 1 .. Len(n) /\ IsBlock(n[start])
                /\ ~ArrayBehindBlock(toml) => ~ArrayBehindBlock(n) /\ SameTables(n, toml)
          BY <1>2, <2>1, <2>2, BlockReplaced
        <4> QED BY <2>4, <4>1, Zenon
      <3>2. find_toml_header(new) # 0
        BY <3>1, HasHeader
      <3> QED BY <1>0, <1>3, <3>1, <3>2 DEF TablesKept
    <2> QED BY <1>4, <1>6, <2>3, <2>4
  <1> QED BY <1>5, <1>6

\* A file of which nothing is left is deleted.
LEMMA TomlRemoved ==
    ASSUME NEW toml, TomlFile(toml), find_toml_header(toml) # 0
    PROVE  /\ TablesKept(toml, remove_toml_table(toml))
           /\ remove_toml_table(toml) = <<>> => TablesKept(toml, <<"absent">>)
  <1>0. /\ TomlFile(toml) <=> toml \in Untabled \/ toml \in Seq(TomlTags)
        /\ \A file \in Seq(TomlTags) : TomlFile(file) /\ file # <<"unreadable">>
        /\ TomlFile(<<"absent">>)
    BY TablesOf DEF TomlFile, TomlTags, Untabled
  <1>1. PICK start : start = find_toml_header(toml)
    OBVIOUS
  <1>2. PICK end : end = find_next_toml_table(toml, start + 1)
    OBVIOUS
  <1>3. PICK new : new = remove_toml_table(toml)
    OBVIOUS
  <1>4. new = SubSeq(toml, 1, start - 1) \o SubSeq(toml, end, Len(toml))
    BY <1>1, <1>2, <1>3, Zenon DEF remove_toml_table
  <1>5. toml \in Seq(TomlTags)
    BY <1>0, NoHeaderUntabled
  <1>6. start \in 1 .. Len(toml) /\ IsBlock(toml[start]) /\ \A i \in 1 .. start - 1 : ~IsBlock(toml[i])
    BY <1>1, <1>5, HeaderFound
  <1>7. /\ new \in Seq(TomlTags)
        /\ ~ArrayBehindBlock(toml) => /\ ~ArrayBehindBlock(new) /\ SameTables(new, toml)
                                      /\ new = <<>> => SameTables(<<"absent">>, toml)
    <2>1. \A n : n = SubSeq(toml, 1, start - 1) \o SubSeq(toml, end, Len(toml)) =>
            /\ n \in Seq(TomlTags)
            /\ ~ArrayBehindBlock(toml) => /\ ~ArrayBehindBlock(n) /\ SameTables(n, toml)
                                          /\ n = <<>> => SameTables(<<"absent">>, toml)
      BY <1>2, <1>5, <1>6, BlockTaken
    <2> QED BY <1>4, <2>1, Zenon
  <1>8. ~ArrayBehindBlock(<<"absent">>) /\ <<"absent">> # <<"unreadable">>
    <2>1. ASSUME NEW toml1, toml1 = <<"absent">>, NEW toml2, toml2 = <<"unreadable">>
          PROVE  toml1 # toml2
      <3>1. toml1[1] = "absent" /\ toml2[1] = "unreadable"
        BY <2>1
      <3> QED BY <3>1
    <2>2. <<"absent">> # <<"unreadable">>
      BY <2>1, Zenon
    <2>3. <<"absent">> \in Untabled
      BY DEF Untabled
    <2> QED BY <2>2, <2>3, TablesOf
  <1>9. TomlFile(new) /\ new # <<"unreadable">> /\ TomlFile(<<"absent">>)
    BY <1>0, <1>7, Zenon
  <1>10. TablesKept(toml, new)
    <2>1. ~ArrayBehindBlock(toml) => ~ArrayBehindBlock(new) /\ SameTables(new, toml)
      BY <1>7
    <2> QED BY <1>9, <2>1 DEF TablesKept
  <1>11. new = <<>> => TablesKept(toml, <<"absent">>)
    <2>1. new = <<>> /\ ~ArrayBehindBlock(toml) => SameTables(<<"absent">>, toml)
      BY <1>7
    <2> QED BY <1>8, <1>9, <2>1 DEF TablesKept
  <1> QED BY <1>3, <1>10, <1>11, Zenon

\* A file of a home directory, installed or removed.
HomeFields == {"claude", "settings", "opencode", "codex", "skill", "dirs"}
HomeKept(old, new) ==
    /\ DOMAIN new = HomeFields
    /\ KeysKept(old.claude, new.claude)
    /\ KeysKept(old.settings, new.settings)
    /\ KeysKept(old.opencode, new.opencode)
    /\ TablesKept(old.codex, new.codex)

LEMMA KeptItself == (\A file : KeysKept(file, file)) /\ (\A toml : TablesKept(toml, toml))
  BY SameItself DEF KeysKept, TablesKept

LEMMA FileInstalled ==
    ASSUME NEW h, DOMAIN h = HomeFields, TomlFile(h.codex), NEW file, NEW backend
    PROVE  HomeKept(h, InstallFile(file, backend, h))
  <1> USE KeptItself DEF HomeKept, HomeFields
  <1>1. CASE file = "claude"
    BY <1>1, JsonInstalled DEF InstallFile
  <1>2. CASE file = "settings"
    BY <1>2, JsonInstalled DEF InstallFile
  <1>3. CASE file = "codex"
    BY <1>3, TomlInstalled DEF InstallFile
  <1>4. CASE file = "opencode"
    BY <1>4, JsonInstalled DEF InstallFile
  <1>5. CASE file \notin {"claude", "settings", "codex", "opencode"}
    <2>1. PICK target : target = CHOOSE t \in Targets : file = SkillFile[t]
      OBVIOUS
    <2>2. InstallFile(file, backend, h) = [h EXCEPT !.skill[target] = backend, !.dirs = @ \cup {target}]
      BY <1>5, <2>1 DEF InstallFile
    <2> QED BY <2>2
  <1> QED BY <1>1, <1>2, <1>3, <1>4, <1>5

LEMMA FileRemoved ==
    ASSUME NEW h, DOMAIN h = HomeFields, TomlFile(h.codex), NEW file
    PROVE  HomeKept(h, RemoveFile(file, h))
  <1> USE KeptItself DEF HomeKept, HomeFields
  <1>1. CASE file = "claude"
    BY <1>1, JsonRemoved DEF RemoveFile
  <1>2. CASE file = "settings"
    BY <1>2, JsonRemoved DEF RemoveFile
  <1>3. CASE file = "codex"
    BY <1>3, TomlRemoved DEF RemoveFile
  <1>4. CASE file = "opencode"
    BY <1>4, JsonRemoved DEF RemoveFile, apply_opencode_mcp_remove
  <1>5. CASE file \notin {"claude", "settings", "codex", "opencode"}
    <2>1. PICK target : target = CHOOSE t \in Targets : file = SkillFile[t]
      OBVIOUS
    <2>2. RemoveFile(file, h) = [h EXCEPT !.skill[target] = "none"]
      BY <1>5, <2>1 DEF RemoveFile
    <2> QED BY <2>2
  <1> QED BY <1>1, <1>2, <1>3, <1>4, <1>5

LEMMA KeptTransitive ==
    ASSUME NEW a, NEW b, NEW c, HomeKept(a, b), HomeKept(b, c)
    PROVE  HomeKept(a, c)
  <1>1. \A x, y, z : KeysKept(x, y) /\ KeysKept(y, z) => KeysKept(x, z)
    BY DEF KeysKept
  <1>2. \A x, y, z : TablesKept(x, y) /\ TablesKept(y, z) => TablesKept(x, z)
    BY SameTransitive DEF TablesKept
  <1> QED BY <1>1, <1>2 DEF HomeKept

ForeignInv ==
    /\ TomlFile(plan.home.codex)
    /\ \A file \in {plan.home.claude, plan.home.settings, plan.home.opencode} : JsonFile(file)
    /\ HomeKept(plan.home, home)

LEMMA HomeMoves ==
    ASSUME [Next]_vars
    PROVE  /\ plan' = plan
           /\ \/ home' = home
              \/ \E file : home' = RemoveFile(file, home)
              \/ \E file, backend : home' = InstallFile(file, backend, home)
  <1>1. CASE UpdaterStep \/ Publish
    <2>1. plan' = plan
      BY <1>1, UpdaterMoves
    <2>2. CASE remove_target
      BY <2>1, <2>2 DEF remove_target
    <2>3. CASE install_target
      BY <2>1, <2>3 DEF install_target
    <2>4. CASE \/ run_update \/ stop_daemon_before_update \/ wait_for_daemon_exit \/ stop_process
               \/ remove_daemon \/ run_setup \/ ensure_jdi_sidecar_available \/ move_self_aside
               \/ install_command \/ download_archive \/ verify_archive_checksum \/ install_sidecar_file
               \/ Publish
      BY <2>1, <2>4 DEF Files, run_update, stop_daemon_before_update, wait_for_daemon_exit, stop_process,
           remove_daemon, run_setup, ensure_jdi_sidecar_available, move_self_aside,
           install_command, download_archive, verify_archive_checksum, Step, install_sidecar_file, Publish
    <2> QED BY <1>1, <2>2, <2>3, <2>4 DEF UpdaterStep
  <1>2. CASE UNCHANGED <<plan, jar, updateVars>>
    BY <1>2 DEF updateVars
  <1> QED BY <1>1, <1>2, OthersMove

LEMMA ForeignInit == Init => ForeignInv
  <1> SUFFICES ASSUME Init PROVE ForeignInv
    OBVIOUS
  <1>1. plan \in Plans /\ home = plan.home
    BY DEF Init, UpdateInit
  <1>2. /\ DOMAIN plan.home = HomeFields /\ TomlFile(plan.home.codex)
        /\ \A file \in {plan.home.claude, plan.home.settings, plan.home.opencode} : JsonFile(file)
    BY <1>1, ProgramAssumption DEF HomeFields
  <1> QED BY <1>1, <1>2, KeptItself DEF ForeignInv, HomeKept

LEMMA ForeignStep == ForeignInv /\ [Next]_vars => ForeignInv'
  <1> SUFFICES ASSUME ForeignInv, [Next]_vars PROVE ForeignInv'
    OBVIOUS
  <1>1. DOMAIN home = HomeFields /\ TomlFile(home.codex)
    BY DEF ForeignInv, HomeKept, TablesKept
  <1>2. HomeKept(home, home')
    BY <1>1, HomeMoves, FileInstalled, FileRemoved, KeptItself DEF HomeKept
  <1>3. plan' = plan
    BY HomeMoves
  <1> QED BY <1>2, <1>3, KeptTransitive DEF ForeignInv

\* Whatever setup, its removal and update do, with any targets and any answers, and
\* wherever they stop: what a file held of the user it still holds, in its order.
THEOREM ForeignKeptHolds == Spec => []ForeignKept
  <1>1. ForeignInv => ForeignKept
    BY DEF ForeignInv, HomeKept, KeysKept, TablesKept, ForeignKept
  <1> QED BY <1>1, ForeignInit, ForeignStep, PTL DEF Spec

-----------------------------------------------------------------------------
(* The files an update writes again.                                       *)

AgentFiles == {"claude", "settings", "codex", "opencode"} \cup {SkillFile[t] : t \in Targets}

LEMMA Joined ==
    ASSUME NEW S, NEW a \in Seq(S), NEW b \in Seq(S)
    PROVE  a \o b \in Seq(S) /\ Len(a \o b) = Len(a) + Len(b) /\ ToSet(a \o b) = ToSet(a) \cup ToSet(b)
  <1>1. PICK ab : ab = a \o b
    OBVIOUS
  <1>2. /\ ab \in Seq(S) /\ Len(ab) = Len(a) + Len(b)
        /\ \A i \in 1 .. Len(a) + Len(b) : ab[i] = IF i <= Len(a) THEN a[i] ELSE b[i - Len(a)]
    BY <1>1, ConcatProperties
  <1>3. /\ Len(a) \in Nat /\ DOMAIN a = 1 .. Len(a) /\ Len(b) \in Nat /\ DOMAIN b = 1 .. Len(b)
        /\ DOMAIN ab = 1 .. Len(a) + Len(b)
    BY <1>2, LenProperties
  <1>4. ASSUME NEW x \in ToSet(a) \cup ToSet(b) PROVE x \in ToSet(ab)
    <2>1. CASE x \in ToSet(a)
      <3>1. PICK i \in 1 .. Len(a) : x = a[i]
        BY <1>3, <2>1 DEF ToSet
      <3>2. i \in DOMAIN ab /\ ab[i] = x
        BY <1>2, <1>3, <3>1
      <3> QED BY <3>2 DEF ToSet
    <2>2. CASE x \in ToSet(b)
      <3>1. PICK i \in 1 .. Len(b) : x = b[i]
        BY <1>3, <2>2 DEF ToSet
      <3>2. i + Len(a) \in 1 .. Len(a) + Len(b) /\ ~ (i + Len(a) <= Len(a)) /\ i + Len(a) - Len(a) = i
        BY <1>3
      <3>3. i + Len(a) \in DOMAIN ab /\ ab[i + Len(a)] = x
        BY <1>2, <1>3, <3>1, <3>2
      <3> QED BY <3>3 DEF ToSet
    <2> QED BY <1>4, <2>1, <2>2
  <1>5. ASSUME NEW x \in ToSet(ab) PROVE x \in ToSet(a) \cup ToSet(b)
    <2>1. PICK i \in 1 .. Len(a) + Len(b) : x = ab[i]
      BY <1>3 DEF ToSet
    <2>2. CASE i <= Len(a)
      <3>1. x = a[i] /\ i \in DOMAIN a
        BY <1>2, <1>3, <2>1, <2>2
      <3> QED BY <3>1 DEF ToSet
    <2>3. CASE ~ (i <= Len(a))
      <3>1. x = b[i - Len(a)] /\ i - Len(a) \in DOMAIN b
        BY <1>2, <1>3, <2>1, <2>3
      <3> QED BY <3>1 DEF ToSet
    <2> QED BY <2>2, <2>3
  <1>6. ToSet(ab) = ToSet(a) \cup ToSet(b)
    BY <1>4, <1>5
  <1> QED BY <1>1, <1>2, <1>6

LEMMA FourJoined ==
    ASSUME NEW S, NEW a \in Seq(S), NEW b \in Seq(S), NEW c \in Seq(S), NEW d \in Seq(S)
    PROVE  /\ a \o b \o c \o d \in Seq(S)
           /\ Len(a \o b \o c \o d) = Len(a) + Len(b) + Len(c) + Len(d)
           /\ ToSet(a \o b \o c \o d) = ToSet(a) \cup ToSet(b) \cup ToSet(c) \cup ToSet(d)
  <1>1. a \o b \in Seq(S) /\ Len(a \o b) = Len(a) + Len(b) /\ ToSet(a \o b) = ToSet(a) \cup ToSet(b)
    BY Joined
  <1>2. PICK ab : ab = a \o b
    OBVIOUS
  <1>3. ab \o c \in Seq(S) /\ Len(ab \o c) = Len(ab) + Len(c) /\ ToSet(ab \o c) = ToSet(ab) \cup ToSet(c)
    <2>1. ab \in Seq(S)
      BY <1>1, <1>2
    <2> QED BY <2>1, Joined
  <1>4. PICK abc : abc = ab \o c
    OBVIOUS
  <1>5. abc \o d \in Seq(S) /\ Len(abc \o d) = Len(abc) + Len(d) /\ ToSet(abc \o d) = ToSet(abc) \cup ToSet(d)
    <2>1. abc \in Seq(S)
      BY <1>3, <1>4
    <2> QED BY <2>1, Joined
  <1> QED BY <1>1, <1>2, <1>3, <1>4, <1>5, Zenon

LEMMA OrderedIs ==
    ASSUME NEW S \in SUBSET Targets
    PROVE  Ordered(S) \in Seq(S) /\ Len(Ordered(S)) <= 4
  <1>1. ASSUME NEW t PROVE Only(t, S) \in Seq(S) /\ Len(Only(t, S)) \in {0, 1}
    BY OneMember DEF Only
  <1>2. PICK a : a = Only("claude", S)
    OBVIOUS
  <1>3. PICK b : b = Only("codex", S)
    OBVIOUS
  <1>4. PICK c : c = Only("opencode", S)
    OBVIOUS
  <1>5. PICK d : d = Only("pi", S)
    OBVIOUS
  <1>6. PICK all : all = a \o b \o c \o d
    OBVIOUS
  <1>7. all = Ordered(S)
    BY <1>2, <1>3, <1>4, <1>5, <1>6, Zenon DEF Ordered
  <1>8. /\ a \in Seq(S) /\ b \in Seq(S) /\ c \in Seq(S) /\ d \in Seq(S)
        /\ Len(a) \in {0, 1} /\ Len(b) \in {0, 1} /\ Len(c) \in {0, 1} /\ Len(d) \in {0, 1}
    BY <1>1, <1>2, <1>3, <1>4, <1>5
  <1>9. all \in Seq(S) /\ Len(all) = Len(a) + Len(b) + Len(c) + Len(d)
    BY <1>6, <1>8, FourJoined
  <1>10. Len(all) <= 4
    <2>1. \A k, l, m, n \in {0, 1} : k + l + m + n <= 4
      OBVIOUS
    <2>2. Len(a) + Len(b) + Len(c) + Len(d) <= 4
      BY <1>8, <2>1
    <2>3. Len(all) = Len(a) + Len(b) + Len(c) + Len(d)
      BY <1>9
    <2> QED BY <2>2, <2>3
  <1> QED BY <1>7, <1>9, <1>10

LEMMA ConfiguredTargets ==
    ASSUME NEW h
    PROVE  /\ configured_targets_or_default(h) \in Seq(Targets)
           /\ Len(configured_targets_or_default(h)) <= 4
  <1>1. PICK some : some = {t \in Targets : detect_configured(t, h)}
    OBVIOUS
  <1>2. some \in SUBSET Targets
    BY <1>1
  <1>3. PICK found : found = Ordered(some)
    OBVIOUS
  <1>4. found \in Seq(some) /\ Len(found) <= 4
    BY <1>2, <1>3, OrderedIs
  <1>5. found \in Seq(Targets)
    BY <1>2, <1>4, ElementOfSeq, LenProperties
  <1>6. "claude" \in Targets
    BY DEF Targets
  <1>7. PICK one : one = <<"claude">>
    OBVIOUS
  <1>8. one \in Seq(Targets) /\ Len(one) <= 4
    BY <1>6, <1>7, OneMember
  <1>9. configured_targets_or_default(h) = IF found = <<>> THEN one ELSE found
    BY <1>1, <1>3, <1>7, Zenon DEF configured_targets_or_default, OrClaude, detect_configured_targets
  <1> QED BY <1>4, <1>5, <1>8, <1>9

LEMMA PreferenceStated == ASSUME NEW h PROVE configured_backend_or_default(h) \in {"jdi", "jdb"}
  <1>1. PICK some : some = {t \in Targets : h.skill[t] \in {"jdi", "jdb"}}
    OBVIOUS
  <1>2. PICK stated : stated = Ordered(some)
    OBVIOUS
  <1>3. stated \in Seq(some)
    BY <1>1, <1>2, OrderedIs
  <1>4. detect_backend_preference(h) = IF stated = <<>> THEN "unset" ELSE h.skill[Head(stated)]
    BY <1>1, <1>2, Zenon DEF detect_backend_preference
  <1>5. stated # <<>> => h.skill[Head(stated)] \in {"jdi", "jdb"}
    BY <1>1, <1>3, HeadTailProperties
  <1> QED BY <1>4, <1>5 DEF configured_backend_or_default

FilesIn(t) == ToSet(FilesOf(t))

LEMMA FilesAre ==
    ASSUME NEW t \in Targets
    PROVE  /\ FilesOf(t) \in Seq(AgentFiles)
           /\ t = "claude" => FilesIn(t) = {"claude", "settings", SkillFile[t]}
           /\ t = "codex" => FilesIn(t) = {"codex", SkillFile[t]}
           /\ t = "opencode" => FilesIn(t) = {"opencode", SkillFile[t]}
           /\ t = "pi" => FilesIn(t) = {SkillFile[t]}
  <1> USE DEF Targets
  <1>1. /\ {"claude", "settings", "codex", "opencode"} \subseteq AgentFiles
        /\ \A s \in Targets : SkillFile[s] \in AgentFiles
    BY DEF AgentFiles
  <1>2. SkillFile["claude"] = SkillFile.claude /\ SkillFile["codex"] = SkillFile.codex
        /\ SkillFile["opencode"] = SkillFile.opencode /\ SkillFile["pi"] = SkillFile.pi
    OBVIOUS
  <1>3. \A x, y, z : /\ ToSet(<<x>>) = {x} /\ ToSet(<<x, y>>) = {x, y} /\ ToSet(<<x, y, z>>) = {x, y, z}
    BY DEF ToSet
  <1>4. ASSUME NEW x \in AgentFiles, NEW y \in AgentFiles, NEW z \in AgentFiles
        PROVE  <<x>> \in Seq(AgentFiles) /\ <<x, y>> \in Seq(AgentFiles) /\ <<x, y, z>> \in Seq(AgentFiles)
    OBVIOUS
  <1>5. CASE t = "claude"
    <2>1. FilesOf(t) = <<"claude", "settings", SkillFile[t]>>
      BY <1>2, <1>5 DEF FilesOf
    <2>2. FilesOf(t) \in Seq(AgentFiles)
      BY <1>1, <1>4, <2>1
    <2>3. FilesIn(t) = {"claude", "settings", SkillFile[t]}
      <3>1. FilesIn(t) = ToSet(<<"claude", "settings", SkillFile[t]>>)
        BY <2>1, Zenon DEF FilesIn
      <3>2. PICK x : x = "claude"
        OBVIOUS
      <3>3. PICK y : y = "settings"
        OBVIOUS
      <3>4. PICK z : z = SkillFile[t]
        OBVIOUS
      <3>5. ToSet(<<x, y, z>>) = {x, y, z}
        BY <1>3
      <3> QED BY <3>1, <3>2, <3>3, <3>4, <3>5, Zenon
    <2> QED BY <1>5, <2>2, <2>3
  <1>6. CASE t = "codex"
    <2>1. FilesOf(t) = <<"codex", SkillFile[t]>>
      BY <1>2, <1>6 DEF FilesOf
    <2>2. FilesOf(t) \in Seq(AgentFiles)
      BY <1>1, <1>4, <2>1
    <2>3. FilesIn(t) = {"codex", SkillFile[t]}
      BY <1>3, <2>1, Zenon DEF FilesIn
    <2> QED BY <1>6, <2>2, <2>3
  <1>7. CASE t = "opencode"
    <2>1. FilesOf(t) = <<"opencode", SkillFile[t]>>
      BY <1>2, <1>7 DEF FilesOf
    <2>2. FilesOf(t) \in Seq(AgentFiles)
      BY <1>1, <1>4, <2>1
    <2>3. FilesIn(t) = {"opencode", SkillFile[t]}
      BY <1>3, <2>1, Zenon DEF FilesIn
    <2> QED BY <1>7, <2>2, <2>3
  <1>8. CASE t = "pi"
    <2>1. FilesOf(t) = <<SkillFile[t]>>
      BY <1>2, <1>8 DEF FilesOf
    <2>2. FilesOf(t) \in Seq(AgentFiles)
      BY <1>1, <1>4, <2>1
    <2>3. FilesIn(t) = {SkillFile[t]}
      BY <1>3, <2>1, Zenon DEF FilesIn
    <2> QED BY <1>8, <2>2, <2>3
  <1> QED BY <1>5, <1>6, <1>7, <1>8

\* Every file of every target is among those to be written.
LEMMA WritesAll ==
    ASSUME NEW targets \in Seq(Targets), Len(targets) <= 4
    PROVE  /\ Writes(targets) \in Seq(AgentFiles)
           /\ \A t \in ToSet(targets) : FilesIn(t) \subseteq ToSet(Writes(targets))
  <1> DEFINE files(i) == IF i <= Len(targets) THEN FilesOf(targets[i]) ELSE <<>>
  <1>1. Len(targets) \in Nat /\ DOMAIN targets = 1 .. Len(targets) /\ \A i \in 1 .. Len(targets) : targets[i] \in Targets
    BY LenProperties, ElementOfSeq
  <1>2. ASSUME NEW i \in {1, 2, 3, 4} PROVE files(i) \in Seq(AgentFiles)
    <2>1. CASE i <= Len(targets)
      BY <1>1, <2>1, FilesAre
    <2>2. CASE ~ (i <= Len(targets))
      BY <2>2
    <2> QED BY <2>1, <2>2
  <1>3. Writes(targets) = files(1) \o files(2) \o files(3) \o files(4)
    BY Zenon DEF Writes
  <1>4. ASSUME NEW i \in 1 .. Len(targets) PROVE i \in {1, 2, 3, 4} /\ FilesIn(targets[i]) = ToSet(files(i))
    BY <1>1 DEF FilesIn
  <1> HIDE DEF files
  <1>5. /\ Writes(targets) \in Seq(AgentFiles)
        /\ ToSet(Writes(targets)) = ToSet(files(1)) \cup ToSet(files(2)) \cup ToSet(files(3)) \cup ToSet(files(4))
    <2>1. files(1) \in Seq(AgentFiles) /\ files(2) \in Seq(AgentFiles) /\ files(3) \in Seq(AgentFiles)
          /\ files(4) \in Seq(AgentFiles)
      BY <1>2
    <2> QED BY <1>3, <2>1, FourJoined
  <1>6. ASSUME NEW t \in ToSet(targets) PROVE FilesIn(t) \subseteq ToSet(Writes(targets))
    <2>1. PICK i \in 1 .. Len(targets) : t = targets[i]
      BY <1>1 DEF ToSet
    <2>2. i \in {1, 2, 3, 4} /\ FilesIn(t) = ToSet(files(i))
      BY <1>4, <2>1
    <2> QED BY <1>5, <2>2
  <1> QED BY <1>5, <1>6

\* A file that says what an installation makes it say.
Written(file, h, backend) ==
    /\ file = "claude" => HasServer(read_json(h.claude))
    /\ file = "codex" => find_toml_header(h.codex) # 0
    /\ file = "opencode" => ~Unparsable(h.opencode) /\ HasServer(read_json(h.opencode))
    /\ \A t \in Targets : file = SkillFile[t] => h.skill[t] = backend

LEMMA SkillFilesDiffer ==
    /\ \A t \in Targets : SkillFile[t] \notin {"claude", "settings", "codex", "opencode"}
    /\ \A s, t \in Targets : SkillFile[s] = SkillFile[t] => s = t
  BY DEF Targets, SkillFile

LEMMA SkillOf ==
    ASSUME NEW t \in Targets
    PROVE  (CHOOSE s \in Targets : SkillFile[t] = SkillFile[s]) = t
  <1>1. PICK found : found = CHOOSE s \in Targets : SkillFile[t] = SkillFile[s]
    OBVIOUS
  <1>2. found \in Targets /\ SkillFile[t] = SkillFile[found]
    BY <1>1, Zenon
  <1> QED BY <1>1, <1>2, SkillFilesDiffer, Zenon

\* What a file says once it is installed, and that no other installation unsays it.
LEMMA InstallWrites ==
    ASSUME NEW h, DOMAIN h = HomeFields, DOMAIN h.skill = Targets, TomlFile(h.codex),
           NEW file \in AgentFiles, NEW backend, ~CannotRead(file, h)
    PROVE  /\ Written(file, InstallFile(file, backend, h), backend)
           /\ \A other \in AgentFiles : Written(other, h, backend) => Written(other, InstallFile(file, backend, h), backend)
           /\ DOMAIN InstallFile(file, backend, h).skill = Targets
  <1> DEFINE new == InstallFile(file, backend, h)
  <1>1. \A doc : HasServer(read_json(apply_mcp_install(doc)))
    BY DEF HasServer, read_json, Keys, apply_mcp_install, Object, Json
  <1>2. \A doc : /\ HasServer(read_json(apply_opencode_mcp_install(doc)))
                 /\ ~Unparsable(apply_opencode_mcp_install(doc))
    BY DEF HasServer, read_json, Keys, apply_opencode_mcp_install, Object, Json, Unparsable
  <1>3. find_toml_header(upsert_toml_table(h.codex)) # 0
    BY TomlInstalled
  <1>4. CASE file = "claude"
    <2>1. new = [h EXCEPT !.claude = apply_mcp_install(read_json(h.claude))]
      BY <1>4 DEF InstallFile
    <2>2. /\ HasServer(read_json(new.claude)) /\ new.codex = h.codex /\ new.opencode = h.opencode /\ new.skill = h.skill
      BY <1>1, <2>1 DEF HomeFields
    <2> HIDE DEF new
    <2> QED BY <1>4, <2>2, SkillFilesDiffer DEF Written, new
  <1>5. CASE file = "settings"
    <2>1. new = [h EXCEPT !.settings = apply_perm_install(read_json(h.settings)), !.dirs = @ \cup {"claude"}]
      BY <1>5 DEF InstallFile
    <2>2. /\ new.claude = h.claude /\ new.codex = h.codex /\ new.opencode = h.opencode /\ new.skill = h.skill
      BY <2>1 DEF HomeFields
    <2> HIDE DEF new
    <2> QED BY <1>5, <2>2, SkillFilesDiffer DEF Written, new
  <1>6. CASE file = "codex"
    <2>1. new = [h EXCEPT !.codex = upsert_toml_table(h.codex), !.dirs = @ \cup {"codex"}]
      BY <1>6 DEF InstallFile
    <2>2. /\ find_toml_header(new.codex) # 0 /\ new.claude = h.claude /\ new.opencode = h.opencode /\ new.skill = h.skill
      BY <1>3, <2>1 DEF HomeFields
    <2> HIDE DEF new
    <2> QED BY <1>6, <2>2, SkillFilesDiffer DEF Written, new
  <1>7. CASE file = "opencode"
    <2>1. new = [h EXCEPT !.opencode = apply_opencode_mcp_install(read_json(h.opencode)), !.dirs = @ \cup {"opencode"}]
      BY <1>7 DEF InstallFile
    <2>2. /\ ~Unparsable(new.opencode) /\ HasServer(read_json(new.opencode))
          /\ new.claude = h.claude /\ new.codex = h.codex /\ new.skill = h.skill
      BY <1>2, <2>1 DEF HomeFields
    <2> HIDE DEF new
    <2> QED BY <1>7, <2>2, SkillFilesDiffer DEF Written, new
  <1>8. CASE file \notin {"claude", "settings", "codex", "opencode"}
    <2>1. PICK t \in Targets : file = SkillFile[t]
      BY <1>8 DEF AgentFiles
    <2>2. new = [h EXCEPT !.skill[t] = backend, !.dirs = @ \cup {t}]
      <3>1. PICK found : found = CHOOSE s \in Targets : file = SkillFile[s]
        OBVIOUS
      <3>2. found = t
        BY <2>1, <3>1, SkillOf, Zenon
      <3>3. new = [h EXCEPT !.skill[found] = backend, !.dirs = @ \cup {found}]
        BY <1>8, <3>1 DEF InstallFile
      <3> QED BY <3>2, <3>3
    <2>3. /\ new.claude = h.claude /\ new.codex = h.codex /\ new.opencode = h.opencode
          /\ new.skill = [h.skill EXCEPT ![t] = backend]
      BY <2>2 DEF HomeFields
    <2>4. /\ DOMAIN new.skill = Targets /\ new.skill[t] = backend
          /\ \A s \in Targets : new.skill[s] = backend \/ new.skill[s] = h.skill[s]
      BY <2>3
    <2> HIDE DEF new
    <2>5. Written(file, new, backend)
      BY <1>8, <2>1, <2>4, SkillFilesDiffer DEF Written
    <2>6. \A other \in AgentFiles : Written(other, h, backend) => Written(other, new, backend)
      BY <2>3, <2>4 DEF Written
    <2> QED BY <2>4, <2>5, <2>6 DEF new
  <1> QED BY <1>4, <1>5, <1>6, <1>7, <1>8

LEMMA SkillsKept ==
    ASSUME NEW h, DOMAIN h = HomeFields, DOMAIN h.skill = Targets, NEW file, NEW backend
    PROVE  DOMAIN RemoveFile(file, h).skill = Targets /\ DOMAIN InstallFile(file, backend, h).skill = Targets
  <1> USE DEF HomeFields
  <1>1. CASE file = "claude"
    BY <1>1 DEF RemoveFile, InstallFile
  <1>2. CASE file = "settings"
    BY <1>2 DEF RemoveFile, InstallFile
  <1>3. CASE file = "codex"
    BY <1>3 DEF RemoveFile, InstallFile
  <1>4. CASE file = "opencode"
    BY <1>4 DEF RemoveFile, InstallFile
  <1>5. CASE file \notin {"claude", "settings", "codex", "opencode"}
    <2>1. PICK target : target = CHOOSE t \in Targets : file = SkillFile[t]
      OBVIOUS
    <2>2. InstallFile(file, backend, h) = [h EXCEPT !.skill[target] = backend, !.dirs = @ \cup {target}]
      BY <1>5, <2>1 DEF InstallFile
    <2>3. RemoveFile(file, h) = [h EXCEPT !.skill[target] = "none"]
      BY <1>5, <2>1 DEF RemoveFile
    <2> QED BY <2>2, <2>3
  <1> QED BY <1>1, <1>2, <1>3, <1>4, <1>5

\* What was configured is remembered from before anything is touched; what is not
\* written yet is still to be written; a jar is in its place before that begins.
Remembered ==
    /\ up.targets = configured_targets_or_default(plan.home)
    /\ up.backend = configured_backend_or_default(plan.home)
Rewritten ==
    \A t \in ToSet(up.targets) : \A file \in FilesIn(t) :
      (up.stage = "write" /\ file \in ToSet(up.left)) \/ Written(file, home, up.backend)
KeepsInv ==
    /\ DOMAIN home.skill = Targets
    /\ latest # "absent"
    /\ {"stage", "targets", "backend", "left", "archive"} \subseteq DOMAIN up
    /\ plan.program = "update" =>
         /\ up.stage # "select"
         /\ up.stage = "read" => home = plan.home
         /\ up.stage # "read" => Remembered
         /\ up.left \in Seq(AgentFiles)
         /\ up.stage \in {"write", "done"} => Rewritten
         /\ up.stage \in {"checksum", "replace", "rename"} => up.archive # "absent"
         /\ up.stage \in {"ensure", "write", "done"} => jar # "absent"

LEMMA KeepsInit == Init => KeepsInv
  <1> SUFFICES ASSUME Init PROVE KeepsInv
    OBVIOUS
  <1>1. plan \in Plans /\ home = plan.home /\ latest = "1" /\ latest # "absent"
    BY DEF Init, UpdateInit
  <1>2. DOMAIN home.skill = Targets
    BY <1>1, ProgramAssumption
  <1>3. /\ up.left = <<>> /\ {"stage", "targets", "backend", "left", "archive"} \subseteq DOMAIN up
        /\ plan.program = "update" => up.stage = "read"
    BY DEF Init, UpdateInit
  <1> QED BY <1>1, <1>2, <1>3 DEF KeepsInv

LEMMA WritesListed ==
    ASSUME Remembered
    PROVE  /\ Writes(up.targets) \in Seq(AgentFiles)
           /\ \A t \in ToSet(up.targets) : FilesIn(t) \subseteq ToSet(Writes(up.targets))
  <1>1. up.targets \in Seq(Targets) /\ Len(up.targets) <= 4
    BY ConfiguredTargets DEF Remembered
  <1> QED BY <1>1, WritesAll

LEMMA KeepsStep == ForeignInv /\ KeepsInv /\ [Next]_vars => KeepsInv'
  <1> SUFFICES ASSUME ForeignInv, KeepsInv, [Next]_vars PROVE KeepsInv'
    OBVIOUS
  <1>0. /\ plan' = plan /\ DOMAIN home = HomeFields /\ TomlFile(home.codex) /\ DOMAIN home.skill = Targets
        /\ plan.program = "update" => up.left \in Seq(AgentFiles)
    BY HomeMoves DEF ForeignInv, HomeKept, TablesKept, KeepsInv
  <1> USE DEF AtStage, Enter, Failed
  <1>1. CASE UNCHANGED <<plan, jar, updateVars>>
    BY <1>1 DEF updateVars, KeepsInv, Remembered, Rewritten
  <1>2. CASE run_update
    <2>1. /\ up.stage = "read" /\ UNCHANGED <<home, jar, latest>>
          /\ up' = [up EXCEPT !.stage = "stop", !.pid = registered, !.targets = configured_targets_or_default(home),
                              !.backend = configured_backend_or_default(home)]
      BY <1>2 DEF run_update, Keep, Files
    <2>2. /\ up'.stage = "stop" /\ up'.left = up.left
          /\ up'.targets = configured_targets_or_default(home) /\ up'.backend = configured_backend_or_default(home)
          /\ DOMAIN up' = DOMAIN up
      BY <2>1 DEF KeepsInv
    <2>3. plan.program = "update" => Remembered'
      BY <1>0, <2>1, <2>2 DEF KeepsInv, Remembered
    <2> QED BY <1>0, <2>1, <2>2, <2>3 DEF KeepsInv
  <1>3. CASE run_setup
    <2>1. plan.program # "update" /\ UNCHANGED <<home, latest>>
      BY <1>3 DEF run_setup, KeepsInv, Keep, Files
    <2>2. DOMAIN up' = DOMAIN up
      BY <1>3 DEF run_setup
    <2> QED BY <1>0, <2>1, <2>2 DEF KeepsInv
  <1>4. CASE stop_daemon_before_update \/ wait_for_daemon_exit \/ stop_process \/ remove_daemon
    <2>1. /\ UNCHANGED <<home, jar, latest>> /\ DOMAIN up' = DOMAIN up
          /\ up.stage \notin {"read", "write", "done", "ensure"}
          /\ up'.stage \notin {"read", "write", "done", "ensure", "select", "checksum", "replace", "rename"}
          /\ up'.targets = up.targets /\ up'.backend = up.backend
          /\ up'.left \in {up.left, Writes(up.targets)}
      BY <1>4 DEF stop_daemon_before_update, wait_for_daemon_exit, stop_process, remove_daemon, Keep, Files, KeepsInv
    <2>2. plan.program = "update" => up'.left \in Seq(AgentFiles)
      BY <1>0, <2>1, WritesListed DEF KeepsInv
    <2> QED BY <1>0, <2>1, <2>2 DEF KeepsInv, Remembered
  <1>5. CASE ensure_jdi_sidecar_available
    <2>1. /\ UNCHANGED <<home, jar, latest>> /\ DOMAIN up' = DOMAIN up /\ up.stage = "ensure"
          /\ up'.targets = up.targets /\ up'.backend = up.backend
          /\ \/ up'.stage = "write" /\ up'.left = Writes(up.targets)
             \/ up'.stage = "download" /\ up'.left = up.left /\ jar = "absent"
      BY <1>5 DEF ensure_jdi_sidecar_available, Keep, Files, KeepsInv
    <2>2. CASE plan.program # "update"
      BY <1>0, <2>1, <2>2 DEF KeepsInv
    <2>3. CASE plan.program = "update"
      <3>1. Remembered /\ jar # "absent"
        BY <2>1, <2>3 DEF KeepsInv
      <3>2. up'.stage = "write" /\ up'.left = Writes(up.targets)
        BY <2>1, <3>1
      <3>3. Rewritten'
        BY <2>1, <3>1, <3>2, WritesListed DEF Rewritten
      <3>4. Remembered'
        BY <1>0, <2>1, <3>1 DEF Remembered
      <3> QED BY <1>0, <2>1, <3>1, <3>2, <3>3, <3>4, WritesListed DEF KeepsInv
    <2> QED BY <2>2, <2>3
  <1>6. CASE remove_target
    <2>1. UNCHANGED <<jar, latest>> /\ up.stage = "remove"
      BY <1>6 DEF remove_target, Keep
    <2>2. DOMAIN home'.skill = Targets
      BY <1>0, <1>6, SkillsKept DEF remove_target
    <2>3. /\ DOMAIN up' = DOMAIN up /\ up'.targets = up.targets /\ up'.backend = up.backend
          /\ up'.left = up.left \/ (up.left # <<>> /\ up'.left = Tail(up.left))
          /\ up'.stage \in {"remove", "failed", AfterRemoval}
      <3>1. CASE up.left = <<>> /\ up' = [up EXCEPT !.stage = AfterRemoval]
        BY <3>1 DEF KeepsInv
      <3>2. CASE up.left # <<>> /\ up' = [up EXCEPT !.left = Tail(@)]
        BY <2>1, <3>2 DEF KeepsInv
      <3>3. CASE up' = [up EXCEPT !.stage = "failed"]
        BY <3>3 DEF KeepsInv
      <3> QED BY <1>6, <3>1, <3>2, <3>3 DEF remove_target
    <2>4. plan.program = "update" => up'.left \in Seq(AgentFiles) /\ up'.stage \in {"remove", "failed", "installer"}
      BY <1>0, <2>3, HeadTailProperties DEF AfterRemoval
    <2> QED BY <1>0, <2>1, <2>2, <2>3, <2>4 DEF KeepsInv, Remembered
  <1>7. CASE install_target
    <2>1. UNCHANGED <<jar, latest>> /\ up.stage = "write" /\ DOMAIN up' = DOMAIN up
          /\ up'.targets = up.targets /\ up'.backend = up.backend
      BY <1>7 DEF install_target, Keep, KeepsInv
    <2>2. DOMAIN home'.skill = Targets
      BY <1>0, <1>7, SkillsKept DEF install_target
    <2>3. CASE plan.program # "update"
      BY <1>0, <2>1, <2>2, <2>3 DEF KeepsInv
    <2>4. ASSUME plan.program = "update" PROVE KeepsInv'
      <3>1. Remembered /\ Rewritten /\ jar # "absent" /\ up.left \in Seq(AgentFiles)
        BY <2>1, <2>4 DEF KeepsInv
      <3>2. Remembered'
        BY <1>0, <2>1, <3>1 DEF Remembered
      <3>3. CASE up.left = <<>> /\ up'.stage = "done" /\ UNCHANGED home /\ up'.left = up.left
        <4>1. ToSet(up.left) = {}
          BY <3>3 DEF ToSet
        <4>2. Rewritten'
          BY <2>1, <3>1, <3>3, <4>1 DEF Rewritten, Written
        <4> QED BY <1>0, <2>1, <2>2, <3>1, <3>2, <3>3, <4>2 DEF KeepsInv
      <3>4. CASE /\ up.left # <<>> /\ ~CannotRead(Head(up.left), home)
                 /\ home' = InstallFile(Head(up.left), up.backend, home)
                 /\ up'.stage = "write" /\ up'.left = Tail(up.left)
        <4>1. Head(up.left) \in AgentFiles /\ Tail(up.left) \in Seq(AgentFiles)
          BY <3>1, <3>4, HeadTailProperties
        <4>2. \A file \in ToSet(up.left) : file = Head(up.left) \/ file \in ToSet(Tail(up.left))
          <5>1. /\ Len(up.left) \in Nat /\ DOMAIN up.left = 1 .. Len(up.left)
                /\ Len(Tail(up.left)) = Len(up.left) - 1 /\ Head(up.left) = up.left[1]
                /\ \A i \in 1 .. Len(Tail(up.left)) : Tail(up.left)[i] = up.left[i + 1]
                /\ DOMAIN Tail(up.left) = 1 .. Len(Tail(up.left))
            BY <3>1, <3>4, <4>1, HeadTailProperties, LenProperties
          <5>2. ASSUME NEW i \in 1 .. Len(up.left), i # 1 PROVE up.left[i] \in ToSet(Tail(up.left))
            <6>1. i - 1 \in DOMAIN Tail(up.left) /\ Tail(up.left)[i - 1] = up.left[i]
              BY <5>1, <5>2
            <6> QED BY <6>1 DEF ToSet
          <5> QED BY <5>1, <5>2 DEF ToSet
        <4>3. Written(Head(up.left), home', up.backend)
          BY <1>0, <3>4, <4>1, InstallWrites
        <4>4. ASSUME NEW t \in ToSet(up.targets), NEW file \in FilesIn(t)
              PROVE  file \in ToSet(Tail(up.left)) \/ Written(file, home', up.backend)
          <5>1. file \in AgentFiles
            <6>1. t \in Targets
              BY <3>1, ConfiguredTargets, ElementOfSeq, LenProperties DEF Remembered, ToSet
            <6> QED BY <6>1, FilesAre, ElementOfSeq, LenProperties DEF FilesIn, ToSet
          <5>2. file \in ToSet(up.left) \/ Written(file, home, up.backend)
            BY <3>1 DEF Rewritten
          <5>3. Written(file, home, up.backend) => Written(file, home', up.backend)
            BY <1>0, <3>4, <4>1, <5>1, InstallWrites
          <5> QED BY <4>2, <4>3, <5>2, <5>3
        <4>5. Rewritten'
          BY <2>1, <3>4, <4>4 DEF Rewritten, Written
        <4> QED BY <1>0, <2>1, <2>2, <3>1, <3>2, <3>4, <4>1, <4>5 DEF KeepsInv
      <3>5. CASE up'.stage \in {"ensure", "failed"} /\ UNCHANGED home /\ up'.left = up.left
        BY <1>0, <2>1, <2>2, <3>1, <3>2, <3>5 DEF KeepsInv
      <3> QED BY <1>7, <3>3, <3>4, <3>5 DEF install_target, KeepsInv
    <2> QED BY <2>3, <2>4
  <1>8. CASE move_self_aside \/ install_command
    <2>1. /\ UNCHANGED <<home, jar, latest>> /\ DOMAIN up' = DOMAIN up
          /\ up.stage \in {"installer", "installing"} /\ up'.stage \in {"installing", "download", "failed"}
          /\ up'.targets = up.targets /\ up'.backend = up.backend /\ up'.left = up.left
      BY <1>8 DEF move_self_aside, install_command, Keep, KeepsInv
    <2> QED BY <1>0, <2>1 DEF KeepsInv, Remembered
  <1>9. CASE download_archive \/ verify_archive_checksum
    <2>1. /\ UNCHANGED <<home, jar, latest>> /\ DOMAIN up' = DOMAIN up
          /\ up.stage \in {"download", "checksum"} /\ up'.stage \in {"checksum", "replace", "failed"}
          /\ up'.targets = up.targets /\ up'.backend = up.backend /\ up'.left = up.left
          /\ up'.stage = "failed" \/ up'.archive = latest \/ (up.stage = "checksum" /\ up'.archive = up.archive)
      <3>1. UNCHANGED <<home, jar, latest>>
        BY <1>9 DEF download_archive, verify_archive_checksum, Step, Keep, Files
      <3>2. CASE up.stage = "download" /\ up' = [up EXCEPT !.stage = "checksum", !.archive = latest]
        BY <3>1, <3>2 DEF KeepsInv
      <3>3. CASE up.stage = "checksum" /\ up' = [up EXCEPT !.sum = latest, !.stage = "replace"]
        BY <3>1, <3>3 DEF KeepsInv
      <3>4. CASE up.stage = "checksum" /\ up' = [up EXCEPT !.sum = latest, !.stage = "failed"]
        BY <3>1, <3>4 DEF KeepsInv
      <3>5. CASE up.stage \in {"download", "checksum"} /\ up' = [up EXCEPT !.stage = "failed"]
        BY <3>1, <3>5 DEF KeepsInv
      <3>6. CASE download_archive
        BY <3>2, <3>5, <3>6 DEF download_archive, Step
      <3>7. CASE verify_archive_checksum
        BY <3>3, <3>4, <3>5, <3>7 DEF verify_archive_checksum, Step
      <3> QED BY <1>9, <3>6, <3>7
    <2> QED BY <1>0, <2>1 DEF KeepsInv, Remembered
  <1>10. CASE install_sidecar_file
    <2>1. /\ UNCHANGED <<home, latest>> /\ DOMAIN up' = DOMAIN up
          /\ up'.targets = up.targets /\ up'.backend = up.backend /\ up'.left = up.left /\ up'.archive = up.archive
          /\ \/ up.stage = "replace" /\ up'.stage \in {"rename", "failed"}
             \/ up.stage = "rename" /\ up'.stage = "ensure" /\ jar' = up.archive
             \/ up.stage = "rename" /\ up'.stage = "failed"
      BY <1>10 DEF install_sidecar_file, Keep, KeepsInv
    <2> QED BY <1>0, <2>1 DEF KeepsInv, Remembered
  <1>11. CASE Publish
    BY <1>0, <1>11 DEF Publish, launchVars, KeepsInv, Remembered, Rewritten
  <1> QED BY <1>1, <1>2, <1>3, <1>4, <1>5, <1>6, <1>7, <1>8, <1>9, <1>10, <1>11, OthersMove DEF UpdaterStep

\* An update that gets to its end has registered jdbg again wherever it was
\* registered, with the backend that was preferred, and a jar is in its place;
\* whatever happened meanwhile to the daemon, the release or the files it tried twice.
THEOREM UpdateKeepsHolds == Spec => []UpdateKeeps
  <1>1. Init => ForeignInv /\ KeepsInv
    BY ForeignInit, KeepsInit
  <1>2. (ForeignInv /\ KeepsInv) /\ [Next]_vars => (ForeignInv /\ KeepsInv)'
    BY ForeignStep, KeepsStep
  <1>3. ForeignInv /\ KeepsInv => UpdateKeeps
    <2> SUFFICES ASSUME ForeignInv, KeepsInv, plan.program = "update", up.stage = "done"
                 PROVE  /\ \A t \in ToSet(configured_targets_or_default(plan.home)) :
                             /\ detect_configured(t, home)
                             /\ home.skill[t] = configured_backend_or_default(plan.home)
                        /\ jar # "absent"
      BY Zenon DEF UpdateKeeps, AtStage
    <2>1. Remembered /\ Rewritten /\ jar # "absent"
      BY DEF KeepsInv
    <2>2. ASSUME NEW t \in ToSet(configured_targets_or_default(plan.home))
          PROVE  detect_configured(t, home) /\ home.skill[t] = configured_backend_or_default(plan.home)
      <3>1. t \in Targets
        BY ConfiguredTargets, ElementOfSeq, LenProperties DEF ToSet
      <3>2. \A file \in FilesIn(t) : Written(file, home, up.backend)
        BY <2>1 DEF Remembered, Rewritten
      <3>3. SkillFile[t] \in FilesIn(t)
        BY <3>1, FilesAre DEF Targets
      <3>4. home.skill[t] = up.backend /\ up.backend \in {"jdi", "jdb"}
        BY <2>1, <3>1, <3>2, <3>3, PreferenceStated DEF Written, Remembered
      <3>5. CASE t = "claude"
        BY <2>1, <3>1, <3>2, <3>4, <3>5, FilesAre DEF Written, detect_configured, Remembered
      <3>6. CASE t = "codex"
        BY <2>1, <3>1, <3>2, <3>4, <3>6, FilesAre DEF Written, detect_configured, Remembered
      <3>7. CASE t = "opencode"
        BY <2>1, <3>1, <3>2, <3>4, <3>7, FilesAre DEF Written, detect_configured, Remembered
      <3>8. CASE t = "pi"
        BY <2>1, <3>4, <3>8 DEF detect_configured, Remembered
      <3> QED BY <3>1, <3>5, <3>6, <3>7, <3>8 DEF Targets
    <2> QED BY <2>1, <2>2
  <1> QED BY <1>1, <1>2, <1>3, PTL DEF Spec
=============================================================================
