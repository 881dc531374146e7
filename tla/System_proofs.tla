---------------------------- MODULE System_proofs ----------------------------
(***************************************************************************)
(* Proofs about DaemonLife and System.  For any number of processes,       *)
(* clients and crashes, at most one process holds the name of the socket,  *)
(* and daemon.json names the daemon that serves; and whatever the          *)
(* sessions, the children and the plans are, all of it is one server at a  *)
(* time, as OneServer says.                                                *)
(***************************************************************************)
EXTENDS SystemProperties, SequenceTheorems, TLAPS

-----------------------------------------------------------------------------
(* DaemonLife: one daemon, and registered while it serves.                 *)

\* A request is there as long as its client is busy with it, and a connection
\* as long as its client waits for a response.
Occupied ==
    \A c \in Clients : /\ client[c].at # "idle" => todo[c] # <<>>
                       /\ thread[c] # "none" =>
                             client[c].at = "sent" /\ client[c].peer \in Daemons

\* The process that has the name bound is the one the name leads to: what makes
\* OneDaemon inductive. Where a file stands for the name it is false.
NameLeadsToHolder ==
    ~NameOutlivesProcess => \A d \in Daemons : daemon[d] \in Holding => socket = d

HolderInv == DaemonTypeOK /\ Occupied /\ NameLeadsToHolder
DaemonInv == HolderInv /\ RegisteredWhileServing

LEMMA InitInv == DaemonInit /\ todo \in [Clients -> Seq(Requests)] => DaemonInv
  <1> SUFFICES ASSUME DaemonInit, todo \in [Clients -> Seq(Requests)]
               PROVE  DaemonInv
    OBVIOUS
  <1> USE DaemonAssumption, CrashAssumption DEF DaemonInit, Stages, Starting, Holding
  <1>1. FirstDaemon \in Daemons
    BY DEF FirstDaemon
  <1>w. PICK stage \in {"unborn", "serve", "gone"}, ended \in SUBSET (Daemons \ {FirstDaemon}) :
           World(stage, ended)
    OBVIOUS
  <1>2. DaemonTypeOK
    <2>1. daemon \in [Daemons -> Stages]
      BY <1>w DEF World
    <2>2. socket \in Daemons \cup {None} /\ registered \in Daemons \cup {None}
          /\ listening \subseteq Daemons
      BY <1>1, <1>w DEF World
    <2>3. client \in [Clients -> [at : {"idle", "connect", "spawn", "poll", "sent"}, try : {1, 2},
                                 peer : Daemons \cup {None}, ok : BOOLEAN]]
      BY DEF Idle, Place
    <2>4. crashes \in 0 .. MaxCrashes
      <3>1. crashes = 0
        OBVIOUS
      <3> HIDE DEF DaemonInit
      <3> QED BY <3>1
    <2> QED BY <2>1, <2>2, <2>3, <2>4 DEF DaemonTypeOK
  <1>3. Occupied
    BY DEF Occupied, Idle, Place
  <1>4. \A d \in Daemons : daemon[d] \in Holding =>
                             d = FirstDaemon /\ socket = d /\ registered = d
    <2> HIDE DEF DaemonInit
    <2> SUFFICES ASSUME NEW d \in Daemons, daemon[d] \in Holding
                 PROVE  d = FirstDaemon /\ socket = d /\ registered = d
      OBVIOUS
    <2>1. daemon[d] = IF d = FirstDaemon THEN stage ELSE IF d \in ended THEN "gone" ELSE "unborn"
      BY <1>w DEF World
    <2>2. d = FirstDaemon /\ stage = "serve"
      BY <2>1
    <2>3. World("serve", ended)
      BY <1>w, <2>2
    <2> QED BY <2>2, <2>3 DEF World
  <1>5. NameLeadsToHolder /\ RegisteredWhileServing
    BY <1>4 DEF NameLeadsToHolder, RegisteredWhileServing
  <1> QED BY <1>2, <1>3, <1>5 DEF DaemonInv, HolderInv

-----------------------------------------------------------------------------
(* Steps of the processes.                                                 *)

\* What a step that moves one process and no client keeps of the types.
LEMMA ProcessTypes ==
    ASSUME DaemonTypeOK, Occupied, NEW d \in Daemons, NEW s \in Stages, Goto(d, s),
           platform' = platform, UNCHANGED clientVars,
           socket' \in Daemons \cup {None}, registered' \in Daemons \cup {None},
           listening' \subseteq Daemons, stopping' = stopping, crashes' = crashes
    PROVE  DaemonTypeOK' /\ Occupied'
  BY DEF DaemonTypeOK, Occupied, Goto, clientVars

\* A process takes the name only when nobody holds it, and keeps it to its end.
LEMMA StartInv ==
    ASSUME HolderInv, NEW d \in Daemons, DaemonStart(d)
    PROVE  HolderInv'
  <1> USE DaemonAssumption DEF Stages, Starting, Holding
  <1>0. /\ DaemonTypeOK /\ Occupied /\ NameLeadsToHolder
        /\ daemon \in [Daemons -> Stages] /\ socket \in Daemons \cup {None}
        /\ registered \in Daemons \cup {None} /\ listening \subseteq Daemons
    BY DEF HolderInv, DaemonTypeOK
  <1>1. CASE Bind(d)
    <2>1. DaemonTypeOK' /\ Occupied'
      <3>1. CASE socket = None
        <4>1. Goto(d, "listen")
          BY <1>1, <3>1 DEF Bind
        <4> QED BY <1>0, <1>1, <3>1, <4>1, ProcessTypes DEF Bind
      <3>2. CASE socket # None /\ daemon[d] = "bind"
        <4>1. Goto(d, "probe")
          BY <1>1, <3>2 DEF Bind
        <4> QED BY <1>0, <1>1, <3>2, <4>1, ProcessTypes DEF Bind
      <3>3. CASE socket # None /\ daemon[d] # "bind"
        <4>1. Goto(d, "gone")
          BY <1>1, <3>3 DEF Bind
        <4> QED BY <1>0, <1>1, <3>3, <4>1, ProcessTypes DEF Bind
      <3> QED BY <3>1, <3>2, <3>3
    <2>2. NameLeadsToHolder'
      BY <1>0, <1>1 DEF Bind, Goto, NameLeadsToHolder, NameOutlivesProcess
    <2> QED BY <2>1, <2>2 DEF HolderInv
  <1>2. CASE Listen(d)
    <2>1. DaemonTypeOK' /\ Occupied'
      BY <1>0, <1>2, ProcessTypes DEF Listen
    <2>2. NameLeadsToHolder'
      BY <1>0, <1>2 DEF Listen, Goto, NameLeadsToHolder, NameOutlivesProcess
    <2> QED BY <2>1, <2>2 DEF HolderInv
  <1>3. CASE Probe(d)
    <2>1. DaemonTypeOK' /\ Occupied'
      <3>1. CASE Reachable
        BY <1>0, <1>3, <3>1, ProcessTypes DEF Probe
      <3>2. CASE ~Reachable
        BY <1>0, <1>3, <3>2, ProcessTypes DEF Probe
      <3> QED BY <3>1, <3>2
    <2>2. NameLeadsToHolder'
      BY <1>0, <1>3 DEF Probe, Goto, NameLeadsToHolder, NameOutlivesProcess
    <2> QED BY <2>1, <2>2 DEF HolderInv
  <1>4. CASE Reclaim(d)
    <2>1. DaemonTypeOK' /\ Occupied'
      BY <1>0, <1>4, ProcessTypes DEF Reclaim, remove_stale_socket
    <2>2. NameLeadsToHolder'
      BY <1>0, <1>4 DEF Reclaim, remove_stale_socket, Goto, NameLeadsToHolder, NameOutlivesProcess
    <2> QED BY <2>1, <2>2 DEF HolderInv
  <1>5. CASE write_daemon(d)
    <2>1. DaemonTypeOK' /\ Occupied'
      BY <1>0, <1>5, ProcessTypes DEF write_daemon
    <2>2. NameLeadsToHolder'
      BY <1>0, <1>5 DEF write_daemon, Goto, NameLeadsToHolder,
                        NameOutlivesProcess
    <2> QED BY <2>1, <2>2 DEF HolderInv
  <1> QED BY <1>1, <1>2, <1>3, <1>4, <1>5 DEF DaemonStart

\* What the end of a process does: its name is free, and nobody else's is.
LEMMA EndsInv ==
    ASSUME HolderInv, NEW d \in Daemons, Ends(d), crashes' \in 0 .. MaxCrashes
    PROVE  HolderInv'
  <1> USE DaemonAssumption DEF Stages, Starting, Holding
  <1>0. /\ DaemonTypeOK /\ Occupied /\ NameLeadsToHolder
    BY DEF HolderInv
  <1>1. DaemonTypeOK'
    BY <1>0 DEF Ends, Closes, Goto, DaemonTypeOK
  <1>2. Occupied'
    BY <1>0 DEF Ends, Closes, Occupied
  <1>3. NameLeadsToHolder'
    BY <1>0 DEF Ends, Closes, Goto, DaemonTypeOK, NameLeadsToHolder,
                NameOutlivesProcess
  <1> QED BY <1>1, <1>2, <1>3 DEF HolderInv

\* daemon.json is emptied only by the process that holds the name.
LEMMA EndInv ==
    ASSUME HolderInv, NEW d \in Daemons, DaemonEnd(d) \/ ShutDown(d) \/ Crash(d)
    PROVE  HolderInv'
  <1> USE DaemonAssumption, CrashAssumption DEF Stages, Starting, Holding
  <1>0. /\ DaemonTypeOK /\ Occupied /\ NameLeadsToHolder
        /\ daemon \in [Daemons -> Stages] /\ socket \in Daemons \cup {None}
        /\ registered \in Daemons \cup {None} /\ listening \subseteq Daemons
        /\ crashes \in 0 .. MaxCrashes
    BY DEF HolderInv, DaemonTypeOK
  <1>1. CASE LeaveLoop(d)
    <2>1. DaemonTypeOK' /\ Occupied'
      BY <1>0, <1>1, ProcessTypes DEF LeaveLoop
    <2>2. NameLeadsToHolder'
      BY <1>0, <1>1 DEF LeaveLoop, Goto, NameLeadsToHolder,
                        NameOutlivesProcess
    <2> QED BY <2>1, <2>2 DEF HolderInv
  <1>2. CASE ShutDown(d)
    <2>1. DaemonTypeOK' /\ Occupied'
      BY <1>0, <1>2, ProcessTypes DEF ShutDown
    <2>2. NameLeadsToHolder'
      BY <1>0, <1>2 DEF ShutDown, Goto, NameLeadsToHolder,
                        NameOutlivesProcess
    <2> QED BY <2>1, <2>2 DEF HolderInv
  <1>3. CASE Unregister(d)
    <2>1. DaemonTypeOK' /\ Occupied'
      BY <1>0, <1>3, ProcessTypes DEF Unregister
    <2>2. NameLeadsToHolder'
      BY <1>0, <1>3 DEF Unregister, Goto, NameLeadsToHolder,
                        NameOutlivesProcess
    <2> QED BY <2>1, <2>2 DEF HolderInv
  <1>4. CASE Unlink(d)
    <2>1. DaemonTypeOK' /\ Occupied'
      BY <1>0, <1>4, ProcessTypes DEF Unlink, remove_stale_socket
    <2>2. NameLeadsToHolder'
      BY <1>0, <1>4 DEF Unlink, remove_stale_socket, Goto, NameLeadsToHolder, NameOutlivesProcess
    <2> QED BY <2>1, <2>2 DEF HolderInv
  <1>5. CASE Exit(d)
    BY <1>0, <1>5, EndsInv DEF Exit
  <1>6. CASE Crash(d)
    <2>1. crashes' \in 0 .. MaxCrashes
      BY <1>0, <1>6 DEF Crash
    <2> QED BY <1>6, <2>1, EndsInv DEF Crash
  <1>7. CASE CloseListener(d)
    <2>1. DaemonTypeOK'
      BY <1>0, <1>7 DEF CloseListener, Closes, Goto, DaemonTypeOK
    <2>2. Occupied'
      BY <1>0, <1>7 DEF CloseListener, Closes, Occupied
    <2>3. NameLeadsToHolder'
      BY <1>0, <1>7 DEF CloseListener, Closes, Goto, DaemonTypeOK, NameLeadsToHolder,
                        NameOutlivesProcess
    <2> QED BY <2>1, <2>2, <2>3 DEF HolderInv
  <1> QED BY <1>1, <1>2, <1>3, <1>4, <1>5, <1>6, <1>7 DEF DaemonEnd

-----------------------------------------------------------------------------
(* Steps of the clients and of the handler threads.                        *)

\* A step that leaves the processes alone keeps what is said about them.
LEMMA ProcessesUntouched ==
    ASSUME NameLeadsToHolder, UNCHANGED daemonVars
    PROVE  NameLeadsToHolder'
  BY DEF daemonVars, NameLeadsToHolder, NameOutlivesProcess

\* A busy client goes on to another place, or is done with its request.
LEMMA ClientTypes ==
    ASSUME DaemonTypeOK, Occupied, NEW c \in Clients, todo[c] # <<>>, NEW ok \in BOOLEAN,
           NEW at \in {"connect", "spawn", "poll"}, NEW try \in {1, 2},
           To(c, at, try) \/ Finish(c, ok),
           thread' = [thread EXCEPT ![c] = "none"] \/ (thread[c] = "none" /\ UNCHANGED thread),
           daemon' \in [Daemons -> Stages],
           UNCHANGED <<platform, socket, listening, registered, stopping, crashes>>
    PROVE  DaemonTypeOK' /\ Occupied'
  <1> DEFINE Places == [at : {"idle", "connect", "spawn", "poll", "sent"}, try : {1, 2},
                        peer : Daemons \cup {None}, ok : BOOLEAN]
  <1>1. todo[c] \in Seq(Requests) /\ Tail(todo[c]) \in Seq(Requests)
    BY HeadTailProperties DEF DaemonTypeOK
  <1>2. todo' \in [Clients -> Seq(Requests)]
    BY <1>1 DEF To, Finish, DaemonTypeOK
  <1>3. PICK p \in Places : client' = [client EXCEPT ![c] = p] /\ p.at # "sent"
    <2>0. Place(at, try, None, FALSE) \in Places /\ Place("idle", 1, None, ok) \in Places
      BY DEF Place
    <2>1. CASE To(c, at, try)
      <3>1. Place(at, try, None, FALSE).at # "sent"
        BY DEF Place
      <3> QED BY <2>0, <2>1, <3>1 DEF To
    <2>2. CASE Finish(c, ok)
      <3>1. Place("idle", 1, None, ok).at # "sent"
        BY DEF Place
      <3> QED BY <2>0, <2>2, <3>1 DEF Finish
    <2> QED BY <2>1, <2>2
  <1>4. thread' = [thread EXCEPT ![c] = "none"]
    BY DEF DaemonTypeOK
  <1>5. DaemonTypeOK'
    BY <1>2, <1>3, <1>4 DEF DaemonTypeOK
  <1>6. client'[c].at # "idle" => todo' = todo
    BY <1>3 DEF To, Finish, Place, DaemonTypeOK
  <1>7. \A e \in Clients \ {c} : todo'[e] = todo[e]
    BY DEF To, Finish, DaemonTypeOK
  <1>8. Occupied'
    BY <1>3, <1>4, <1>6, <1>7 DEF DaemonTypeOK, Occupied
  <1> QED BY <1>5, <1>8

LEMMA ConnectedInv ==
    ASSUME HolderInv, NEW c \in Clients, todo[c] # <<>>, Connected(c)
    PROVE  HolderInv'
  <1>0. DaemonTypeOK /\ Occupied /\ NameLeadsToHolder
    BY DEF HolderInv
  <1>1. DaemonTypeOK'
    BY <1>0 DEF Connected, Place, Reachable, DaemonTypeOK, daemonVars
  <1>2. Occupied'
    BY <1>0 DEF Connected, Place, Reachable, Occupied, DaemonTypeOK
  <1>3. NameLeadsToHolder'
    BY <1>0, ProcessesUntouched DEF Connected
  <1> QED BY <1>1, <1>2, <1>3 DEF HolderInv

\* A client starts a process that was not there: it holds nothing yet.
LEMMA SpawnInv ==
    ASSUME HolderInv, NEW c \in Clients, spawn_daemon_detached(c)
    PROVE  HolderInv'
  <1> USE DEF Stages, Starting, Holding
  <1>0. /\ DaemonTypeOK /\ Occupied /\ NameLeadsToHolder
        /\ daemon \in [Daemons -> Stages] /\ client[c].try \in {1, 2}
    BY DEF HolderInv, DaemonTypeOK
  <1>1. todo[c] # <<>> /\ thread[c] = "none" /\ UNCHANGED thread
    BY <1>0 DEF spawn_daemon_detached, Occupied, DaemonTypeOK
  <1>2. CASE \E d \in Daemons : daemon[d] = "unborn"
    <2>1. NewPid \in Daemons /\ daemon[NewPid] = "unborn"
      BY <1>2 DEF NewPid
    <2>2. CASE Goto(NewPid, "bind") /\ To(c, "poll", client[c].try)
      <3>1. daemon' \in [Daemons -> Stages]
        BY <1>0, <2>1, <2>2 DEF Goto
      <3>2. DaemonTypeOK' /\ Occupied'
        BY <1>0, <1>1, <2>2, <3>1, ClientTypes DEF spawn_daemon_detached
      <3>3. NameLeadsToHolder'
        BY <1>0, <2>1, <2>2 DEF spawn_daemon_detached, Goto, NameLeadsToHolder, NameOutlivesProcess
      <3> QED BY <3>2, <3>3 DEF HolderInv
    <2> QED BY <1>2, <2>2 DEF spawn_daemon_detached
  <1>3. CASE ~ \E d \in Daemons : daemon[d] = "unborn"
    <2>1. Finish(c, FALSE) /\ UNCHANGED <<daemon, platform, socket, listening, registered,
                                          stopping, crashes>>
      BY <1>3 DEF spawn_daemon_detached
    <2>2. DaemonTypeOK' /\ Occupied'
      BY <1>0, <1>1, <2>1, ClientTypes
    <2>3. NameLeadsToHolder'
      BY <1>0, <2>1, ProcessesUntouched DEF daemonVars
    <2> QED BY <2>2, <2>3 DEF HolderInv
  <1> QED BY <1>2, <1>3

LEMMA ClientInv ==
    ASSUME HolderInv, NEW c \in Clients, Ask(c) \/ ClientStep(c)
    PROVE  HolderInv'
  <1>0. /\ DaemonTypeOK /\ Occupied /\ NameLeadsToHolder
        /\ daemon \in [Daemons -> Stages] /\ client[c].try \in {1, 2}
    BY DEF HolderInv, DaemonTypeOK
  <1>1. client[c].at # "sent" => thread[c] = "none"
    BY <1>0 DEF Occupied
  <1>2. (client[c].at # "idle" \/ thread[c] # "none") => todo[c] # <<>>
    BY <1>0 DEF Occupied
  <1>3. CASE Ask(c)
    <2>1. \E at \in {"connect", "spawn", "poll"} : To(c, at, 1)
      BY <1>3 DEF Ask
    <2>2. DaemonTypeOK' /\ Occupied'
      BY <1>0, <1>1, <1>3, <2>1, ClientTypes DEF Ask, daemonVars
    <2> QED BY <1>0, <1>3, <2>2, ProcessesUntouched DEF Ask, HolderInv
  <1>4. CASE client[c].at = "connect" /\ Refused(c)
    <2>1. Request(c).how \in {"send", "existing", "ready"}
      <3>1. todo[c] \in Seq(Requests) /\ todo[c] # <<>>
        BY <1>0, <1>2, <1>4 DEF DaemonTypeOK
      <3>2. Head(todo[c]) \in Requests
        BY <3>1, HeadTailProperties
      <3> QED BY <3>2, RequestAssumption DEF Request
    <2>2. \/ To(c, "spawn", client[c].try) \/ Finish(c, FALSE) \/ To(c, "poll", 1)
      BY <1>4, <2>1 DEF Refused
    <2>3. DaemonTypeOK' /\ Occupied'
      BY <1>0, <1>1, <1>2, <1>4, <2>2, ClientTypes DEF Refused, daemonVars
    <2> QED BY <1>0, <1>4, <2>3, ProcessesUntouched DEF Refused, HolderInv
  <1>5. CASE client[c].at \in {"connect", "poll"} /\ Connected(c)
    BY <1>2, <1>5, ConnectedInv
  <1>6. CASE spawn_daemon_detached(c)
    BY <1>6, SpawnInv
  <1>7. CASE Deadline(c)
    <2>1. DaemonTypeOK' /\ Occupied'
      BY <1>0, <1>1, <1>2, <1>7, ClientTypes DEF Deadline, daemonVars
    <2> QED BY <1>0, <1>7, <2>1, ProcessesUntouched DEF Deadline, HolderInv
  <1>8. CASE ReadResponse(c)
    <2>1. DaemonTypeOK' /\ Occupied'
      BY <1>0, <1>2, <1>8, ClientTypes DEF ReadResponse, daemonVars
    <2> QED BY <1>0, <1>8, <2>1, ProcessesUntouched DEF ReadResponse, HolderInv
  <1>9. CASE Transient(c)
    <2>1. To(c, "connect", 2) \/ To(c, "poll", 1) \/ Finish(c, FALSE)
      BY <1>0, <1>9 DEF Transient
    <2>2. DaemonTypeOK' /\ Occupied'
      BY <1>0, <1>2, <1>9, <2>1, ClientTypes DEF Transient, daemonVars
    <2> QED BY <1>0, <1>9, <2>2, ProcessesUntouched DEF Transient, HolderInv
  <1> QED BY <1>3, <1>4, <1>5, <1>6, <1>7, <1>8, <1>9 DEF ClientStep, try_connect, Poll

LEMMA ThreadInv ==
    ASSUME HolderInv, NEW c \in Clients,
           ThreadStep(c) \/ Worked(c) \/ \E d \in Daemons : Accept(d, c)
    PROVE  HolderInv'
  <1>0. DaemonTypeOK /\ Occupied /\ NameLeadsToHolder
    BY DEF HolderInv
  <1>1. CASE daemon_stop_response(c)
    <2>1. client[c].peer \in Daemons
      BY <1>0, <1>1 DEF daemon_stop_response, Occupied
    <2>2. DaemonTypeOK'
      BY <1>0, <1>1, <2>1 DEF daemon_stop_response, DaemonTypeOK
    <2>3. Occupied'
      BY <1>0, <1>1 DEF daemon_stop_response, DaemonTypeOK, Occupied
    <2>4. NameLeadsToHolder'
      BY <1>0, <1>1 DEF daemon_stop_response, NameLeadsToHolder,
                        NameOutlivesProcess
    <2> QED BY <2>2, <2>3, <2>4 DEF HolderInv
  <1>2. CASE \/ write_response(c) \/ Worked(c) \/ \E d \in Daemons : Accept(d, c)
    <2>1. /\ thread[c] # "none" /\ UNCHANGED <<daemonVars, client, todo>>
          /\ \E s \in {"running", "replying", "written"} : thread' = [thread EXCEPT ![c] = s]
      BY <1>2 DEF write_response, Worked, Accept
    <2>2. DaemonTypeOK'
      BY <1>0, <2>1 DEF DaemonTypeOK, daemonVars
    <2>3. Occupied'
      BY <1>0, <2>1 DEF DaemonTypeOK, Occupied
    <2>4. NameLeadsToHolder'
      BY <1>0, <2>1, ProcessesUntouched
    <2> QED BY <2>2, <2>3, <2>4 DEF HolderInv
  <1> QED BY <1>1, <1>2 DEF ThreadStep

-----------------------------------------------------------------------------

\* Every step, and every step that changes nothing, keeps the name with its holder.
LEMMA NextHolderInv == HolderInv /\ [DaemonNext]_dvars => HolderInv'
  <1> SUFFICES ASSUME HolderInv, [DaemonNext]_dvars
               PROVE  HolderInv'
    OBVIOUS
  <1>1. CASE UNCHANGED dvars
    BY <1>1 DEF dvars, daemonVars, clientVars, HolderInv, DaemonTypeOK, Occupied,
                NameLeadsToHolder, NameOutlivesProcess
  <1>2. CASE \E d \in Daemons : DaemonStart(d) \/ DaemonEnd(d) \/ ShutDown(d) \/ Crash(d)
    BY <1>2, StartInv, EndInv
  <1>3. CASE \E d \in Daemons, c \in Clients : Accept(d, c)
    BY <1>3, ThreadInv
  <1>4. CASE \E c \in Clients : Ask(c) \/ ClientStep(c) \/ ThreadStep(c) \/ Worked(c)
    BY <1>4, ClientInv, ThreadInv
  <1> QED BY <1>1, <1>2, <1>3, <1>4 DEF DaemonNext

-----------------------------------------------------------------------------
(* The entry in daemon.json.                                               *)

\* Only a process that has the name bound writes or removes the entry.
LEMMA RegisteredStep ==
    ASSUME HolderInv, RegisteredWhileServing, NEW d \in Daemons,
           DaemonStart(d) \/ DaemonEnd(d) \/ ShutDown(d) \/ Crash(d)
    PROVE  RegisteredWhileServing'
  <1> USE DaemonAssumption DEF Stages, Starting, Holding, RegisteredWhileServing,
                               NameOutlivesProcess, Goto
  <1>0. /\ NameLeadsToHolder /\ daemon \in [Daemons -> Stages]
    BY DEF HolderInv, DaemonTypeOK
  <1>1. CASE Bind(d) \/ Listen(d)
    BY <1>0, <1>1 DEF Bind, Listen
  <1>2. CASE Probe(d) \/ Reclaim(d)
    BY <1>0, <1>2 DEF Probe, Reclaim
  <1>3. CASE write_daemon(d)
    BY <1>0, <1>3 DEF write_daemon, NameLeadsToHolder
  <1>4. CASE LeaveLoop(d) \/ Unlink(d)
    BY <1>0, <1>4 DEF LeaveLoop, Unlink
  <1>5. CASE ShutDown(d) \/ Unregister(d)
    BY <1>0, <1>5 DEF ShutDown, Unregister, NameLeadsToHolder
  <1>6. CASE CloseListener(d) \/ Exit(d) \/ Crash(d)
    BY <1>0, <1>6 DEF CloseListener, Exit, Crash, Ends
  <1> QED BY <1>1, <1>2, <1>3, <1>4, <1>5, <1>6 DEF DaemonStart, DaemonEnd

\* A client that starts a process starts one that does not serve yet; no other
\* step of a client or a thread changes a process or the entry.
LEMMA RegisteredBeside ==
    ASSUME HolderInv, RegisteredWhileServing, NEW c \in Clients,
           Ask(c) \/ ClientStep(c) \/ ThreadStep(c) \/ Worked(c) \/ \E d \in Daemons : Accept(d, c)
    PROVE  RegisteredWhileServing'
  <1> USE DEF RegisteredWhileServing, NameOutlivesProcess
  <1>1. CASE spawn_daemon_detached(c)
    BY <1>1 DEF spawn_daemon_detached, Goto, HolderInv, DaemonTypeOK
  <1>2. CASE ~spawn_daemon_detached(c)
    <2>1. UNCHANGED <<platform, daemon, registered>>
      BY <1>2 DEF Ask, ClientStep, ThreadStep, Worked, Accept, try_connect, Connected, Refused, Poll,
                  Deadline, ReadResponse, Transient, daemon_stop_response, write_response, daemonVars
    <2> QED BY <2>1
  <1> QED BY <1>1, <1>2

\* Every step, and every step that changes nothing, keeps the invariant.
LEMMA NextInv == DaemonInv /\ [DaemonNext]_dvars => DaemonInv'
  <1> SUFFICES ASSUME DaemonInv, [DaemonNext]_dvars
               PROVE  DaemonInv'
    OBVIOUS
  <1>1. HolderInv /\ RegisteredWhileServing /\ HolderInv'
    BY NextHolderInv DEF DaemonInv
  <1>2. CASE UNCHANGED dvars
    BY <1>1, <1>2 DEF dvars, daemonVars, DaemonInv, RegisteredWhileServing, NameOutlivesProcess
  <1>3. CASE \E d \in Daemons : DaemonStart(d) \/ DaemonEnd(d) \/ ShutDown(d) \/ Crash(d)
    BY <1>1, <1>3, RegisteredStep DEF DaemonInv
  <1>4. CASE \/ \E d \in Daemons, c \in Clients : Accept(d, c)
             \/ \E c \in Clients : Ask(c) \/ ClientStep(c) \/ ThreadStep(c) \/ Worked(c)
    BY <1>1, <1>4, RegisteredBeside DEF DaemonInv
  <1> QED BY <1>2, <1>3, <1>4 DEF DaemonNext

\* The invariant holds throughout.
THEOREM Invariance == DaemonSpec => []DaemonInv
  <1>1. DaemonInit /\ todo \in [Clients -> Seq(Requests)] => DaemonInv
    BY InitInv
  <1>2. DaemonInv /\ [DaemonNext]_dvars => DaemonInv'
    BY NextInv
  <1> QED BY <1>1, <1>2, PTL DEF DaemonSpec

\* What the processes and the clients keep has its type.
THEOREM TypeCorrect == DaemonSpec => []DaemonTypeOK
  <1>1. DaemonInv => DaemonTypeOK
    BY DEF DaemonInv, HolderInv
  <1> QED BY <1>1, Invariance, PTL

\* At most one process holds the name of the socket: run_daemon binds before it
\* does anything else and lets go of the name with its last step.
THEOREM AtMostOneDaemon == DaemonSpec => []OneDaemon
  <1>1. DaemonInv => OneDaemon
    BY DEF DaemonInv, HolderInv, NameLeadsToHolder, OneDaemon
  <1> QED BY <1>1, Invariance, PTL

\* The daemon that serves is the one daemon.json names: the entry is written
\* after the name is bound and removed before it is free again.
THEOREM RegistrationHolds == DaemonSpec => []RegisteredWhileServing
  <1>1. DaemonInv => RegisteredWhileServing
    BY DEF DaemonInv, HolderInv
  <1> QED BY <1>1, Invariance, PTL

-----------------------------------------------------------------------------
(* System.                                                                 *)

\* The stages at which the program beside the daemon leaves it alone. Without
\* `jdbg update` it is at no other stage.
Aloof == {"none", "select", "ensure", "download", "checksum", "replace", "rename", "remove",
          "installer", "installing", "write", "done", "failed"}
UpdaterAloof == "stage" \in DOMAIN up /\ (plan.program # "update" => up.stage \in Aloof)

-----------------------------------------------------------------------------
(* What each group of steps leaves alone.                                  *)

LEMMA BuildLeaves ==
    ASSUME NEW c, BuildStep(c)
    PROVE  UNCHANGED <<plan, jar, dvars>>
  BY DEF BuildStep, build_jdi, spawn_sidecar, accept_sidecar, complete_handshake, start_session,
         spawn_jdb, jdb_banner

\* A handler thread works without touching the process, but for the last step,
\* in which it has a response.
LEMMA RequestLeaves ==
    ASSUME NEW c \in Clients, RequestStep(c)
    PROVE  plan' = plan /\ (Worked(c) \/ UNCHANGED dvars)
  <1>1. CASE dispatch(c) \/ LockMap(c) \/ check_duplicate(c) \/ create_session(c) \/ insert_session(c)
    BY <1>1 DEF dispatch, LockMap, check_duplicate, create_session, insert_session, launchVars
  <1>2. CASE persist_sessions(c) \/ list(c) \/ get(c) \/ use_session(c) \/ session_used(c)
    BY <1>2 DEF persist_sessions, list, get, use_session, session_used
  <1>3. CASE remove_session(c) \/ kill_session(c) \/ kill_fails(c) \/ work_done(c)
    BY <1>3 DEF remove_session, kill_session, kill_fails, work_done
  <1>4. CASE BuildStep(c)
    BY <1>4, BuildLeaves
  <1> QED BY <1>1, <1>2, <1>3, <1>4 DEF RequestStep

\* The main thread of a daemon moves as in DaemonLife.
LEMMA MainThreadLeaves ==
    ASSUME NEW d \in Daemons, MainThread(d) \/ ProcessKilled(d)
    PROVE  /\ plan' = plan /\ UNCHANGED updateVars
           /\ DaemonNext \/ UNCHANGED dvars
  <1>1. CASE ProcessStep(d)
    BY <1>1 DEF ProcessStep, Beside, launchVars, DaemonEnd, DaemonNext
  <1>2. CASE ProcessEnds(d) \/ ProcessKilled(d)
    BY <1>2 DEF ProcessEnds, ProcessKilled, ManagerEnds, DaemonEnd, DaemonNext
  <1>3. CASE ShutDownStep(d)
    BY <1>3 DEF ShutDownStep, LockToShutDown, KillAtShutDown, shutdown, launchVars, DaemonNext
  <1> QED BY <1>1, <1>2, <1>3 DEF MainThread

LEMMA ExchangeLeaves ==
    ASSUME NEW c \in Clients, Asks(c) \/ Exchange(c)
    PROVE  /\ plan' = plan /\ UNCHANGED updateVars
           /\ DaemonNext \/ UNCHANGED dvars
  <1>1. CASE Asks(c) \/ Talks(c) \/ Replies(c)
    BY <1>1 DEF Asks, Talks, Replies, Beside, launchVars, DaemonNext
  <1>2. CASE \E d \in Daemons : Accepts(d, c)
    BY <1>2 DEF Accepts, Beside, launchVars, DaemonNext
  <1>3. CASE Works(c)
    BY <1>3, RequestLeaves DEF Works, DaemonNext
  <1> QED BY <1>1, <1>2, <1>3 DEF Exchange

LEMMA ChildrenLeave ==
    ASSUME \/ \E s \in SessionIds : SidecarStep(s) \/ TargetEnds(s)
           \/ \E p \in Children : OrphanEnds(p)
    PROVE  plan' = plan /\ UNCHANGED updateVars /\ UNCHANGED dvars
  BY DEF SidecarStep, SidecarConnects, SidecarDies, TargetEnds, TargetGone, OrphanEnds, launchVars,
         managerVars, updateVars

\* The program beside the daemon goes from a stage at which it leaves the daemon
\* alone to another such stage, and the plan stays.
LEMMA UpdaterLeaves ==
    ASSUME UpdaterStep \/ Publish, UpdaterAloof
    PROVE  /\ plan' = plan
           /\ UpdaterAloof'
           /\ plan.program = "update" \/ UNCHANGED dvars
  <1> USE DEF Keep, AtStage, Enter, Failed, UpdaterAloof, Aloof
  <1>1. CASE run_update \/ stop_daemon_before_update \/ wait_for_daemon_exit \/ stop_process
             \/ remove_daemon
    <2>1. plan' = plan
      BY <1>1 DEF run_update, stop_daemon_before_update, wait_for_daemon_exit, stop_process,
                  remove_daemon, SendTo
    <2>2. up.stage \notin Aloof
      BY <1>1 DEF run_update, stop_daemon_before_update, wait_for_daemon_exit, stop_process,
                  remove_daemon
    <2>3. "stage" \in DOMAIN up'
      BY <1>1 DEF run_update, stop_daemon_before_update, wait_for_daemon_exit, stop_process,
                  remove_daemon
    <2> QED BY <2>1, <2>2, <2>3
  <1>2. CASE run_setup
    BY <1>2 DEF run_setup
  <1>3. CASE ensure_jdi_sidecar_available \/ remove_target \/ install_target
    BY <1>3 DEF ensure_jdi_sidecar_available, remove_target, install_target, AfterRemoval
  <1>4. CASE move_self_aside \/ install_command
    BY <1>4 DEF move_self_aside, install_command
  <1>5. CASE download_archive \/ verify_archive_checksum
    BY <1>5 DEF download_archive, verify_archive_checksum, Step
  <1>6. CASE install_sidecar_file
    BY <1>6 DEF install_sidecar_file
  <1>7. CASE Publish
    BY <1>7 DEF Publish, launchVars
  <1> QED BY <1>1, <1>2, <1>3, <1>4, <1>5, <1>6, <1>7 DEF UpdaterStep

-----------------------------------------------------------------------------

LEMMA AloofInit == Init => UpdaterAloof
  BY DEF Init, UpdateInit, UpdaterAloof, Aloof

\* A step of the system is a step of DaemonLife, or leaves its variables alone,
\* or is one of `jdbg update`.
LEMMA SystemStep ==
    ASSUME UpdaterAloof, [Next]_vars
    PROVE  /\ plan' = plan
           /\ UpdaterAloof'
           /\ [plan.program = "update" \/ DaemonNext]_dvars
  <1>1. CASE \E d \in Daemons : MainThread(d) \/ ProcessKilled(d)
    BY <1>1, MainThreadLeaves DEF UpdaterAloof, updateVars
  <1>2. CASE \E c \in Clients : Asks(c) \/ Exchange(c)
    BY <1>2, ExchangeLeaves DEF UpdaterAloof, updateVars
  <1>3. CASE \/ \E s \in SessionIds : SidecarStep(s) \/ TargetEnds(s)
             \/ \E p \in Children : OrphanEnds(p)
    BY <1>3, ChildrenLeave DEF UpdaterAloof, updateVars
  <1>4. CASE UpdaterStep \/ Publish
    BY <1>4, UpdaterLeaves
  <1>5. CASE UNCHANGED vars
    BY <1>5 DEF vars, launchVars, updateVars, UpdaterAloof
  <1> QED BY <1>1, <1>2, <1>3, <1>4, <1>5 DEF Next

-----------------------------------------------------------------------------

\* What `jdbg update` does to the daemon: it sends a request, removes an entry, or
\* ends a process. None of this gives a second process the name.
LEMMA UpdateKeepsHolder ==
    ASSUME UpdaterStep \/ Publish, HolderInv
    PROVE  HolderInv'
  <1> USE DEF Keep
  <1>1. CASE UNCHANGED dvars
    BY <1>1, NextHolderInv
  <1>2. ASSUME NEW op \in {"DaemonStop", "DaemonStatus"}, SendTo(op)
        PROVE  HolderInv'
    <2>1. <<AskFor(op)>> \in Seq(Requests) /\ <<AskFor(op)>> # <<>>
      BY UpdaterAssumption
    <2>2. todo' \in [Clients -> Seq(Requests)] /\ \A c \in Clients : todo[c] # <<>> => todo'[c] # <<>>
      BY <1>2, <2>1, UpdaterAssumption DEF SendTo, HolderInv, DaemonTypeOK
    <2>3. UNCHANGED <<daemonVars, client, thread>>
      BY <1>2 DEF SendTo
    <2> QED BY <2>2, <2>3 DEF HolderInv, DaemonTypeOK, Occupied, NameLeadsToHolder,
                             NameOutlivesProcess, daemonVars
  <1>3. ASSUME registered' \in {None, registered},
               UNCHANGED <<platform, daemon, socket, listening, stopping, crashes, clientVars>>
        PROVE  HolderInv'
    BY <1>3 DEF HolderInv, DaemonTypeOK, Occupied, NameLeadsToHolder, NameOutlivesProcess, clientVars
  <1>4. CASE run_update \/ run_setup \/ ensure_jdi_sidecar_available \/ remove_target
             \/ install_target \/ move_self_aside \/ install_command
    BY <1>1, <1>4 DEF run_update, run_setup, ensure_jdi_sidecar_available, remove_target,
                      install_target, move_self_aside, install_command
  <1>5. CASE download_archive \/ verify_archive_checksum \/ install_sidecar_file \/ Publish
    BY <1>1, <1>5 DEF download_archive, verify_archive_checksum, Step, install_sidecar_file, Publish
  <1>6. CASE stop_daemon_before_update
    <2>1. \/ SendTo("DaemonStop")
          \/ /\ registered' \in {None, registered}
             /\ UNCHANGED <<platform, daemon, socket, listening, stopping, crashes, clientVars>>
      BY <1>6 DEF stop_daemon_before_update
    <2> QED BY <1>2, <1>3, <2>1
  <1>7. CASE wait_for_daemon_exit
    <2>1. SendTo("DaemonStatus") \/ UNCHANGED dvars
      BY <1>7 DEF wait_for_daemon_exit
    <2> QED BY <1>1, <1>2, <2>1
  <1>8. CASE stop_process
    <2>1. \/ UNCHANGED dvars
          \/ Alive(Victim) /\ Ends(Victim) /\ UNCHANGED crashes /\ Victim # None
      BY <1>8 DEF stop_process
    <2>2. ASSUME Alive(Victim), Ends(Victim), UNCHANGED crashes, Victim # None
          PROVE  HolderInv'
      <3>1. CASE Victim \in Daemons
        BY <2>2, <3>1, EndsInv DEF HolderInv, DaemonTypeOK
      <3>2. CASE Victim \notin Daemons
        <4>1. /\ DaemonTypeOK /\ daemon' = daemon /\ listening' = listening /\ socket' = socket
              /\ UNCHANGED <<platform, registered, stopping, crashes, client, todo>>
          BY <2>2, <3>2 DEF Ends, Closes, Goto, HolderInv, DaemonTypeOK
        <4>2. thread' = thread
          BY <2>2, <3>2, <4>1 DEF Ends, Closes, DaemonTypeOK
        <4> QED BY <1>1, <4>1, <4>2 DEF dvars, daemonVars, clientVars
      <3> QED BY <3>1, <3>2
    <2> QED BY <1>1, <2>1, <2>2
  <1>9. CASE remove_daemon
    BY <1>3, <1>9 DEF remove_daemon
  <1> QED BY <1>4, <1>5, <1>6, <1>7, <1>8, <1>9 DEF UpdaterStep

\* What is proved of DaemonLife holds of the system; of the entry in daemon.json
\* only where nothing is updated.
SystemInv ==
    /\ UpdaterAloof
    /\ HolderInv
    /\ plan.program # "update" => RegisteredWhileServing

LEMMA SystemInvariance == Spec => []SystemInv
  <1>1. Init => SystemInv
    <2> SUFFICES ASSUME Init PROVE SystemInv
      OBVIOUS
    <2>1. todo \in [Clients -> Seq(Requests)]
      BY PlanAssumption DEF Init
    <2> QED BY <2>1, AloofInit, InitInv DEF SystemInv, Init, DaemonInv
  <1>2. SystemInv /\ [Next]_vars => SystemInv'
    <2> SUFFICES ASSUME SystemInv, [Next]_vars PROVE SystemInv'
      OBVIOUS
    <2>1. plan' = plan /\ UpdaterAloof' /\ [plan.program = "update" \/ DaemonNext]_dvars
      BY SystemStep DEF SystemInv
    <2>2. HolderInv'
      <3>1. UpdaterStep \/ Publish \/ DaemonNext \/ UNCHANGED dvars
        BY MainThreadLeaves, ExchangeLeaves, ChildrenLeave DEF Next, vars
      <3> QED BY <3>1, NextHolderInv, UpdateKeepsHolder DEF SystemInv
    <2>3. plan.program # "update" => RegisteredWhileServing'
      BY <2>1, NextInv DEF SystemInv, DaemonInv
    <2> QED BY <2>1, <2>2, <2>3 DEF SystemInv
  <1> QED BY <1>1, <1>2, PTL DEF Spec

\* "One daemon per user login", whatever its sessions, their processes and an
\* update do: only one process has the name of the socket bound.
THEOREM SystemOneDaemon == Spec => []OneDaemon
  <1>1. SystemInv => OneDaemon
    BY DEF SystemInv, HolderInv, NameLeadsToHolder, OneDaemon
  <1> QED BY <1>1, SystemInvariance, PTL

\* daemon.json names the daemon that serves, unless `jdbg update` runs.
THEOREM SystemRegistration == Spec => []RegisteredUnlessUpdated
  <1>1. SystemInv => RegisteredUnlessUpdated
    BY DEF SystemInv, RegisteredUnlessUpdated
  <1> QED BY <1>1, SystemInvariance, PTL

-----------------------------------------------------------------------------
(* One server.                                                             *)

\* A process that is about to let go of the name is not named any more.
Withdrawn ==
    ~NameOutlivesProcess =>
        \A d \in Daemons : daemon[d] \in {"unregister", "unlink", "close"} => registered # d

\* Who has the name, for a process that is said to be at a stage.
LEMMA NameHolderIs ==
    ASSUME NameLeadsToHolder, ~NameOutlivesProcess
    PROVE  /\ \A d \in Daemons : daemon[d] \in Holding => NameHolder = d
           /\ (\A d \in Daemons : daemon[d] \notin Holding) => NameHolder = None
  BY DEF NameLeadsToHolder, NameHolder, Holders

LEMMA PlatformStays == ASSUME DaemonNext PROVE platform' = platform
  BY DEF DaemonNext, DaemonStart, Bind, Listen, Probe, Reclaim, write_daemon, DaemonEnd, LeaveLoop,
         Unregister, Unlink, CloseListener, Exit, Crash, Ends, ShutDown, Accept, Ask, ClientStep,
         try_connect, Connected, Refused, spawn_daemon_detached, Poll, Deadline, ReadResponse,
         Transient, ThreadStep, daemon_stop_response, write_response, Worked, daemonVars

\* What a step of DaemonLife is of OneServer, where nothing else is done.
LEMMA DaemonServes ==
    ASSUME HolderInv, HolderInv', Withdrawn, ~NameOutlivesProcess, DaemonNext, up' = up
    PROVE  [Server!Next]_<<NameHolder, Entry>> /\ Withdrawn'
  <1> USE DaemonAssumption DEF Goto, NameOutlivesProcess
  <1>0. /\ DaemonTypeOK /\ NameLeadsToHolder /\ daemon \in [Daemons -> Stages]
        /\ registered \in Daemons \cup {None} /\ crashes \in Nat
        /\ NameLeadsToHolder' /\ ~NameOutlivesProcess'
        /\ platform' = platform
    BY PlatformStays, CrashAssumption DEF HolderInv, DaemonTypeOK
  <1>1. /\ Entry = registered /\ Entry' = registered'
    BY <1>0 DEF Entry
  <1>2. /\ \A d \in Daemons : daemon[d] \in Holding => NameHolder = d
        /\ (\A d \in Daemons : daemon[d] \notin Holding) => NameHolder = None
        /\ NameHolder = None \/ (NameHolder \in Daemons /\ daemon[NameHolder] \in Holding)
    BY <1>0, NameHolderIs
  <1>3. /\ \A d \in Daemons : daemon'[d] \in Holding => NameHolder' = d
        /\ (\A d \in Daemons : daemon'[d] \notin Holding) => NameHolder' = None
    <2>1. ASSUME NEW d \in Daemons, daemon'[d] \in Holding PROVE NameHolder' = d
      BY <1>0, <2>1 DEF NameLeadsToHolder, NameHolder, Holders
    <2>2. ASSUME \A d \in Daemons : daemon'[d] \notin Holding PROVE NameHolder' = None
      BY <2>2 DEF NameHolder, Holders
    <2> QED BY <2>1, <2>2
  \* A step that neither takes nor gives the name, nor touches the entry.
  <1>4. ASSUME registered' = registered,
               \A d \in Daemons : daemon'[d] \in Holding <=> daemon[d] \in Holding
        PROVE  UNCHANGED <<NameHolder, Entry>>
    BY <1>1, <1>2, <1>3, <1>4
  <1> USE DEF Stages, Starting, Holding
  <1>5. ASSUME NEW d \in Daemons, Bind(d)
        PROVE  [Server!Next]_<<NameHolder, Entry>> /\ Withdrawn'
    <2>1. CASE socket = None
      <3>1. NameHolder = None
        BY <1>0, <1>2, <2>1 DEF NameLeadsToHolder
      <3>2. NameHolder' = d /\ registered' = registered /\ crashes' = crashes
        BY <1>0, <1>3, <1>5, <2>1 DEF Bind
      <3>3. Server!Elect
        BY <1>1, <3>1, <3>2 DEF Server!Elect
      <3>4. Withdrawn'
        BY <1>0, <1>5, <2>1 DEF Bind, Withdrawn
      <3> QED BY <3>3, <3>4 DEF Server!Next
    <2>2. CASE socket # None
      BY <1>0, <1>4, <1>5, <2>2 DEF Bind, Withdrawn
    <2> QED BY <2>1, <2>2
  <1>6. ASSUME NEW d \in Daemons, Listen(d) \/ Probe(d) \/ Reclaim(d) \/ LeaveLoop(d) \/ Exit(d)
        PROVE  [Server!Next]_<<NameHolder, Entry>> /\ Withdrawn'
    BY <1>0, <1>4, <1>6 DEF Listen, Probe, Reclaim, LeaveLoop, Exit, Ends, Withdrawn
  <1>7. ASSUME NEW d \in Daemons, write_daemon(d)
        PROVE  [Server!Next]_<<NameHolder, Entry>> /\ Withdrawn'
    <2>1. NameHolder = d /\ NameHolder' = d /\ registered' = d /\ crashes' = crashes
      BY <1>0, <1>2, <1>3, <1>7 DEF write_daemon
    <2>2. Server!Announce
      BY <1>1, <2>1 DEF Server!Announce
    <2>3. Withdrawn'
      BY <1>0, <1>7 DEF write_daemon, Withdrawn, NameLeadsToHolder
    <2> QED BY <2>2, <2>3 DEF Server!Next
  <1>8. ASSUME NEW d \in Daemons, ShutDown(d) \/ Unregister(d)
        PROVE  [Server!Next]_<<NameHolder, Entry>> /\ Withdrawn'
    <2>1. NameHolder = d /\ NameHolder' = d /\ registered' = None /\ crashes' = crashes
      BY <1>0, <1>2, <1>3, <1>8 DEF ShutDown, Unregister
    <2>2. Server!Withdraw
      BY <1>1, <2>1 DEF Server!Withdraw
    <2>3. Withdrawn'
      BY <2>1 DEF Withdrawn
    <2> QED BY <2>2, <2>3 DEF Server!Next
  <1>9. ASSUME NEW d \in Daemons, Unlink(d)
        PROVE  [Server!Next]_<<NameHolder, Entry>> /\ Withdrawn'
    BY <1>0, <1>4, <1>9 DEF Unlink, Withdrawn
  <1>10. ASSUME NEW d \in Daemons, CloseListener(d)
         PROVE  [Server!Next]_<<NameHolder, Entry>> /\ Withdrawn'
    <2>1. NameHolder = d /\ registered # d
      BY <1>0, <1>2, <1>10 DEF CloseListener, Withdrawn
    <2>2. NameHolder' = None
      BY <1>0, <1>3, <1>10 DEF CloseListener, NameLeadsToHolder
    <2>3. registered' = registered /\ crashes' = crashes
      BY <1>10 DEF CloseListener
    <2>4. Server!Leave
      BY <1>1, <2>1, <2>2, <2>3 DEF Server!Leave
    <2>5. Withdrawn'
      BY <1>0, <1>10 DEF CloseListener, Withdrawn
    <2> QED BY <2>4, <2>5 DEF Server!Next
  <1>11. ASSUME NEW d \in Daemons, Crash(d)
         PROVE  [Server!Next]_<<NameHolder, Entry>> /\ Withdrawn'
    <2>1. registered' = registered /\ crashes' # crashes /\ daemon' = [daemon EXCEPT ![d] = "gone"]
      BY <1>0, <1>11 DEF Crash, Ends
    <2>2. NameHolder' \in {NameHolder, None}
      BY <1>0, <1>2, <1>3, <2>1 DEF NameLeadsToHolder
    <2>3. Server!Disturb
      BY <1>1, <2>1, <2>2 DEF Server!Disturb
    <2>4. Withdrawn'
      BY <1>0, <2>1 DEF Withdrawn
    <2> QED BY <2>3, <2>4 DEF Server!Next
  <1>12. ASSUME NEW c \in Clients, spawn_daemon_detached(c)
         PROVE  [Server!Next]_<<NameHolder, Entry>> /\ Withdrawn'
    <2>1. registered' = registered /\ \A d \in Daemons : daemon'[d] \in {daemon[d], "bind"}
                                  /\ (daemon'[d] # daemon[d] => daemon[d] = "unborn")
      BY <1>0, <1>12 DEF spawn_daemon_detached, NewPid
    <2> QED BY <1>0, <1>4, <2>1 DEF Withdrawn
  <1>13. ASSUME NEW c \in Clients, ~spawn_daemon_detached(c),
                \/ Ask(c) \/ ClientStep(c) \/ ThreadStep(c) \/ Worked(c)
                \/ \E d \in Daemons : Accept(d, c)
         PROVE  [Server!Next]_<<NameHolder, Entry>> /\ Withdrawn'
    <2>1. UNCHANGED <<daemon, registered>>
      BY <1>13 DEF Ask, ClientStep, ThreadStep, Worked, Accept, try_connect, Connected, Refused, Poll,
                   Deadline, ReadResponse, Transient, daemon_stop_response, write_response, daemonVars
    <2> QED BY <1>0, <1>4, <2>1 DEF Withdrawn
  <1> QED BY <1>5, <1>6, <1>7, <1>8, <1>9, <1>10, <1>11, <1>12, <1>13
          DEF DaemonNext, DaemonStart, DaemonEnd

\* What a step of the program beside the daemon is: it leaves the name and the
\* entry alone, or moves on and disturbs.
LEMMA UpdaterDisturbs ==
    ASSUME UpdaterStep \/ Publish, UpdaterAloof
    PROVE  /\ platform' = platform
           /\ \/ UNCHANGED <<daemon, registered>>
              \/ up' # up /\ registered' \in {registered, None} /\ daemon' = daemon
              \/ up' # up /\ registered' = registered /\ daemon' = [daemon EXCEPT ![Victim] = "gone"]
  <1> USE DEF AtStage, Enter, Failed, UpdaterAloof
  <1>1. CASE run_update \/ run_setup \/ ensure_jdi_sidecar_available \/ remove_target
             \/ install_target \/ move_self_aside \/ install_command
    BY <1>1 DEF run_update, run_setup, ensure_jdi_sidecar_available, remove_target,
                install_target, move_self_aside, install_command, dvars, daemonVars
  <1>2. CASE download_archive \/ verify_archive_checksum \/ install_sidecar_file \/ Publish
    BY <1>2 DEF download_archive, verify_archive_checksum, Step, install_sidecar_file, Publish,
                dvars, daemonVars
  <1>3. CASE wait_for_daemon_exit
    BY <1>3 DEF wait_for_daemon_exit, SendTo, dvars, daemonVars
  <1>4. CASE stop_daemon_before_update \/ remove_daemon
    BY <1>4 DEF stop_daemon_before_update, remove_daemon, SendTo, daemonVars
  <1>5. CASE stop_process
    BY <1>5 DEF stop_process, Ends, Goto, dvars, daemonVars
  <1> QED BY <1>1, <1>2, <1>3, <1>4, <1>5 DEF UpdaterStep

LEMMA UpdaterServes ==
    ASSUME HolderInv, HolderInv', Withdrawn, ~NameOutlivesProcess, UpdaterStep \/ Publish, UpdaterAloof
    PROVE  [Server!Next]_<<NameHolder, Entry>> /\ Withdrawn'
  <1>0. /\ NameLeadsToHolder /\ NameLeadsToHolder' /\ daemon \in [Daemons -> Stages]
        /\ registered \in Daemons \cup {None} /\ platform' = platform
    BY UpdaterDisturbs DEF HolderInv, DaemonTypeOK
  <1>1. ~NameOutlivesProcess' /\ Entry = registered /\ Entry' = registered'
    BY <1>0 DEF NameOutlivesProcess, Entry
  <1>2. CASE daemon' = daemon /\ registered' \in {registered, None}
    <2>1. NameHolder' = NameHolder
      BY <1>0, <1>2 DEF NameHolder, Holders, NameOutlivesProcess
    <2>2. Withdrawn'
      BY <1>0, <1>2, DaemonAssumption DEF Withdrawn, NameOutlivesProcess
    <2>3. registered' = registered \/ up' # up
      BY <1>2, UpdaterDisturbs
    <2>4. [Server!Next]_<<NameHolder, Entry>>
      BY <1>1, <1>2, <2>1, <2>3 DEF Server!Next, Server!Disturb
    <2> QED BY <2>2, <2>4
  <1>3. CASE up' # up /\ registered' = registered /\ daemon' = [daemon EXCEPT ![Victim] = "gone"]
    <2>1. \A d \in Daemons : daemon'[d] \in {daemon[d], "gone"}
      BY <1>0, <1>3
    <2>2. NameHolder' \in {NameHolder, None}
      <3>1. CASE \E d \in Daemons : daemon'[d] \in Holding
        <4>1. PICK d \in Daemons : daemon'[d] \in Holding
          BY <3>1
        <4>2. daemon[d] \in Holding
          BY <2>1, <4>1 DEF Holding
        <4>3. NameHolder = d /\ NameHolder' = d
          BY <1>0, <1>1, <4>1, <4>2 DEF NameLeadsToHolder, NameHolder, Holders
        <4> QED BY <4>3
      <3>2. CASE ~ \E d \in Daemons : daemon'[d] \in Holding
        BY <3>2 DEF NameHolder, Holders
      <3> QED BY <3>1, <3>2
    <2>3. Withdrawn'
      BY <1>0, <1>3, <2>1 DEF Withdrawn, NameOutlivesProcess
    <2>4. Server!Disturb
      BY <1>1, <1>3, <2>2 DEF Server!Disturb
    <2> QED BY <2>3, <2>4 DEF Server!Next
  <1> QED BY <1>2, <1>3, UpdaterDisturbs

\* What a step of the system is of OneServer.
LEMMA SystemServes ==
    ASSUME SystemInv, SystemInv', Withdrawn, [Next]_vars
    PROVE  [Server!Next]_<<NameHolder, Entry>> /\ Withdrawn'
  <1>1. UpdaterStep \/ Publish \/ (up' = up /\ DaemonNext) \/ UNCHANGED dvars
    BY MainThreadLeaves, ExchangeLeaves, ChildrenLeave DEF Next, vars, updateVars
  <1>2. platform' = platform
    BY <1>1, PlatformStays, UpdaterDisturbs DEF SystemInv, dvars, daemonVars
  <1>3. CASE NameOutlivesProcess
    BY <1>2, <1>3 DEF NameOutlivesProcess, NameHolder, Entry, Withdrawn
  <1>4. CASE ~NameOutlivesProcess /\ UNCHANGED dvars
    BY <1>4 DEF dvars, daemonVars, NameOutlivesProcess, NameHolder, Holders, Entry, Withdrawn
  <1>5. CASE ~NameOutlivesProcess /\ ~UNCHANGED dvars
    BY <1>1, <1>5, DaemonServes, UpdaterServes DEF SystemInv
  <1> QED BY <1>3, <1>4, <1>5

LEMMA ServedFirst ==
    ASSUME Init, SystemInv
    PROVE  Server!Init /\ Withdrawn
  <1> USE DaemonAssumption DEF Stages, Starting, Holding
  <1>0. /\ NameLeadsToHolder /\ registered \in Daemons \cup {None}
    BY DEF SystemInv, HolderInv, DaemonTypeOK
  <1>1. PICK stage \in {"unborn", "serve", "gone"}, ended \in SUBSET (Daemons \ {FirstDaemon}) :
           World(stage, ended)
    BY DEF Init, DaemonInit
  <1>2. \A d \in Daemons : daemon[d] \in {"unborn", "serve", "gone"}
                            /\ (daemon[d] \in Holding => registered = d)
    BY <1>1 DEF World
  <1>3. Withdrawn
    BY <1>2 DEF Withdrawn
  <1>4. NameHolder \in Daemons \cup {None} /\ (NameHolder # None => Entry = NameHolder)
    BY <1>0, <1>2 DEF NameHolder, Holders, Entry
  <1>5. Entry \in Daemons \cup {None}
    BY <1>0 DEF Entry
  <1> QED BY <1>3, <1>4, <1>5 DEF Server!Init

\* Where the name of the socket goes with its process, the system is one server
\* at a time: a daemon is elected only when nobody has the name, only the one that
\* has it writes or removes its entry, and it has removed it when it lets go of the
\* name. Sessions, clients, crashes and `jdbg update` included.
THEOREM SystemImplementsOneServer == Spec => ImplementsOneServer
  <1>1. Init /\ SystemInv => Server!Init /\ Withdrawn
    BY ServedFirst
  <1>2. SystemInv /\ SystemInv' /\ Withdrawn /\ [Next]_vars
          => [Server!Next]_<<NameHolder, Entry>> /\ Withdrawn'
    BY SystemServes
  <1> QED BY <1>1, <1>2, SystemInvariance, PTL DEF Spec, ImplementsOneServer, Server!Spec
=============================================================================
