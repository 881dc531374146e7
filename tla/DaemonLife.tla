----------------------------- MODULE DaemonLife -----------------------------
(***************************************************************************)
(* The daemon process from its start to its end, the name of its socket,   *)
(* daemon.json, and the clients that look for it, start it, send it one    *)
(* request and read one response.                                          *)
(*                                                                         *)
(* A daemon is a process: daemon[d] is the next thing it does.  What a     *)
(* handler thread does with a request is left open: here it answers in one *)
(* step.  SessionManager puts the real work in its place.                  *)
(***************************************************************************)
EXTENDS Naturals, Sequences

CONSTANTS
    Daemons,       \* processes that may be started
    Clients,       \* programs that talk to the daemon
    Requests,      \* records with the operation and how it is sent
    None,
    MaxCrashes     \* how often a process may be killed from outside

ASSUME DaemonAssumption == Daemons # {} /\ None \notin Daemons
ASSUME CrashAssumption == MaxCrashes \in Nat
ASSUME RequestAssumption == \A r \in Requests : r.how \in {"send", "existing", "ready"}

Platforms == {"linux", "macos", "windows"}

VARIABLES
    platform,
    daemon,        \* the stage of each process
    socket,        \* the process whose listener the name leads to
    listening,     \* the processes whose listener takes connections
    registered,    \* the pid in daemon.json
    stopping,      \* the processes whose shutdown flag is set
    crashes,
    client,        \* what each client does
    thread,        \* the connection of each client, seen from the daemon
    todo           \* the requests each client has still to make, the current one first

daemonVars == <<platform, daemon, socket, listening, registered, stopping, crashes>>
clientVars == <<client, thread, todo>>
dvars == <<daemonVars, clientVars>>

\* The stages in which a process has the name of the socket bound. A process at
\* "exit" has closed its listener and is still there, its threads as well.
Holding == {"listen", "register", "serve", "cleanup", "unregister", "unlink", "close"}
Starting == {"bind", "probe", "reclaim", "rebind"}
Stages == {"unborn", "exit", "gone"} \cup Starting \cup Holding

NewPid == CHOOSE d \in Daemons : daemon[d] = "unborn"
Alive(d) == daemon[d] \notin {"unborn", "gone"}

\* An abstract socket or a pipe goes with its process; a socket file stays.
NameOutlivesProcess == platform = "macos"
\* Mutant: the name is taken away wherever it leads.
unlink_any == None
remove_stale_socket == IF NameOutlivesProcess THEN None ELSE socket

Reachable == socket \in listening

Place(at, try, peer, ok) == [at |-> at, try |-> try, peer |-> peer, ok |-> ok]
Idle == Place("idle", 1, None, FALSE)
Request(c) == Head(todo[c])

\* At first there is nothing; or a daemon that serves; or the remains of one that
\* was killed: its entry in daemon.json and, where the name is a file, its socket.
FirstDaemon == CHOOSE d \in Daemons : TRUE
World(stage, ended) ==
    /\ daemon = [d \in Daemons |-> IF d = FirstDaemon THEN stage
                                  ELSE IF d \in ended THEN "gone" ELSE "unborn"]
    /\ registered = IF stage = "unborn" THEN None ELSE FirstDaemon
    /\ listening = IF stage = "serve" THEN {FirstDaemon} ELSE {}
    /\ socket = IF stage = "serve" \/ (stage = "gone" /\ NameOutlivesProcess) THEN FirstDaemon ELSE None
DaemonInit ==
    /\ platform \in Platforms
    /\ \E stage \in {"unborn", "serve", "gone"}, ended \in SUBSET (Daemons \ {FirstDaemon}) :
          World(stage, ended)
    /\ stopping = {}
    /\ crashes = 0
    /\ client = [c \in Clients |-> Idle]
    /\ thread = [c \in Clients |-> "none"]

-----------------------------------------------------------------------------

\* The daemon process.

Goto(d, stage) == daemon' = [daemon EXCEPT ![d] = stage]

\* Binding a name that is in use fails: the first time the name is examined,
\* the second time the process gives up.
Bind(d) ==
    /\ daemon[d] \in {"bind", "rebind"}
    /\ IF socket = None
       THEN socket' = d /\ Goto(d, "listen")
       ELSE socket' = socket /\ Goto(d, IF daemon[d] = "bind" THEN "probe" ELSE "gone")
    /\ UNCHANGED <<platform, listening, registered, stopping, crashes, clientVars>>

Listen(d) ==
    /\ daemon[d] = "listen"
    /\ listening' = listening \cup {d}
    /\ Goto(d, "register")
    /\ UNCHANGED <<platform, socket, registered, stopping, crashes, clientVars>>

\* Mutant: whoever has the name is taken for a daemon.
ProbeNothing(d) ==
    /\ daemon[d] = "probe"
    /\ Goto(d, "gone")
    /\ UNCHANGED <<platform, socket, listening, registered, stopping, crashes, clientVars>>

\* A daemon that answers has the name: exit. Otherwise the name is a leftover.
Probe(d) ==
    /\ daemon[d] = "probe"
    /\ Goto(d, IF Reachable THEN "gone" ELSE "reclaim")
    /\ UNCHANGED <<platform, socket, listening, registered, stopping, crashes, clientVars>>

Reclaim(d) ==
    /\ daemon[d] = "reclaim"
    /\ socket' = remove_stale_socket
    /\ Goto(d, "rebind")
    /\ UNCHANGED <<platform, listening, registered, stopping, crashes, clientVars>>

write_daemon(d) ==
    /\ daemon[d] = "register"
    /\ registered' = d
    /\ Goto(d, "serve")
    /\ UNCHANGED <<platform, socket, listening, stopping, crashes, clientVars>>

\* One thread per connection. The flag may be raised between the test of the
\* loop and accept, so a connection is taken as long as the loop is not left.
Accept(d, c) ==
    /\ daemon[d] = "serve"
    /\ client[c].peer = d /\ thread[c] = "queued"
    /\ thread' = [thread EXCEPT ![c] = "running"]
    /\ UNCHANGED <<daemonVars, client, todo>>

\* Mutant: accept blocks, so the flag is seen with the next connection.
LeaveLoopWhenCalled(d) ==
    /\ daemon[d] = "serve" /\ d \in stopping
    /\ \E c \in Clients : client[c].peer = d /\ thread[c] = "queued"
    /\ Goto(d, "cleanup")
    /\ UNCHANGED <<platform, socket, listening, registered, stopping, crashes, clientVars>>

\* Mutant: nothing is cleaned up behind the loop.
LeaveWithoutCleanup(d) ==
    /\ daemon[d] = "serve" /\ d \in stopping
    /\ Goto(d, "close")
    /\ UNCHANGED <<platform, socket, listening, registered, stopping, crashes, clientVars>>

LeaveLoop(d) ==
    /\ daemon[d] = "serve" /\ d \in stopping
    /\ Goto(d, "cleanup")
    /\ UNCHANGED <<platform, socket, listening, registered, stopping, crashes, clientVars>>

\* Mutant: the name is given up before the entry is removed for good.
ShutDownFirst(d) ==
    /\ daemon[d] = "cleanup"
    /\ registered' = None
    /\ socket' = IF socket = d THEN None ELSE socket
    /\ Goto(d, "unregister")
    /\ UNCHANGED <<platform, listening, stopping, crashes, clientVars>>

\* The manager shuts down, which removes daemon.json; run_daemon does so again.
ShutDown(d) ==
    /\ daemon[d] = "cleanup"
    /\ registered' = None
    /\ Goto(d, "unregister")
    /\ UNCHANGED <<platform, socket, listening, stopping, crashes, clientVars>>

Unregister(d) ==
    /\ daemon[d] = "unregister"
    /\ registered' = None
    /\ Goto(d, "unlink")
    /\ UNCHANGED <<platform, socket, listening, stopping, crashes, clientVars>>

Unlink(d) ==
    /\ daemon[d] = "unlink"
    /\ socket' = remove_stale_socket
    /\ Goto(d, "close")
    /\ UNCHANGED <<platform, listening, registered, stopping, crashes, clientVars>>

\* A closed listener has no name, and cuts the connections it has not accepted.
Closes(d, connections) ==
    /\ listening' = listening \ {d}
    /\ socket' = IF socket = d /\ ~NameOutlivesProcess THEN None ELSE socket
    /\ thread' = [c \in Clients |-> IF client[c].peer = d /\ thread[c] \in connections
                                   THEN "cut" ELSE thread[c]]

\* run_daemon returns and drops its listener; what its threads are at goes on.
CloseListener(d) ==
    /\ daemon[d] = "close"
    /\ Closes(d, {"queued"})
    /\ Goto(d, "exit")
    /\ UNCHANGED <<platform, registered, stopping, crashes, client, todo>>

\* With a process go its listener, its threads and its connections. A response
\* that was written can still be read.
Ends(d) ==
    /\ Goto(d, "gone")
    /\ Closes(d, {"queued", "running", "replying"})
    /\ UNCHANGED <<platform, registered, stopping, client, todo>>

Exit(d) == daemon[d] = "exit" /\ Ends(d) /\ UNCHANGED crashes

Crash(d) ==
    /\ crashes < MaxCrashes /\ Alive(d)
    /\ crashes' = crashes + 1
    /\ Ends(d)

-----------------------------------------------------------------------------

\* The client: send_request, send_request_to_existing, wait_for_daemon_ready.

To(c, at, try) ==
    /\ client' = [client EXCEPT ![c] = Place(at, try, None, FALSE)]
    /\ UNCHANGED todo
Finish(c, ok) ==
    /\ client' = [client EXCEPT ![c] = Place("idle", 1, None, ok)]
    /\ todo' = [todo EXCEPT ![c] = Tail(@)]

\* `daemon start` starts a process before it asks; the others only ask.
Ask(c) ==
    /\ client[c].at = "idle" /\ todo[c] # <<>>
    /\ To(c, IF Request(c).how = "ready" THEN "spawn" ELSE "connect", 1)
    /\ UNCHANGED <<daemonVars, thread>>

Connected(c) ==
    /\ Reachable
    /\ client' = [client EXCEPT ![c] = Place("sent", client[c].try, socket, FALSE)]
    /\ thread' = [thread EXCEPT ![c] = "queued"]
    /\ UNCHANGED <<daemonVars, todo>>

\* The request could not be sent: connect_or_spawn starts a daemon,
\* send_request_to_existing gives up, wait_for_daemon_ready tries again.
Refused(c) ==
    /\ ~Reachable
    /\ \/ Request(c).how = "send" /\ To(c, "spawn", client[c].try)
       \/ Request(c).how = "existing" /\ Finish(c, FALSE)
       \/ Request(c).how = "ready" /\ To(c, "poll", 1)
    /\ UNCHANGED <<daemonVars, thread>>

try_connect(c) == client[c].at = "connect" /\ (Connected(c) \/ Refused(c))

\* Starting a process may fail: here, when there is none left to start.
spawn_daemon_detached(c) ==
    /\ client[c].at = "spawn"
    /\ \/ /\ \E d \in Daemons : daemon[d] = "unborn"
          /\ Goto(NewPid, "bind")
          /\ To(c, "poll", client[c].try)
       \/ /\ \A d \in Daemons : daemon[d] # "unborn"
          /\ Finish(c, FALSE)
          /\ UNCHANGED daemon
    /\ UNCHANGED <<platform, socket, listening, registered, stopping, crashes, thread>>

\* The client tries every 100 ms until 3 s have passed.
Poll(c) == client[c].at = "poll" /\ Connected(c)

Deadline(c) ==
    /\ client[c].at = "poll"
    /\ Finish(c, FALSE)
    /\ UNCHANGED <<daemonVars, thread>>

ReadResponse(c) ==
    /\ thread[c] = "written"
    /\ Finish(c, TRUE)
    /\ thread' = [thread EXCEPT ![c] = "none"]
    /\ UNCHANGED daemonVars

\* Mutant: the client reconnects as often as it takes.
TransientForEver(c) ==
    /\ thread[c] = "cut"
    /\ thread' = [thread EXCEPT ![c] = "none"]
    /\ To(c, "connect", client[c].try + 1)
    /\ UNCHANGED daemonVars

\* The connection closed before a response: reconnect once and resend; the
\* second time it is an error. wait_for_daemon_ready asks until its deadline.
Transient(c) ==
    /\ thread[c] = "cut"
    /\ thread' = [thread EXCEPT ![c] = "none"]
    /\ \/ client[c].try = 1 /\ To(c, "connect", 2)
       \/ client[c].try = 2 /\ Request(c).how = "ready" /\ To(c, "poll", 1)
       \/ client[c].try = 2 /\ Request(c).how # "ready" /\ Finish(c, FALSE)
    /\ UNCHANGED daemonVars

-----------------------------------------------------------------------------

\* The handler thread of a connection.

\* DaemonStop raises the flag before the response is written.
daemon_stop_response(c) ==
    /\ thread[c] = "running" /\ Request(c).op = "DaemonStop"
    /\ stopping' = stopping \cup {client[c].peer}
    /\ thread' = [thread EXCEPT ![c] = "replying"]
    /\ UNCHANGED <<platform, daemon, socket, listening, registered, crashes, client, todo>>

Worked(c) ==
    /\ thread[c] = "running" /\ Request(c).op # "DaemonStop"
    /\ thread' = [thread EXCEPT ![c] = "replying"]
    /\ UNCHANGED <<daemonVars, client, todo>>

\* Mutant: what was done cannot always be told.
write_or_fail(c) ==
    /\ thread[c] = "replying"
    /\ \E how \in {"written", "cut"} : thread' = [thread EXCEPT ![c] = how]
    /\ UNCHANGED <<daemonVars, client, todo>>

write_response(c) ==
    /\ thread[c] = "replying"
    /\ thread' = [thread EXCEPT ![c] = "written"]
    /\ UNCHANGED <<daemonVars, client, todo>>

-----------------------------------------------------------------------------

DaemonStart(d) == Bind(d) \/ Listen(d) \/ Probe(d) \/ Reclaim(d) \/ write_daemon(d)
DaemonEnd(d) == LeaveLoop(d) \/ Unregister(d) \/ Unlink(d) \/ CloseListener(d) \/ Exit(d)
ClientStep(c) ==
    \/ try_connect(c) \/ spawn_daemon_detached(c) \/ Poll(c) \/ Deadline(c)
    \/ ReadResponse(c) \/ Transient(c)
ThreadStep(c) == daemon_stop_response(c) \/ write_response(c)

DaemonNext ==
    \/ \E d \in Daemons : DaemonStart(d) \/ DaemonEnd(d) \/ ShutDown(d) \/ Crash(d)
    \/ \E d \in Daemons, c \in Clients : Accept(d, c)
    \/ \E c \in Clients : Ask(c) \/ ClientStep(c) \/ ThreadStep(c) \/ Worked(c)

DaemonSpec == DaemonInit /\ todo \in [Clients -> Seq(Requests)] /\ [][DaemonNext]_dvars

-----------------------------------------------------------------------------

\* Types of what the processes and the clients keep.
DaemonTypeOK ==
    /\ platform \in Platforms
    /\ daemon \in [Daemons -> Stages]
    /\ socket \in Daemons \cup {None} /\ registered \in Daemons \cup {None}
    /\ listening \subseteq Daemons /\ stopping \subseteq Daemons
    /\ crashes \in 0 .. MaxCrashes
    /\ client \in [Clients -> [at : {"idle", "connect", "spawn", "poll", "sent"}, try : {1, 2},
                               peer : Daemons \cup {None}, ok : BOOLEAN]]
    /\ thread \in [Clients -> {"none", "queued", "running", "replying", "written", "cut"}]
    /\ todo \in [Clients -> Seq(Requests)]

\* "One daemon per user login" (daemon/mod.rs): at most one process has the name
\* bound, wherever the name goes with its process. Where it is a file, who finds it
\* stale, or stops, removes it whoever has bound it meanwhile.
OneDaemon ==
    ~NameOutlivesProcess =>
        \A d, e \in Daemons : daemon[d] \in Holding /\ daemon[e] \in Holding => d = e

\* While a daemon serves, daemon.json holds its pid: a predecessor that ends
\* late does not remove the entry of its successor.
RegisteredWhileServing ==
    ~NameOutlivesProcess => \A d \in Daemons : daemon[d] = "serve" => registered = d
=============================================================================
