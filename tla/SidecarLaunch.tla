---------------------------- MODULE SidecarLaunch ----------------------------
(***************************************************************************)
(* How a handler thread builds a session: it starts a JDI sidecar, waits   *)
(* for it to connect and to shake hands and lets it launch or attach, or   *)
(* starts jdb; what it has started goes when it fails.  Session s has the  *)
(* child processes <<s, "jdi">> and <<s, "jdb">>.                          *)
(***************************************************************************)
EXTENDS DaemonLife, SidecarPaths

CONSTANTS
    SessionIds,
    NoSession,
    Plans          \* what may be asked of the system, and in which surroundings

ASSUME SessionAssumption == NoSession \notin SessionIds
ASSUME PlanAssumption == \A p \in Plans : p.todo \in [Clients -> Seq(Requests)]
ASSUME SurroundingsAssumption ==
    \A p \in Plans : /\ p.env.JDBG_JDI_JAVA \in Homes \cup {"unset", "none"}
                     /\ p.env.PATH_java \in Homes \cup {"none"}
                     /\ p.jar \in {"absent", "old"}

VARIABLES
    plan,      \* the one that is followed
    job,       \* what each handler thread is at
    child,     \* the processes the daemons have started
    ends,      \* the connections to sidecars a process has an end of, its own included
    jar        \* the sidecar jar beside the executable

launchVars == <<plan, job, child, ends, jar>>

Children == SessionIds \X {"jdi", "jdb"}
Running(p) == child[p] \in {"up", "connected"}

NoJob == [step |-> "none", sid |-> NoSession, backend |-> "jdi", checked |-> 0,
          result |-> "none", note |-> FALSE]

At(c, step) == thread[c] = "running" /\ job[c].step = step
OnDaemon(d) == {c \in Clients : client[c].peer = d /\ thread[c] \in {"running", "replying"}}

LaunchInit ==
    /\ job = [c \in Clients |-> NoJob]
    /\ child = [p \in Children |-> "none"]
    /\ ends = [p \in Children |-> {}]

-----------------------------------------------------------------------------

Go(c, step) == job' = [job EXCEPT ![c].step = step]

\* Mutant: a failure leaves the child.
FailAlone(c, error) ==
    job' = [job EXCEPT ![c].step = "reply", ![c].result = error] /\ UNCHANGED <<child, ends>>

\* A failure takes the child with it. A session that was to use JDI only
\* because nothing else was asked for is built over jdb instead, if JDI is not
\* available here.
Fail(c, error) ==
    LET r == Request(c)
    IN  /\ child' = [p \in Children |->
                       IF p[1] = job[c].sid /\ Running(p) THEN "dead" ELSE child[p]]
        /\ IF error = "JdiUnavailable" /\ job[c].backend = "jdi" /\ ~r.explicit
           THEN job' = [job EXCEPT ![c].step = "jdb", ![c].backend = "jdb", ![c].note = TRUE]
           ELSE job' = [job EXCEPT ![c].step = "reply", ![c].result = error]
        /\ UNCHANGED ends

\* What launch_sidecar looks at before it starts anything.
build_jdi(c) ==
    /\ At(c, "jdi")
    /\ IF plan.env.jdb_path # "unset" /\ find_jdb(plan.env) = "none"
       THEN Fail(c, "JdbNotFound")
       ELSE IF jar = "absent" \/ MissingTools(plan.env)
       THEN Fail(c, "JdiUnavailable")
       ELSE Go(c, "spawn") /\ UNCHANGED <<child, ends>>
    /\ UNCHANGED <<plan, jar, dvars>>

\* The sidecar's end of a connection is open in the daemon, and passed on to
\* whatever it starts, from PendingSidecarConnection::new to accept.
Inheritable(c) ==
    IF platform = "windows" THEN {}
    ELSE {job[e].sid : e \in {e \in OnDaemon(client[c].peer) : job[e].step \in {"spawn", "accept"}}}

Start(c, p) ==
    /\ child' = [child EXCEPT ![p] = "up"]
    /\ ends' = [ends EXCEPT ![p] = Inheritable(c)]

spawn_sidecar(c) ==
    /\ At(c, "spawn")
    /\ IF RunningHome(plan.env) = "none"
       THEN Fail(c, "Spawn")
       ELSE Start(c, <<job[c].sid, "jdi">>) /\ Go(c, "accept")
    /\ UNCHANGED <<plan, jar, dvars>>

\* SidecarMain connects and greets before it loads JDI, or dies trying.
SidecarConnects(s) ==
    /\ child[<<s, "jdi">>] = "up"
    /\ child' = [child EXCEPT ![<<s, "jdi">>] = "connected"]
    /\ UNCHANGED <<plan, job, ends, jar, dvars>>

SidecarDies(s) ==
    /\ plan.frail
    /\ child[<<s, "jdi">>] = "up"
    /\ \E how \in {"dead", "class not found"} : child' = [child EXCEPT ![<<s, "jdi">>] = how]
    /\ UNCHANGED <<plan, job, ends, jar, dvars>>

\* A socket pair is connected from the start; a pipe waits for the sidecar,
\* sees it die, or gives up.
classify_sidecar_start_failure(how) ==
    IF how = "class not found" THEN "JdiUnavailable" ELSE "Jdi"

accept_sidecar(c) ==
    LET sidecar == child[<<job[c].sid, "jdi">>]
    IN  /\ At(c, "accept")
        /\ \/ /\ platform # "windows" \/ sidecar = "connected"
              /\ Go(c, "handshake")
              /\ UNCHANGED <<child, ends>>
           \/ /\ platform = "windows" /\ sidecar \in {"dead", "class not found"}
              /\ Fail(c, classify_sidecar_start_failure(sidecar))
           \/ /\ platform = "windows" /\ sidecar = "up" /\ plan.frail
              /\ Fail(c, "Jdi")
        /\ UNCHANGED <<plan, jar, dvars>>

\* The read has no timeout: it ends with the greeting, or when nobody has the
\* other end open any more.
OtherEndOpen(s) == \E p \in Children : Running(p) /\ s \in ends[p]

complete_handshake(c) ==
    /\ At(c, "handshake")
    /\ \/ child[<<job[c].sid, "jdi">>] = "connected" /\ Go(c, "start") /\ UNCHANGED <<child, ends>>
       \/ ~Running(<<job[c].sid, "jdi">>) /\ ~OtherEndOpen(job[c].sid) /\ Fail(c, "Jdi")
    /\ UNCHANGED <<plan, jar, dvars>>

\* The launch or attach request. Without JDI the sidecar answers with an error
\* or dies; with it the target may not start, or not answer in time.
start_session(c) ==
    /\ At(c, "start")
    /\ \/ HasJdi(plan.env) /\ Go(c, "insert") /\ UNCHANGED <<child, ends>>
       \/ (plan.frail \/ ~HasJdi(plan.env)) /\ Fail(c, "Jdi")
    /\ UNCHANGED <<plan, jar, dvars>>

\* Session::launch and Session::attach: no jdb, no port to connect to, or jdb.
spawn_jdb(c) ==
    /\ At(c, "jdb")
    /\ \/ find_jdb(plan.env) = "none" /\ Fail(c, "JdbNotFound")
       \/ plan.frail /\ Request(c).op = "Attach" /\ Fail(c, "Connection")
       \/ /\ find_jdb(plan.env) # "none"
          /\ Start(c, <<job[c].sid, "jdb">>)
          /\ Go(c, "banner")
    /\ UNCHANGED <<plan, jar, dvars>>

\* Launching takes whatever comes before the first prompt; attaching fails on a
\* fatal error or the end of the output.
jdb_banner(c) ==
    /\ At(c, "banner")
    /\ \/ Go(c, "insert") /\ UNCHANGED <<child, ends>>
       \/ plan.frail /\ Request(c).op = "Attach" /\ Fail(c, "Connection")
    /\ UNCHANGED <<plan, jar, dvars>>

BuildStep(c) ==
    \/ build_jdi(c) \/ spawn_sidecar(c) \/ accept_sidecar(c) \/ complete_handshake(c)
    \/ start_session(c) \/ spawn_jdb(c) \/ jdb_banner(c)
=============================================================================
