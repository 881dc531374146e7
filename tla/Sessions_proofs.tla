--------------------------- MODULE Sessions_proofs ---------------------------
(***************************************************************************)
(* Proofs about the sessions of a daemon, for every number of daemons,     *)
(* clients and sessions and every plan: who owns a session while it is     *)
(* built or ended, that no process is left without one, that the snapshot  *)
(* is true, that a request makes one session and two sessions share a      *)
(* target only when they were asked for at the same time.                  *)
(***************************************************************************)
EXTENDS Update_proofs, FiniteSetTheorems

\* A thread that builds or ends a session owns it.
Builder == {"jdi", "spawn", "accept", "handshake", "start", "jdb", "banner", "insert"}
Owning == Builder \cup {"kill"}
JobSteps == Owning \cup {"none", "check", "list", "get", "build", "use", "using", "remove",
                         "persist", "reply"}
Present == {"building", "map", "killing"}

\* What a thread is at, and what it is then known to have: it works on a request
\* as long as its connection lasts, and what it owns is a session of its daemon.
JobOf(c) ==
    LET s == job[c].sid IN
    /\ DOMAIN job[c] = {"step", "sid", "backend", "checked", "result", "note"}
    /\ job[c].step \in JobSteps /\ s \in SessionIds \cup {NoSession}
    /\ job[c].step # "none" => thread[c] = "running" /\ Request(c).op # "DaemonStop"
    /\ job[c].step = "check" => Request(c).op = "Attach"
    /\ job[c].step = "build" => Request(c).op \in {"Launch", "Attach"}
    /\ job[c].step \in {"use", "using", "remove"} => s \in SessionIds
    /\ job[c].step \in Owning => s \in SessionIds /\ sess[s].of = Peer(c)
    /\ job[c].step \in Builder => sess[s].place = "building"
    /\ job[c].step = "kill" => sess[s].place = "killing"
JobInv ==
    /\ DOMAIN job = Clients
    /\ \A c \in Clients : JobOf(c)
    /\ \A c, e \in Clients :
         job[c].step \in Owning /\ job[e].step \in Owning /\ job[c].sid = job[e].sid => c = e

\* A session that is being built, kept or ended is one of a daemon.
SessionOf(s) ==
    /\ DOMAIN sess[s] = {"place", "of", "by", "target", "live", "checked", "born"}
    /\ sess[s].place \in Present \cup {"none", "gone"}
    /\ sess[s].place = "none" => sess[s] = NoRecord
    /\ sess[s].place \in Present => sess[s].of \in Daemons
SessionInv == DOMAIN sess = SessionIds /\ \A s \in SessionIds : SessionOf(s)

\* A process that runs has a session in the map, or an owner.
Owned(s) == \E c \in Clients : job[c].step \in Owning /\ job[c].sid = s
ChildInv ==
    /\ DOMAIN child = Children
    /\ \A p \in Children : Running(p) => sess[p[1]].place = "map" \/ Owned(p[1])

OwnersInv == JobInv /\ SessionInv /\ ChildInv

-----------------------------------------------------------------------------

LEMMA OwnersInit == Init => OwnersInv
  <1> SUFFICES ASSUME Init PROVE OwnersInv
    OBVIOUS
  <1>1. JobInv
    BY SessionAssumption DEF Init, LaunchInit, NoJob, JobInv, JobOf, JobSteps, Owning, Builder
  <1>2. SessionInv
    BY DEF Init, ManagerInit, NoRecord, SessionInv, SessionOf, Present
  <1>3. ChildInv
    BY DEF Init, LaunchInit, ChildInv, Running
  <1> QED BY <1>1, <1>2, <1>3 DEF OwnersInv

\* A step of others leaves the threads at work where they are.
Undisturbed ==
    \A c \in Clients : thread[c] = "running" /\ Request(c).op # "DaemonStop" =>
        thread'[c] = "running" /\ client'[c] = client[c] /\ todo'[c] = todo[c]
Around == UNCHANGED <<job, child, sess, snapshot>> /\ Undisturbed

LEMMA AroundKeepsOwners ==
    ASSUME OwnersInv, Around
    PROVE  OwnersInv'
  <1>1. JobInv'
    BY DEF OwnersInv, JobInv, JobOf, Request, Peer, Owning, Builder, Around, Undisturbed
  <1>2. SessionInv'
    BY DEF OwnersInv, SessionInv, SessionOf, Around
  <1>3. ChildInv'
    BY DEF OwnersInv, ChildInv, Running, Owned, Children, Around
  <1> QED BY <1>1, <1>2, <1>3 DEF OwnersInv

\* A step of one thread, on a session it owns or comes to own.
LEMMA OwnersMove ==
    ASSUME OwnersInv, UNCHANGED dvars, NEW c \in Clients, DOMAIN job' = Clients,
           \A e \in Clients \ {c} : job'[e] = job[e],
           JobOf(c)', SessionInv',
           \A s \in SessionIds : sess'[s].place # sess[s].place \/ sess'[s].of # sess[s].of =>
              \A e \in Clients \ {c} : ~(job[e].step \in Owning /\ job[e].sid = s),
           job'[c].step \in Owning =>
              \A e \in Clients \ {c} : ~(job[e].step \in Owning /\ job[e].sid = job'[c].sid)
    PROVE  JobInv'
  <1>1. ASSUME NEW e \in Clients, e # c
        PROVE  JobOf(e)'
    <2>1. JobOf(e) /\ job'[e] = job[e] /\ thread' = thread /\ Request(e)' = Request(e) /\ Peer(e)' = Peer(e)
      BY <1>1 DEF OwnersInv, JobInv, dvars, clientVars, Request, Peer
    <2>2. job[e].step \in Owning => /\ job[e].sid \in SessionIds
                                    /\ sess'[job[e].sid].place = sess[job[e].sid].place
                                    /\ sess'[job[e].sid].of = sess[job[e].sid].of
      BY <1>1, <2>1 DEF JobOf
    <2> QED BY <2>1, <2>2 DEF JobOf, Owning
  <1> QED BY <1>1 DEF OwnersInv, JobInv

-----------------------------------------------------------------------------
(* Building a session.                                                     *)

\* A thread that builds goes on, or gives up and leaves no process behind.
LEMMA BuilderMoves ==
    ASSUME OwnersInv, UNCHANGED <<dvars, sess>>, NEW c \in Clients, job[c].step \in Builder,
           DOMAIN job' = Clients, \A e \in Clients \ {c} : job'[e] = job[e],
           DOMAIN job'[c] = DOMAIN job[c], job'[c].sid = job[c].sid,
           job'[c].step \in Builder \cup {"reply"}, DOMAIN child' = Children,
           \A p \in Children : Running(p)' =>
              IF p[1] = job[c].sid THEN job'[c].step \in Builder ELSE Running(p)
    PROVE  OwnersInv'
  <1>1. SessionInv'
    BY DEF OwnersInv, SessionInv, SessionOf
  <1>2. JobOf(c)'
    BY DEF OwnersInv, JobInv, JobOf, JobSteps, Owning, Builder, dvars, clientVars, Request, Peer
  <1>3. JobInv'
    <2>1. \A e \in Clients \ {c} : ~(job[e].step \in Owning /\ job[e].sid = job[c].sid)
      BY DEF OwnersInv, JobInv, Owning
    <2> QED BY <1>1, <1>2, <2>1, OwnersMove
  <1>4. ChildInv'
    <2> SUFFICES ASSUME NEW p \in Children, Running(p)'
                 PROVE  sess'[p[1]].place = "map" \/ Owned(p[1])'
      BY DEF ChildInv
    <2>1. CASE p[1] = job[c].sid
      BY <2>1 DEF Owned, Owning
    <2>2. CASE p[1] # job[c].sid
      BY <2>2 DEF OwnersInv, ChildInv, Owned
    <2> QED BY <2>1, <2>2
  <1> QED BY <1>1, <1>3, <1>4 DEF OwnersInv

\* What goes on of a thread that builds, and what a failure does.
LEMMA GoesOn ==
    ASSUME OwnersInv, NEW c \in Clients, NEW step \in Builder, Go(c, step), job[c].step \in Builder,
           UNCHANGED <<dvars, sess, child>>
    PROVE  OwnersInv'
  <1>1. DOMAIN job = Clients /\ DOMAIN job[c] = {"step", "sid", "backend", "checked", "result", "note"}
        /\ DOMAIN child = Children
    BY DEF OwnersInv, JobInv, JobOf, ChildInv
  <1>2. \A p \in Children : Running(p)' => Running(p)
    BY DEF Running
  <1> QED BY <1>1, <1>2, BuilderMoves DEF Go

LEMMA Fails ==
    ASSUME OwnersInv, NEW c \in Clients, NEW error, Fail(c, error), job[c].step \in Builder,
           UNCHANGED <<dvars, sess>>
    PROVE  OwnersInv'
  <1>1. DOMAIN job = Clients /\ DOMAIN job[c] = {"step", "sid", "backend", "checked", "result", "note"}
        /\ DOMAIN child = Children
    BY DEF OwnersInv, JobInv, JobOf, ChildInv
  <1>2. /\ DOMAIN job' = Clients /\ \A e \in Clients \ {c} : job'[e] = job[e]
        /\ DOMAIN job'[c] = DOMAIN job[c] /\ job'[c].sid = job[c].sid
        /\ job'[c].step \in Builder \cup {"reply"}
    BY <1>1 DEF Fail, Builder
  <1>3. DOMAIN child' = Children /\ \A p \in Children : Running(p)' => Running(p) /\ p[1] # job[c].sid
    BY <1>1 DEF Fail, Running
  <1> QED BY <1>1, <1>2, <1>3, BuilderMoves

LEMMA Starts ==
    ASSUME OwnersInv, NEW c \in Clients, NEW x \in {"jdi", "jdb"}, NEW step \in Builder,
           Start(c, <<job[c].sid, x>>), Go(c, step), job[c].step \in Builder, UNCHANGED <<dvars, sess>>
    PROVE  OwnersInv'
  <1>1. DOMAIN job = Clients /\ DOMAIN job[c] = {"step", "sid", "backend", "checked", "result", "note"}
        /\ DOMAIN child = Children
    BY DEF OwnersInv, JobInv, JobOf, ChildInv
  <1>2. /\ DOMAIN job' = Clients /\ \A e \in Clients \ {c} : job'[e] = job[e]
        /\ DOMAIN job'[c] = DOMAIN job[c] /\ job'[c].sid = job[c].sid /\ job'[c].step \in Builder
    BY <1>1 DEF Go
  <1>3. \A p \in Children : Running(p)' => p[1] = job[c].sid \/ Running(p)
    BY <1>1 DEF Start, Running
  <1> QED BY <1>1, <1>2, <1>3, BuilderMoves DEF Start

LEMMA BuildKeepsOwners ==
    ASSUME OwnersInv, NEW c \in Clients, BuildStep(c), UNCHANGED sess
    PROVE  OwnersInv'
  <1> USE DEF At, Builder
  <1>1. CASE build_jdi(c)
    BY <1>1, Fails, GoesOn DEF build_jdi
  <1>2. CASE spawn_sidecar(c)
    BY <1>2, Fails, Starts DEF spawn_sidecar
  <1>3. CASE accept_sidecar(c)
    BY <1>3, Fails, GoesOn DEF accept_sidecar
  <1>4. CASE complete_handshake(c)
    BY <1>4, Fails, GoesOn DEF complete_handshake
  <1>5. CASE start_session(c)
    BY <1>5, Fails, GoesOn DEF start_session
  <1>6. CASE spawn_jdb(c)
    BY <1>6, Fails, Starts DEF spawn_jdb
  <1>7. CASE jdb_banner(c)
    BY <1>7, Fails, GoesOn DEF jdb_banner
  <1> QED BY <1>1, <1>2, <1>3, <1>4, <1>5, <1>6, <1>7 DEF BuildStep

-----------------------------------------------------------------------------
(* The other steps of a handler thread.                                    *)

LEMMA AtWork ==
    ASSUME HolderInv, ListenInv, NEW c \in Clients, thread[c] = "running"
    PROVE  /\ Request(c) \in Requests
           /\ Peer(c) \in Daemons /\ daemon[Peer(c)] \in Serving \cup Past
  <1>1. todo[c] \in Seq(Requests) /\ todo[c] # <<>>
    BY DEF HolderInv, DaemonTypeOK, Occupied
  <1>2. Peer(c) \in Daemons /\ daemon[Peer(c)] \in Serving \cup Past
    BY DEF ListenInv, ConnectionsServed, Past, HolderInv, Occupied, Peer
  <1> QED BY <1>1, <1>2 DEF Request

\* A thread that owns nothing goes on without touching a session.
LEMMA WorksBeside ==
    ASSUME OwnersInv, UNCHANGED <<dvars, sess, child>>, NEW c \in Clients, job[c].step \notin Owning,
           DOMAIN job' = Clients, \A e \in Clients \ {c} : job'[e] = job[e],
           JobOf(c)', job'[c].step \notin Owning
    PROVE  OwnersInv'
  <1>1. SessionInv'
    BY DEF OwnersInv, SessionInv, SessionOf
  <1>2. JobInv'
    BY <1>1, OwnersMove
  <1>3. ChildInv'
    BY DEF OwnersInv, ChildInv, Running, Owned
  <1> QED BY <1>1, <1>2, <1>3 DEF OwnersInv

LEMMA DispatchKeepsOwners ==
    ASSUME HolderInv, ListenInv, OwnersInv, NEW c \in Clients, dispatch(c)
    PROVE  OwnersInv'
  <1>0. DOMAIN job = Clients
    BY DEF OwnersInv, JobInv
  <1>1. Request(c) \in Requests /\ Request(c).op \in Operations \ {"DaemonStop"}
    BY AtWork, ShapeAssumption DEF dispatch
  <1>2. /\ job'[c] = [NoJob EXCEPT !.step = FirstStep[Request(c).op]]
        /\ DOMAIN job' = Clients /\ \A e \in Clients \ {c} : job'[e] = job[e]
        /\ UNCHANGED <<dvars, sess, child>>
    BY <1>0 DEF dispatch, managerVars
  <1>3. job'[c].step = FirstStep[Request(c).op] /\ job'[c].sid = NoSession
    BY <1>2 DEF NoJob
  <1>4. /\ job'[c].step \in {"build", "check", "list", "get", "reply"}
        /\ job'[c].step = "check" => Request(c).op = "Attach"
        /\ job'[c].step = "build" => Request(c).op = "Launch"
    BY <1>1, <1>3 DEF FirstStep, Operations
  <1>5. JobOf(c)'
    BY <1>2, <1>3, <1>4 DEF dispatch, JobOf, JobSteps, Owning, Builder, NoJob, dvars, clientVars, Request
  <1> QED BY <1>2, <1>4, <1>5, WorksBeside DEF dispatch, Owning, Builder

LEMMA ReadsKeepOwners ==
    ASSUME HolderInv, ListenInv, OwnersInv, NEW c \in Clients,
           \/ check_duplicate(c) \/ persist_sessions(c) \/ list(c) \/ get(c) \/ use_session(c) \/ session_used(c)
    PROVE  OwnersInv'
  <1> USE DEF At, Go, Answer, Owning, Builder, JobSteps
  <1>0. DOMAIN job = Clients /\ JobOf(c)
    BY DEF OwnersInv, JobInv
  <1>1. UNCHANGED <<dvars, sess, child>> /\ Request(c)' = Request(c)
    BY DEF check_duplicate, persist_sessions, list, get, use_session, session_used, managerVars, dvars,
           clientVars, Request
  <1>2. CASE check_duplicate(c) \/ persist_sessions(c) \/ list(c)
    <2>1. DOMAIN job' = Clients /\ \A e \in Clients \ {c} : job'[e] = job[e]
      BY <1>0, <1>2 DEF check_duplicate, persist_sessions, list
    <2>2. JobOf(c)' /\ job[c].step \notin Owning /\ job'[c].step \notin Owning
      BY <1>0, <1>1, <1>2 DEF check_duplicate, persist_sessions, list, JobOf, dvars, clientVars
    <2> QED BY <1>1, <2>1, <2>2, WorksBeside
  <1>3. CASE get(c)
    <2> DEFINE alive == {s \in sessions(Peer(c)) : sess[s].live}
               found == IF Request(c).session # NoSession THEN {Request(c).session} \cap sessions(Peer(c)) ELSE alive
    <2>1. Cardinality(found) = 1 => (CHOOSE s \in found : TRUE) \in SessionIds
      <3>1. \A S : Cardinality(S) = 1 => S # {}
        BY ONLY FS_EmptySet
      <3>2. found \subseteq SessionIds
        BY DEF sessions
      <3> QED BY <3>1, <3>2
    <2>2. DOMAIN job' = Clients /\ \A e \in Clients \ {c} : job'[e] = job[e]
      BY <1>0, <1>3 DEF get
    <2>3. JobOf(c)' /\ job[c].step \notin Owning /\ job'[c].step \notin Owning
      BY <1>0, <1>1, <1>3, <2>1 DEF get, JobOf, dvars, clientVars
    <2> QED BY <1>1, <2>2, <2>3, WorksBeside
  <1>4. CASE use_session(c) \/ session_used(c)
    <2>1. DOMAIN job' = Clients /\ \A e \in Clients \ {c} : job'[e] = job[e]
      BY <1>0, <1>4 DEF use_session, session_used
    <2>2. JobOf(c)' /\ job[c].step \notin Owning /\ job'[c].step \notin Owning
      BY <1>0, <1>1, <1>4 DEF use_session, session_used, JobOf, dvars, clientVars
    <2> QED BY <1>1, <2>1, <2>2, WorksBeside
  <1> QED BY <1>2, <1>3, <1>4

LEMMA CreateKeepsOwners ==
    ASSUME HolderInv, ListenInv, OwnersInv, NEW c \in Clients, create_session(c)
    PROVE  OwnersInv'
  <1> DEFINE new == gen_session_id
             r == Request(c)
  <1>0. DOMAIN job = Clients /\ JobOf(c) /\ DOMAIN sess = SessionIds /\ job[c].step = "build"
    BY DEF OwnersInv, JobInv, SessionInv, create_session, At
  <1>1. new \in SessionIds /\ sess[new].place = "none"
    BY Zenon DEF create_session, gen_session_id
  <1>2. r \in Requests /\ r.op \in {"Launch", "Attach"} /\ Peer(c) \in Daemons /\ r.backend \in {"jdi", "jdb"}
    BY <1>0, AtWork, ShapeAssumption DEF create_session, At, JobOf
  <1>3. /\ UNCHANGED <<dvars, child>> /\ DOMAIN sess' = SessionIds
        /\ \A s \in SessionIds \ {new} : sess'[s] = sess[s]
        /\ DOMAIN sess'[new] = {"place", "of", "by", "target", "live", "checked", "born"}
        /\ sess'[new].place = "building" /\ sess'[new].of = Peer(c)
    BY <1>0, <1>1 DEF create_session, NoRecord
  <1>4. /\ DOMAIN job' = Clients /\ \A e \in Clients \ {c} : job'[e] = job[e]
        /\ \/ job'[c] = [job[c] EXCEPT !.step = "reply", !.result = "Connection"]
           \/ job'[c] = [job[c] EXCEPT !.sid = new, !.backend = r.backend, !.step = r.backend]
    BY <1>0 DEF create_session, Answer
  <1>5. \A e \in Clients : ~(job[e].step \in Owning /\ job[e].sid = new)
    BY <1>1 DEF OwnersInv, JobInv, JobOf, Owning
  <1>6. SessionInv'
    BY <1>2, <1>3 DEF OwnersInv, SessionInv, SessionOf, Present
  <1>7. JobOf(c)'
    BY <1>0, <1>1, <1>2, <1>3, <1>4 DEF JobOf, JobSteps, Owning, Builder, Request, Peer, dvars, clientVars
  <1>8. JobInv'
    <2>1. job'[c].step \in Owning => job'[c].sid = new
      BY <1>0, <1>4 DEF JobOf, Owning, Builder
    <2>2. \A s \in SessionIds : sess'[s].place # sess[s].place \/ sess'[s].of # sess[s].of => s = new
      BY <1>3
    <2> QED BY <1>3, <1>4, <1>5, <1>6, <1>7, <2>1, <2>2, OwnersMove
  <1>9. ChildInv'
    <2>1. \A s \in SessionIds : s # new /\ sess[s].place = "map" => sess'[s].place = "map"
      BY <1>3
    <2>2. \A s \in SessionIds : Owned(s) => Owned(s)'
      BY <1>0, <1>4 DEF Owned, Owning, Builder
    <2>3. \A p \in Children : Running(p) => p[1] # new
      BY <1>1, <1>5 DEF OwnersInv, ChildInv, Owned
    <2> QED BY <1>3, <2>1, <2>2, <2>3 DEF OwnersInv, ChildInv, Running, Children
  <1> QED BY <1>6, <1>8, <1>9 DEF OwnersInv

\* The session that a thread owns or takes goes to another place.
LEMMA OwnerMoves ==
    ASSUME OwnersInv, UNCHANGED dvars, NEW c \in Clients, NEW s \in SessionIds,
           job[c].sid = s, job'[c].sid = s, DOMAIN job' = Clients,
           \A e \in Clients \ {c} : job'[e] = job[e] /\ ~(job[e].step \in Owning /\ job[e].sid = s),
           DOMAIN sess' = SessionIds, \A t \in SessionIds \ {s} : sess'[t] = sess[t],
           sess'[s].of = sess[s].of, sess[s].of \in Daemons,
           DOMAIN sess'[s] = {"place", "of", "by", "target", "live", "checked", "born"},
           sess'[s].place \in {"map", "killing", "gone"},
           JobOf(c)', job'[c].step \in Owning <=> sess'[s].place = "killing",
           DOMAIN child' = Children,
           \A p \in Children : Running(p)' => Running(p) /\ (p[1] = s => sess'[s].place # "gone")
    PROVE  OwnersInv'
  <1>1. SessionInv'
    <2>1. ASSUME NEW t \in SessionIds PROVE SessionOf(t)'
      BY DEF OwnersInv, SessionInv, SessionOf, Present
    <2> QED BY <2>1 DEF SessionInv
  <1>2. JobInv'
    BY <1>1, OwnersMove
  <1>3. ChildInv'
    <2> SUFFICES ASSUME NEW p \in Children, Running(p)'
                 PROVE  sess'[p[1]].place = "map" \/ Owned(p[1])'
      BY DEF ChildInv
    <2>1. CASE p[1] = s
      BY <2>1 DEF Owned
    <2>2. CASE p[1] # s
      <3>1. sess[p[1]].place = "map" \/ Owned(p[1])
        BY DEF OwnersInv, ChildInv
      <3>2. p[1] \in SessionIds
        BY DEF Children
      <3> QED BY <2>2, <3>1, <3>2 DEF Owned
    <2> QED BY <2>1, <2>2
  <1> QED BY <1>1, <1>2, <1>3 DEF OwnersInv

LEMMA InsertKeepsOwners ==
    ASSUME HolderInv, ListenInv, OwnersInv, NEW c \in Clients,
           insert_session(c) \/ kill_session(c) \/ kill_fails(c)
    PROVE  OwnersInv'
  <1> DEFINE s == job[c].sid
  <1>0. /\ DOMAIN job = Clients /\ JobOf(c) /\ DOMAIN sess = SessionIds
        /\ thread[c] = "running" /\ job[c].step \in Owning
    BY DEF OwnersInv, JobInv, SessionInv, insert_session, kill_session, kill_fails, At, Owning, Builder
  <1>1. /\ s \in SessionIds /\ sess[s].of = Peer(c) /\ Peer(c) \in Daemons /\ SessionOf(s)
        /\ \A e \in Clients \ {c} : ~(job[e].step \in Owning /\ job[e].sid = s)
    BY <1>0, AtWork DEF OwnersInv, JobInv, JobOf, SessionInv
  <1>2. /\ UNCHANGED dvars /\ DOMAIN sess' = SessionIds /\ \A t \in SessionIds \ {s} : sess'[t] = sess[t]
        /\ sess'[s].of = sess[s].of /\ DOMAIN sess'[s] = {"place", "of", "by", "target", "live", "checked", "born"}
        /\ sess'[s].place \in {"map", "gone"}
    BY <1>0, <1>1 DEF insert_session, kill_session, kill_fails, SessionOf
  <1>3. /\ DOMAIN job' = Clients /\ \A e \in Clients \ {c} : job'[e] = job[e]
        /\ job'[c].sid = s /\ job'[c].step \in {"persist", "reply"}
        /\ DOMAIN job'[c] = DOMAIN job[c]
    BY <1>0 DEF insert_session, kill_session, kill_fails, Answer, JobOf
  <1>4. JobOf(c)'
    BY <1>0, <1>1, <1>2, <1>3 DEF JobOf, JobSteps, Owning, Builder, Request, dvars, clientVars
  <1>5. DOMAIN child' = Children
    BY DEF insert_session, kill_session, kill_fails, Killed, OwnersInv, ChildInv
  <1>6. \A p \in Children : Running(p)' => Running(p) /\ (p[1] = s => sess'[s].place # "gone")
    BY <1>0, <1>1 DEF insert_session, kill_session, kill_fails, Killed, Running, SessionOf
  <1>7. job'[c].step \notin Owning
    BY <1>3 DEF Owning, Builder
  <1> QED BY <1>1, <1>2, <1>3, <1>4, <1>5, <1>6, <1>7, OwnerMoves

LEMMA RemoveKeepsOwners ==
    ASSUME HolderInv, ListenInv, OwnersInv, NEW c \in Clients, remove_session(c)
    PROVE  OwnersInv'
  <1> DEFINE s == job[c].sid
  <1>0. /\ DOMAIN job = Clients /\ JobOf(c) /\ DOMAIN sess = SessionIds
        /\ thread[c] = "running" /\ job[c].step = "remove" /\ s \in SessionIds
    BY DEF OwnersInv, JobInv, JobOf, SessionInv, remove_session, At
  <1>1. UNCHANGED <<dvars, child>> /\ DOMAIN child' = Children
    BY DEF remove_session, OwnersInv, ChildInv
  <1>2. CASE s \in sessions(Peer(c))
    <2>1. /\ sess[s].place = "map" /\ sess[s].of = Peer(c) /\ Peer(c) \in Daemons /\ SessionOf(s)
          /\ \A e \in Clients \ {c} : ~(job[e].step \in Owning /\ job[e].sid = s)
      BY <1>0, <1>2, AtWork DEF sessions, OwnersInv, JobInv, JobOf, SessionInv, Owning
    <2>2. /\ DOMAIN sess' = SessionIds /\ \A t \in SessionIds \ {s} : sess'[t] = sess[t]
          /\ sess'[s].of = sess[s].of /\ DOMAIN sess'[s] = {"place", "of", "by", "target", "live", "checked", "born"}
          /\ sess'[s].place = "killing"
      BY <1>0, <1>2, <2>1 DEF remove_session, SessionOf
    <2>3. /\ DOMAIN job' = Clients /\ \A e \in Clients \ {c} : job'[e] = job[e]
          /\ job'[c].sid = s /\ job'[c].step = "kill" /\ DOMAIN job'[c] = DOMAIN job[c]
      BY <1>0, <1>2 DEF remove_session, Go, JobOf
    <2>4. JobOf(c)'
      BY <1>0, <1>1, <2>1, <2>2, <2>3 DEF JobOf, JobSteps, Owning, Builder, Request, Peer, dvars, clientVars
    <2>5. job'[c].step \in Owning
      BY <2>3 DEF Owning
    <2> QED BY <1>0, <1>1, <2>1, <2>2, <2>3, <2>4, <2>5, OwnerMoves DEF Running
  <1>3. CASE s \notin sessions(Peer(c))
    <2>1. /\ sess' = sess /\ DOMAIN job' = Clients /\ \A e \in Clients \ {c} : job'[e] = job[e]
          /\ job'[c].sid = s /\ job'[c].step = "reply" /\ DOMAIN job'[c] = DOMAIN job[c]
      BY <1>0, <1>3 DEF remove_session, Answer, JobOf
    <2>2. JobOf(c)' /\ job[c].step \notin Owning /\ job'[c].step \notin Owning
      BY <1>0, <1>1, <2>1 DEF JobOf, JobSteps, Owning, Builder, Request, dvars, clientVars
    <2> QED BY <1>1, <2>1, <2>2, WorksBeside
  <1> QED BY <1>2, <1>3

LEMMA DoneKeepsOwners ==
    ASSUME OwnersInv, NEW c \in Clients, work_done(c)
    PROVE  OwnersInv'
  <1>0. /\ DOMAIN job = Clients /\ JobOf(c) /\ job[c].step = "reply"
        /\ UNCHANGED <<daemonVars, client, todo, sess, child>>
    BY DEF OwnersInv, JobInv, work_done, Worked, managerVars
  <1>1. /\ DOMAIN job' = Clients /\ \A e \in Clients \ {c} : job'[e] = job[e] /\ thread'[e] = thread[e]
        /\ job'[c].sid = job[c].sid /\ job'[c].step = "none" /\ DOMAIN job'[c] = DOMAIN job[c]
    BY <1>0 DEF work_done, Go, JobOf, Worked
  <1>2. JobOf(c)'
    BY <1>0, <1>1 DEF JobOf, JobSteps, Owning, Builder
  <1>3. \A e \in Clients \ {c} : JobOf(e)'
    BY <1>0, <1>1 DEF OwnersInv, JobInv, JobOf, Request, Peer
  <1>4. JobInv'
    BY <1>0, <1>1, <1>2, <1>3 DEF OwnersInv, JobInv, Owning, Builder
  <1>5. SessionInv' /\ ChildInv'
    BY <1>0, <1>1 DEF OwnersInv, SessionInv, SessionOf, ChildInv, Running, Owned, Owning, Builder, daemonVars
  <1> QED BY <1>4, <1>5 DEF OwnersInv

LEMMA WorkKeepsOwners ==
    ASSUME HolderInv, ListenInv, OwnersInv, NEW c \in Clients, RequestStep(c)
    PROVE  OwnersInv'
  <1>1. CASE LockMap(c)
    BY <1>1, AroundKeepsOwners DEF LockMap, launchVars, dvars, daemonVars, clientVars, Around, Undisturbed
  <1>2. CASE BuildStep(c) /\ UNCHANGED managerVars
    BY <1>2, BuildKeepsOwners DEF managerVars
  <1> QED BY <1>1, <1>2, DispatchKeepsOwners, ReadsKeepOwners, CreateKeepsOwners, InsertKeepsOwners,
             RemoveKeepsOwners, DoneKeepsOwners DEF RequestStep

-----------------------------------------------------------------------------
(* The end of a process, and what else happens around the threads.         *)

\* What a process owned goes with it; what other processes own stays theirs.
LEMMA EndKeepsOwners ==
    ASSUME DaemonTypeOK, Occupied, OwnersInv, NEW d \in Daemons, Ends(d), ManagerEnds(d)
    PROVE  OwnersInv'
  <1>1. ASSUME NEW c \in Clients, job'[c] # job[c] \/ client[c].peer = d
        PROVE  job'[c].step = "none" /\ (job'[c] = NoJob \/ job'[c] = job[c])
    BY <1>1 DEF ManagerEnds, NoJob, OwnersInv, JobInv, JobOf
  <1>2. ASSUME NEW c \in Clients
        PROVE  JobOf(c)'
    <2>1. client' = client /\ todo' = todo
      BY DEF Ends
    <2>2. CASE job'[c] = NoJob
      BY <2>2 DEF JobOf, NoJob, JobSteps, Owning, Builder
    <2>3. CASE job'[c] = job[c] /\ job[c].step = "none"
      BY <2>3 DEF OwnersInv, JobInv, JobOf, Owning, Builder
    <2>4. CASE job'[c] = job[c] /\ job[c].step # "none"
      <3>1. client[c].peer # d /\ thread'[c] = thread[c]
        BY <1>1, <2>4 DEF Ends, Closes
      <3>2. job[c].step \in Owning => sess'[job[c].sid] = sess[job[c].sid]
        BY <3>1 DEF ManagerEnds, OwnersInv, JobInv, JobOf, Peer
      <3> QED BY <2>1, <2>4, <3>1, <3>2 DEF OwnersInv, JobInv, JobOf, Request, Peer, Owning
    <2> QED BY <1>1, <2>2, <2>3, <2>4
  <1>3. JobInv'
    <2>1. \A c \in Clients : job'[c].step \in Owning => job'[c] = job[c]
      BY <1>1 DEF Owning, Builder
    <2>2. DOMAIN job' = Clients
      BY DEF ManagerEnds
    <2>3. \A c, e \in Clients :
             job[c].step \in Owning /\ job[e].step \in Owning /\ job[c].sid = job[e].sid => c = e
      BY DEF OwnersInv, JobInv
    <2> QED BY <1>2, <2>1, <2>2, <2>3 DEF JobInv
  <1>4. SessionInv'
    <2>1. DOMAIN sess' = SessionIds
      BY DEF ManagerEnds
    <2>2. ASSUME NEW s \in SessionIds
          PROVE  SessionOf(s)'
      BY DEF OwnersInv, SessionInv, SessionOf, ManagerEnds, Ends, Present
    <2> QED BY <2>1, <2>2 DEF SessionInv
  <1>5. ChildInv'
    <2>1. DOMAIN child' = Children
      BY DEF ManagerEnds
    <2>2. ASSUME NEW p \in Children, Running(p)'
          PROVE  sess'[p[1]].place = "map" \/ Owned(p[1])'
      <3>1. p[1] \in SessionIds /\ Running(p) /\ sess[p[1]].of # d
        BY <2>2 DEF ManagerEnds, Running, Children
      <3>2. sess'[p[1]] = sess[p[1]]
        BY <3>1 DEF ManagerEnds
      <3>3. ASSUME NEW c \in Clients, job[c].step \in Owning, job[c].sid = p[1]
            PROVE  job'[c] = job[c]
        <4>1. client[c].peer # d
          BY <3>1, <3>3 DEF OwnersInv, JobInv, JobOf, Peer
        <4> QED BY <4>1 DEF ManagerEnds
      <3> QED BY <3>1, <3>2, <3>3 DEF OwnersInv, ChildInv, Owned
    <2> QED BY <2>1, <2>2 DEF ChildInv
  <1> QED BY <1>3, <1>4, <1>5 DEF OwnersInv

\* What children and targets do by themselves, and the shutdown does to them.
Passing ==
    /\ UNCHANGED <<job, dvars, snapshot>>
    /\ DOMAIN sess' = SessionIds /\ DOMAIN child' = Children
    /\ \A s \in SessionIds : \/ sess'[s] = sess[s]
                             \/ sess[s].place = "map" /\ sess'[s] = [sess[s] EXCEPT !.live = FALSE]
    /\ \A p \in Children : Running(p)' => Running(p)

LEMMA PassingKeepsOwners ==
    ASSUME OwnersInv, Passing
    PROVE  OwnersInv'
  <1> USE DEF Passing
  <1>1. \A s \in SessionIds : sess'[s].place = sess[s].place /\ sess'[s].of = sess[s].of
    BY DEF OwnersInv, SessionInv, SessionOf
  <1>2. ASSUME NEW c \in Clients
        PROVE  JobOf(c)'
    <2>1. JobOf(c) /\ job' = job /\ thread' = thread /\ client' = client /\ todo' = todo
      BY DEF OwnersInv, JobInv, dvars, clientVars
    <2>2. job[c].step \in Owning => job[c].sid \in SessionIds
      BY <2>1 DEF JobOf
    <2> QED BY <1>1, <2>1, <2>2 DEF JobOf, Request, Peer, Owning
  <1>3. ASSUME NEW s \in SessionIds
        PROVE  SessionOf(s)'
    BY <1>1 DEF OwnersInv, SessionInv, SessionOf
  <1>4. ASSUME NEW p \in Children, Running(p)'
        PROVE  sess'[p[1]].place = "map" \/ Owned(p[1])'
    BY <1>1, <1>4 DEF OwnersInv, ChildInv, Children, Owned
  <1> QED BY <1>2, <1>3, <1>4 DEF OwnersInv, JobInv, SessionInv, ChildInv

-----------------------------------------------------------------------------
(* Every step of the system is one of four.                                *)

LEMMA ProcessAround ==
    ASSUME UNCHANGED <<job, child, sess, snapshot>>, NEW d \in Daemons,
           DaemonStart(d) \/ LeaveLoop(d) \/ Unregister(d) \/ Unlink(d) \/ ShutDown(d)
    PROVE  Around
  <1>1. UNCHANGED clientVars
    BY DEF DaemonStart, Bind, Listen, Probe, Reclaim, write_daemon, LeaveLoop, Unregister, Unlink, ShutDown
  <1> QED BY <1>1 DEF clientVars, Around, Undisturbed

LEMMA ClientAround ==
    ASSUME DaemonTypeOK, Occupied, UNCHANGED <<job, child, sess, snapshot>>, NEW c \in Clients,
           Ask(c) \/ ClientStep(c) \/ ThreadStep(c) \/ \E d \in Daemons : Accept(d, c)
    PROVE  Around
  <1>2. ASSUME NEW e \in Clients \ {c}
        PROVE  thread'[e] = thread[e] /\ client'[e] = client[e] /\ todo'[e] = todo[e]
    <2> USE DEF DaemonTypeOK
    <2>1. CASE Ask(c) \/ spawn_daemon_detached(c) \/ Deadline(c) \/ ReadResponse(c) \/ Transient(c)
      BY <2>1 DEF Ask, spawn_daemon_detached, Deadline, ReadResponse, Transient, To, Finish
    <2>2. CASE try_connect(c) \/ Poll(c)
      BY <2>2 DEF try_connect, Poll, Connected, Refused, To, Finish
    <2>3. CASE ThreadStep(c) \/ \E d \in Daemons : Accept(d, c)
      BY <2>3 DEF ThreadStep, daemon_stop_response, write_response, Accept
    <2> QED BY <2>1, <2>2, <2>3 DEF ClientStep
  <1>3. ~(thread[c] = "running" /\ Request(c).op # "DaemonStop")
    BY DEF Ask, ClientStep, try_connect, spawn_daemon_detached, Poll, Deadline, ReadResponse, Transient,
           ThreadStep, daemon_stop_response, write_response, Accept, Occupied
  <1> QED BY <1>2, <1>3 DEF Around, Undisturbed

EndOf(d) == Ends(d) /\ ManagerEnds(d)
\* Connections nobody has accepted are cut, and that is all.
CutsQueued ==
    /\ UNCHANGED <<client, todo>> /\ DOMAIN thread' = Clients
    /\ \A c \in Clients : thread'[c] = thread[c] \/ (thread[c] = "queued" /\ thread'[c] = "cut")

LEMMA ClosingAround ==
    ASSUME UNCHANGED <<job, child, sess, snapshot>>, NEW d \in Daemons, CloseListener(d)
    PROVE  Around /\ CutsQueued
  <1>1. CutsQueued
    BY DEF CloseListener, Closes, CutsQueued
  <1> QED BY <1>1 DEF CutsQueued, Around, Undisturbed

\* Whether as a client the updating program asks, or leaves everything of the clients alone.
AskedByUpdater ==
    /\ plan.program = "update" /\ thread[Updater] = "none" /\ UNCHANGED <<client, thread>>
    /\ todo'[Updater] \in AskRequests /\ \A c \in Clients \ {Updater} : todo'[c] = todo[c]

LEMMA UpdaterGroups ==
    ASSUME ProgramInv, UpdaterStep \/ Publish
    PROVE  \/ \E d \in Daemons : EndOf(d)
           \/ Around /\ (UNCHANGED clientVars \/ AskedByUpdater)
  <1>0. DaemonTypeOK /\ Occupied /\ PidStarted /\ AsksAlone /\ UpdaterAloof
    BY DEF ProgramInv, SystemInv, HolderInv, UpdaterInv
  <1>1. CASE KillsVictim
    <2>1. Victim \in Daemons
      BY <1>0, <1>1 DEF KillsVictim, Victim, PidStarted, DaemonTypeOK
    <2> QED BY <1>1, <2>1 DEF KillsVictim, EndOf
  <1>2. CASE ClearsEntry
    BY <1>2 DEF ClearsEntry, managerVars, clientVars, Around, Undisturbed
  <1>3. CASE AsksDaemon
    <2>1. plan.program = "update" /\ up.stage \notin AskingStages
      BY <1>0, <1>3 DEF AsksDaemon, AtStage, AskingStages, UpdaterAloof, Aloof
    <2>2. thread[Updater] = "none"
      BY <1>0, <2>1, UpdaterAssumption DEF AsksAlone, Occupied
    <2>3. UNCHANGED <<job, child, sess, snapshot, client, thread>>
          /\ \A c \in Clients \ {Updater} : todo'[c] = todo[c]
      BY <1>0, <1>3 DEF AsksDaemon, SendTo, Keep, managerVars, daemonVars, DaemonTypeOK
    <2>4. todo'[Updater] \in AskRequests
      <3>1. PICK op \in {"DaemonStop", "DaemonStatus"} : SendTo(op)
        BY <1>3 DEF AsksDaemon
      <3>2. todo'[Updater] = <<AskFor(op)>>
        BY <1>0, <3>1, UpdaterAssumption DEF SendTo, DaemonTypeOK
      <3> QED BY <3>2 DEF AskRequests
    <2> QED BY <2>1, <2>2, <2>3, <2>4 DEF Around, Undisturbed, AskedByUpdater
  <1> QED BY <1>1, <1>2, <1>3, UpdaterMoves

LEMMA ProcessGroups ==
    ASSUME OwnersInv, NEW d \in Daemons, MainThread(d) \/ ProcessKilled(d)
    PROVE  (Around /\ (UNCHANGED clientVars \/ CutsQueued)) \/ Passing \/ EndOf(d)
  <1>1. CASE ProcessStep(d)
    <2>1. UNCHANGED <<job, child, sess, snapshot>>
      BY <1>1 DEF ProcessStep, Beside, launchVars, managerVars
    <2>2. CASE CloseListener(d)
      BY <2>1, <2>2, ClosingAround
    <2>3. CASE ~CloseListener(d)
      <3>1. UNCHANGED clientVars
        BY <1>1, <2>3 DEF ProcessStep, DaemonStart, Bind, Listen, Probe, Reclaim, write_daemon, LeaveLoop,
                          Unregister, Unlink
      <3> QED BY <1>1, <2>1, <2>3, <3>1, ProcessAround DEF ProcessStep
    <2> QED BY <2>2, <2>3
  <1>2. CASE ProcessEnds(d) \/ ProcessKilled(d)
    BY <1>2 DEF ProcessEnds, ProcessKilled, Exit, Crash, EndOf
  <1>3. CASE shutdown(d)
    BY <1>3, ProcessAround DEF shutdown, ShutDown, launchVars
  <1>4. CASE LockToShutDown(d)
    BY <1>4 DEF LockToShutDown, launchVars, dvars, daemonVars, clientVars, Around, Undisturbed
  <1>5. ASSUME NEW s \in SessionIds, KillAtShutDown(d, s)
        PROVE  Passing
    <2>1. \A p \in Children : Running(p)' => Running(p)
      BY <1>5 DEF KillAtShutDown, Killed, Running
    <2> QED BY <1>5, <2>1 DEF KillAtShutDown, Killed, sessions, OwnersInv, SessionInv, Passing
  <1> QED BY <1>1, <1>2, <1>3, <1>4, <1>5 DEF MainThread, ShutDownStep

LEMMA ChildrenGroups ==
    ASSUME OwnersInv, \/ \E s \in SessionIds : SidecarStep(s) \/ TargetEnds(s)
                      \/ \E p \in Children : OrphanEnds(p)
    PROVE  Passing
  <1>1. ASSUME NEW s \in SessionIds, SidecarStep(s)
        PROVE  Passing
    <2>1. UNCHANGED <<job, dvars, sess, snapshot>> /\ DOMAIN child' = Children
      BY <1>1 DEF SidecarStep, SidecarConnects, SidecarDies, managerVars, OwnersInv, ChildInv
    <2>2. \A p \in Children : Running(p)' => Running(p)
      BY <1>1 DEF SidecarStep, SidecarConnects, SidecarDies, OwnersInv, ChildInv, Running
    <2> QED BY <2>1, <2>2 DEF Passing, OwnersInv, SessionInv
  <1>2. ASSUME NEW s \in SessionIds, TargetEnds(s)
        PROVE  Passing
    BY <1>2 DEF TargetEnds, TargetGone, launchVars, Running, OwnersInv, SessionInv, ChildInv, Passing
  <1>3. ASSUME NEW p \in Children, OrphanEnds(p)
        PROVE  Passing
    <2>1. \A q \in Children : Running(q)' => Running(q)
      BY <1>3 DEF OrphanEnds, OwnersInv, ChildInv, Running
    <2> QED BY <1>3, <2>1 DEF OrphanEnds, managerVars, OwnersInv, SessionInv, ChildInv, Passing
  <1> QED BY <1>1, <1>2, <1>3

\* A client, or its connection, moves beside the threads at work.
ClientMoves ==
    \E c \in Clients : Ask(c) \/ ClientStep(c) \/ ThreadStep(c) \/ \E d \in Daemons : Accept(d, c)

LEMMA Groups ==
    ASSUME ProgramInv, OwnersInv, [Next]_vars
    PROVE  /\ plan' = plan
           /\ \/ Around /\ (UNCHANGED clientVars \/ AskedByUpdater \/ ClientMoves \/ CutsQueued)
              \/ Passing
              \/ \E d \in Daemons : EndOf(d)
              \/ \E c \in Clients : RequestStep(c)
  <1>0. plan' = plan /\ DaemonTypeOK /\ Occupied
    BY UpdaterMoves, OthersMove DEF ProgramInv, SystemInv, HolderInv
  <1>1. CASE \E d \in Daemons : MainThread(d) \/ ProcessKilled(d)
    BY <1>0, <1>1, ProcessGroups
  <1>2. ASSUME NEW c \in Clients, Asks(c) \/ Exchange(c)
        PROVE  (Around /\ ClientMoves) \/ RequestStep(c)
    <2>1. CASE Works(c)
      BY <2>1 DEF Works
    <2>2. CASE Asks(c) \/ Talks(c) \/ Replies(c) \/ \E d \in Daemons : Accepts(d, c)
      <3>1. Ask(c) \/ ClientStep(c) \/ ThreadStep(c) \/ \E d \in Daemons : Accept(d, c)
        BY <2>2 DEF Asks, Talks, Replies, Accepts
      <3>2. UNCHANGED <<job, child, sess, snapshot>>
        BY <2>2 DEF Asks, Talks, Replies, Accepts, Beside, launchVars, managerVars
      <3> QED BY <1>0, <3>1, <3>2, ClientAround DEF ClientMoves
    <2> QED BY <1>2, <2>1, <2>2 DEF Exchange
  <1>3. CASE UNCHANGED vars
    BY <1>0, <1>3 DEF vars, launchVars, managerVars, dvars, daemonVars, clientVars, Around, Undisturbed
  <1> QED BY <1>0, <1>1, <1>2, <1>3, ChildrenGroups, UpdaterGroups DEF Next

LEMMA OwnersStep ==
    ASSUME ProgramInv, OwnersInv, [Next]_vars
    PROVE  OwnersInv'
  <1>1. HolderInv /\ ListenInv /\ DaemonTypeOK /\ Occupied
    BY DEF ProgramInv, SystemInv, HolderInv
  <1> QED BY <1>1, Groups, AroundKeepsOwners, PassingKeepsOwners, EndKeepsOwners, WorkKeepsOwners DEF EndOf

LEMMA OwnersInvariance == Spec => []OwnersInv
  BY OwnersInit, OwnersStep, ProgramInvariance, PTL DEF Spec

\* As long as its daemon lives, a sidecar or a jdb that runs belongs to a session
\* in the map or to a thread at work on it, whatever fails and whoever is killed.
THEOREM NoStrayProcessHolds == Spec => []NoStrayProcess
  <1>1. OwnersInv => NoStrayProcess
    BY DEF OwnersInv, JobInv, JobOf, ChildInv, Owned, NoStrayProcess, Owning, Builder
  <1> QED BY <1>1, OwnersInvariance, PTL

-----------------------------------------------------------------------------
(* Types.                                                                  *)

ChildStates == {"none", "up", "connected", "dead", "class not found", "orphan"}
ChildrenTyped ==
    /\ child \in [Children -> ChildStates] /\ ends \in [Children -> SUBSET SessionIds]
    /\ lock \in [Daemons -> Daemons \cup Clients \cup {None}]

\* The archive that is at hand is one that was downloaded.
ReleasesTyped ==
    /\ {"stage", "archive"} \subseteq DOMAIN up
    /\ latest \in {"1", "2"} /\ jar \in {"absent", "old", "1", "2"} /\ exe \in {"old", "aside", "new"}
    /\ up.stage \in {"checksum", "replace", "rename"} => up.archive \in {"1", "2"}

LEMMA ReleasesStep ==
    ASSUME ReleasesTyped, [Next]_vars
    PROVE  ReleasesTyped'
  <1> USE DEF AtStage, Enter, Failed, ReleasesTyped, Keep
  <1>1. CASE UNCHANGED <<plan, jar, updateVars>>
    BY <1>1 DEF updateVars
  <1>2. CASE run_update \/ stop_daemon_before_update \/ wait_for_daemon_exit \/ stop_process \/ remove_daemon
    BY <1>2 DEF run_update, stop_daemon_before_update, wait_for_daemon_exit, stop_process, remove_daemon, Files
  <1>3. CASE run_setup
    BY <1>3 DEF run_setup, Files
  <1>4. CASE ensure_jdi_sidecar_available \/ remove_target \/ install_target
    BY <1>4 DEF ensure_jdi_sidecar_available, remove_target, install_target, AfterRemoval, Files
  <1>5. CASE move_self_aside \/ install_command \/ download_archive \/ verify_archive_checksum
    BY <1>5 DEF move_self_aside, install_command, download_archive, verify_archive_checksum, Step, Files
  <1>6. CASE install_sidecar_file
    BY <1>6 DEF install_sidecar_file
  <1>7. CASE Publish
    BY <1>7 DEF Publish, launchVars
  <1> QED BY <1>1, <1>2, <1>3, <1>4, <1>5, <1>6, <1>7, OthersMove DEF UpdaterStep

LEMMA BuildTyped ==
    ASSUME OwnersInv, ChildrenTyped, NEW c \in Clients, BuildStep(c), lock' = lock
    PROVE  ChildrenTyped'
  <1> USE DEF ChildrenTyped, ChildStates
  <1>1. CASE UNCHANGED <<child, ends>>
    BY <1>1
  <1>2. ASSUME NEW error, Fail(c, error)
        PROVE  ChildrenTyped'
    BY <1>2 DEF Fail
  <1>3. ASSUME NEW p, Start(c, p)
        PROVE  ChildrenTyped'
    <2>1. Inheritable(c) \subseteq SessionIds
      <3>1. \A e \in Clients : job[e].step \in {"spawn", "accept"} => job[e].sid \in SessionIds
        BY DEF OwnersInv, JobInv, JobOf, Owning, Builder
      <3> QED BY <3>1 DEF Inheritable, OnDaemon
    <2> QED BY <1>3, <2>1 DEF Start
  <1>4. CASE build_jdi(c) \/ spawn_sidecar(c)
    BY <1>1, <1>2, <1>3, <1>4 DEF build_jdi, spawn_sidecar
  <1>5. CASE accept_sidecar(c) \/ complete_handshake(c) \/ start_session(c)
    BY <1>1, <1>2, <1>5 DEF accept_sidecar, complete_handshake, start_session
  <1>6. CASE spawn_jdb(c) \/ jdb_banner(c)
    BY <1>1, <1>2, <1>3, <1>6 DEF spawn_jdb, jdb_banner
  <1> QED BY <1>4, <1>5, <1>6 DEF BuildStep

LEMMA ChildrenStep ==
    ASSUME ProgramInv, OwnersInv, ChildrenTyped, [Next]_vars
    PROVE  ChildrenTyped'
  <1> USE DEF ChildrenTyped, ChildStates
  <1>1. CASE UNCHANGED <<child, ends, lock>>
    BY <1>1
  <1>2. ASSUME NEW d, ManagerEnds(d)
        PROVE  ChildrenTyped'
    BY <1>2 DEF ManagerEnds
  <1>3. ASSUME NEW c \in Clients, RequestStep(c)
        PROVE  ChildrenTyped'
    <2>1. CASE BuildStep(c) /\ UNCHANGED managerVars
      BY <2>1, BuildTyped DEF managerVars
    <2>2. CASE \/ dispatch(c) \/ LockMap(c) \/ check_duplicate(c) \/ create_session(c) \/ insert_session(c)
               \/ persist_sessions(c) \/ list(c) \/ get(c) \/ use_session(c) \/ session_used(c)
      BY <2>2 DEF dispatch, LockMap, check_duplicate, create_session, insert_session, persist_sessions, list, get,
                  use_session, session_used, Unlock, launchVars, managerVars
    <2>3. CASE remove_session(c) \/ kill_session(c) \/ kill_fails(c) \/ work_done(c)
      BY <2>3 DEF remove_session, kill_session, kill_fails, work_done, Killed, managerVars
    <2> QED BY <1>3, <2>1, <2>2, <2>3 DEF RequestStep
  <1>4. CASE \E d \in Daemons : MainThread(d) \/ ProcessKilled(d)
    BY <1>1, <1>2, <1>4 DEF MainThread, ProcessStep, ProcessEnds, ProcessKilled, ShutDownStep, LockToShutDown,
                            KillAtShutDown, shutdown, Killed, Beside, launchVars, managerVars
  <1>5. CASE \E c \in Clients : Asks(c) \/ Exchange(c)
    BY <1>1, <1>3, <1>5 DEF Asks, Exchange, Talks, Accepts, Replies, Works, Beside, launchVars, managerVars
  <1>6. CASE \/ \E s \in SessionIds : SidecarStep(s) \/ TargetEnds(s)
             \/ \E p \in Children : OrphanEnds(p)
    BY <1>6 DEF SidecarStep, SidecarConnects, SidecarDies, TargetEnds, TargetGone, OrphanEnds, launchVars, managerVars
  <1>7. CASE UpdaterStep \/ Publish
    BY <1>1, <1>2, <1>7, UpdaterMoves DEF AsksDaemon, ClearsEntry, KillsVictim, Keep, managerVars
  <1>8. CASE UNCHANGED vars
    BY <1>1, <1>8 DEF vars, launchVars, managerVars
  <1> QED BY <1>4, <1>5, <1>6, <1>7, <1>8 DEF Next

\* Whatever the threads, the sessions and the updating program keep has its type.
THEOREM SystemTypes == Spec => []SystemTypeOK
  <1>1. Init => ChildrenTyped /\ ReleasesTyped
    BY SurroundingsAssumption
       DEF Init, LaunchInit, ManagerInit, UpdateInit, ChildrenTyped, ChildStates, ReleasesTyped
  <1>2. ProgramInv /\ OwnersInv /\ ChildrenTyped /\ ReleasesTyped /\ [Next]_vars => (ChildrenTyped /\ ReleasesTyped)'
    BY ChildrenStep, ReleasesStep
  <1>3. ProgramInv /\ OwnersInv /\ ChildrenTyped /\ ReleasesTyped => SystemTypeOK
    BY DEF ProgramInv, SystemInv, HolderInv, OwnersInv, JobInv, JobOf, SessionInv, SessionOf, Present,
           ChildrenTyped, ChildStates, ReleasesTyped, SystemTypeOK
  <1> QED BY <1>1, <1>2, <1>3, OwnersInvariance, ProgramInvariance, PTL DEF Spec

-----------------------------------------------------------------------------
(* Where the JVM of a sidecar comes from.                                  *)

\* What was looked at before a sidecar is started still holds when it has started.
LookedAt ==
    \A c \in Clients :
        /\ job[c].step \in {"spawn", "accept", "handshake", "start"} => ~MissingTools(plan.env)
        /\ job[c].step \in {"accept", "handshake", "start"} => RunningHome(plan.env) # "none"

\* With JDI's tools at hand, or a home that does not need them, the java that runs
\* has JDI, but for the exceptions.
LEMMA HomesHaveJdi ==
    ASSUME NEW e, e.JDBG_JDI_JAVA \in Homes \cup {"unset", "none"}, e.PATH_java \in Homes \cup {"none"},
           ~MissingTools(e), RunningHome(e) # "none"
    PROVE  HasJdi(e) \/ RunningHome(e) = "jre11" \/ HomeUnknown(e)
  <1> DEFINE java == resolve_sidecar_java_path(e)
  <1>1. java \in Homes \cup {"PATH", "none"}
    <2>1. default_java_path(e) \in Homes \cup {"PATH"}
      BY DEF default_java_path, java_in_home, Homes
    <2>2. java_in_home(e.JAVA_HOME) \in Homes \cup {"none"}
          /\ java_in_home(resolve_explicit_jdb_path(e)) \in Homes \cup {"none"}
      BY DEF java_in_home
    <2> QED BY <2>1, <2>2 DEF resolve_sidecar_java_path, FirstOf
  <1>2. RunningHome(e) \in Homes /\ (java # "PATH" => RunningHome(e) = java)
    BY <1>1 DEF RunningHome
  <1>3. CASE jdk_home_for(e) = RunningHome(e)
    <2>1. resolve_tools_jar(e) \/ HasModules(RunningHome(e))
      BY <1>3 DEF MissingTools, jdk_home_needs_tools_jar
    <2> QED BY <1>2, <2>1 DEF HasJdi, HasModules, Homes
  <1>4. CASE jdk_home_for(e) # RunningHome(e)
    <2>1. is_concrete_jdk_home(RunningHome(e)) => java = "PATH"
      <3>1. ASSUME java # "PATH", is_concrete_jdk_home(RunningHome(e))
            PROVE  jdk_home_for(e) = RunningHome(e)
        BY <1>1, <1>2, <3>1 DEF jdk_home_for, concrete, FirstOf
      <3> QED BY <1>4, <3>1
    <2> QED BY <1>4, <2>1 DEF HomeUnknown
  <1> QED BY <1>3, <1>4

LEMMA LookedAtStep ==
    ASSUME ProgramInv, OwnersInv, LookedAt, [Next]_vars
    PROVE  LookedAt'
  <1> DEFINE Late == {"spawn", "accept", "handshake", "start"}
  <1>0. plan' = plan /\ HolderInv /\ ListenInv /\ DOMAIN job = Clients
    BY Groups DEF ProgramInv, SystemInv, OwnersInv, JobInv
  <1>1. ASSUME \A c \in Clients : job'[c].step \in Late => job'[c].step = job[c].step
        PROVE  LookedAt'
    BY <1>0, <1>1 DEF LookedAt
  <1>2. ASSUME NEW d, ManagerEnds(d)
        PROVE  LookedAt'
    <2>1. \A c \in Clients : job'[c].step \in Late => job'[c].step = job[c].step
      BY <1>2 DEF ManagerEnds, NoJob
    <2> QED BY <1>1, <2>1
  <1>3. ASSUME NEW c \in Clients, RequestStep(c)
        PROVE  LookedAt'
    <2>0. JobOf(c) /\ DOMAIN job[c] = {"step", "sid", "backend", "checked", "result", "note"}
      BY DEF OwnersInv, JobInv, JobOf
    <2>1. ASSUME NEW step, Go(c, step), step \in {"spawn", "accept", "handshake", "start"} =>
                   ~MissingTools(plan.env) /\ (step # "spawn" => RunningHome(plan.env) # "none")
          PROVE  LookedAt'
      BY <1>0, <2>0, <2>1 DEF Go, LookedAt
    <2>2. ASSUME NEW error, Fail(c, error)
          PROVE  LookedAt'
      <3>1. \A e \in Clients : job'[e].step \in Late => job'[e].step = job[e].step
        BY <1>0, <2>0, <2>2 DEF Fail
      <3> QED BY <1>1, <3>1
    <2>3. CASE BuildStep(c)
      <3> USE DEF At
      <3>1. CASE build_jdi(c) \/ spawn_sidecar(c)
        BY <2>1, <2>2, <3>1 DEF build_jdi, spawn_sidecar, LookedAt
      <3>2. CASE accept_sidecar(c) \/ complete_handshake(c)
        BY <2>1, <2>2, <3>2 DEF accept_sidecar, complete_handshake, LookedAt
      <3>3. CASE start_session(c) \/ spawn_jdb(c) \/ jdb_banner(c)
        BY <2>1, <2>2, <3>3 DEF start_session, spawn_jdb, jdb_banner
      <3> QED BY <2>3, <3>1, <3>2, <3>3 DEF BuildStep
    <2>4. CASE dispatch(c)
      <3>1. Request(c).op \in Operations \ {"DaemonStop"}
        BY <1>0, <2>4, AtWork, ShapeAssumption DEF dispatch
      <3>2. FirstStep[Request(c).op] \notin Late
        BY <3>1 DEF Operations, FirstStep
      <3>3. \A e \in Clients : job'[e].step \in Late => job'[e].step = job[e].step
        BY <1>0, <2>4, <3>2 DEF dispatch, NoJob
      <3> QED BY <1>1, <3>3
    <2>5. CASE create_session(c)
      <3>1. Request(c).backend \notin Late
        BY <1>0, <2>0, <2>5, AtWork, ShapeAssumption DEF create_session, At, JobOf
      <3>2. \A e \in Clients : job'[e].step \in Late => job'[e].step = job[e].step
        BY <1>0, <2>0, <2>5, <3>1 DEF create_session, Answer
      <3> QED BY <1>1, <3>2
    <2>6. CASE \/ LockMap(c) \/ check_duplicate(c) \/ insert_session(c) \/ persist_sessions(c) \/ list(c)
               \/ get(c) \/ use_session(c) \/ session_used(c)
      <3>1. \A e \in Clients : job'[e].step \in Late => job'[e].step = job[e].step
        BY <1>0, <2>0, <2>6 DEF LockMap, check_duplicate, insert_session, persist_sessions, list, get, use_session,
                                session_used, Go, Answer, launchVars
      <3> QED BY <1>1, <3>1
    <2>7. CASE remove_session(c) \/ kill_session(c) \/ kill_fails(c) \/ work_done(c)
      <3>1. \A e \in Clients : job'[e].step \in Late => job'[e].step = job[e].step
        BY <1>0, <2>0, <2>7 DEF remove_session, kill_session, kill_fails, work_done, Go, Answer
      <3> QED BY <1>1, <3>1
    <2> QED BY <1>3, <2>3, <2>4, <2>5, <2>6, <2>7 DEF RequestStep
  <1>4. CASE job' = job
    BY <1>1, <1>4
  <1> QED BY <1>2, <1>3, <1>4, Groups DEF Around, Passing, EndOf

\* A sidecar is asked to start a session only when it can load JDI, in every
\* environment, but for the exceptions the property names: a modular runtime without
\* the module, and a home that cannot be told.
THEOREM SidecarLoadsJdiHolds == Spec => []SidecarLoadsJdi
  <1>1. Init => LookedAt
    BY DEF Init, LaunchInit, NoJob, LookedAt
  <1>2. Spec => [](plan \in Plans)
    <2>1. plan \in Plans /\ [Next]_vars => (plan \in Plans)'
      BY UpdaterMoves, OthersMove
    <2> QED BY <2>1, PTL DEF Spec, Init
  <1>3. plan \in Plans /\ LookedAt => SidecarLoadsJdi
    <2> SUFFICES ASSUME plan \in Plans, LookedAt, NEW c \in Clients, At(c, "start")
                 PROVE  HasJdi(plan.env) \/ RunningHome(plan.env) = "jre11" \/ HomeUnknown(plan.env)
      BY DEF SidecarLoadsJdi
    <2>1. ~MissingTools(plan.env) /\ RunningHome(plan.env) # "none"
      BY DEF LookedAt, At
    <2>2. plan.env.JDBG_JDI_JAVA \in Homes \cup {"unset", "none"} /\ plan.env.PATH_java \in Homes \cup {"none"}
      BY SurroundingsAssumption
    <2> QED BY <2>1, <2>2, HomesHaveJdi
  <1> QED BY <1>1, <1>2, <1>3, LookedAtStep, OwnersInvariance, ProgramInvariance, PTL DEF Spec

-----------------------------------------------------------------------------
(* The snapshot.                                                           *)

SnapshotInv ==
    /\ DOMAIN snapshot = {"by", "ids", "stale"}
    /\ snapshot.by \in Daemons \cup {None}
    /\ snapshot.by # None => daemon[snapshot.by] \in Serving \cup Past
    /\ SnapshotTrue

\* A process that serves or has ended stays among those.
LEMMA StagesStay ==
    ASSUME ProgramInv, OwnersInv, [Next]_vars, NEW d \in Daemons
    PROVE  /\ daemon[d] \in Serving \cup Past => daemon'[d] \in Serving \cup Past
           /\ daemon[d] = "gone" => daemon'[d] = "gone"
  <1>0. DaemonTypeOK /\ PidStarted
    BY DEF ProgramInv, SystemInv, HolderInv, UpdaterInv
  <1>1. CASE [DaemonNext]_dvars
    BY <1>0, <1>1, StagesAdvance
  <1>2. CASE KillsVictim
    BY <1>0, <1>2 DEF KillsVictim, Ends, Goto, DaemonTypeOK, Past
  <1>3. CASE AsksDaemon \/ ClearsEntry
    BY <1>3 DEF AsksDaemon, ClearsEntry, SendTo, daemonVars
  <1> QED BY <1>1, <1>2, <1>3, OthersMove, UpdaterMoves

\* Who changes the sessions of a daemon is known to do so.
Busy(d) == \E c \in Clients : Peer(c) = d /\ job[c].step \in {"persist", "kill"}

LEMMA BusyChanges == ASSUME OwnersInv, NEW d PROVE Busy(d) <=> Changing(d)
  BY DEF OwnersInv, JobInv, JobOf, Busy, Changing, OnDaemon, Peer

LEMMA SnapshotStays ==
    ASSUME OwnersInv, OwnersInv', SnapshotInv, snapshot' = snapshot,
           snapshot.by # None => daemon'[snapshot.by] \in Serving \cup Past,
           snapshot.by # None /\ ~snapshot.stale /\ Alive(snapshot.by)' =>
              /\ Alive(snapshot.by)
              /\ Busy(snapshot.by)' \/ (~Busy(snapshot.by) /\ sessions(snapshot.by)' = sessions(snapshot.by))
    PROVE  SnapshotInv'
  <1>1. \A d : Busy(d)' <=> Changing(d)'
    BY DEF OwnersInv, JobInv, JobOf, Busy, Changing, OnDaemon, Peer
  <1> QED BY <1>1, BusyChanges DEF SnapshotInv, SnapshotTrue

\* A step of a thread changes only the sessions of its daemon, and a save is due
\* from then on; only the save itself ends that, or a kill that fails.
LEMMA WorkIsBusy ==
    ASSUME OwnersInv, NEW c \in Clients, RequestStep(c), ~persist_sessions(c), ~kill_fails(c)
    PROVE  /\ snapshot' = snapshot /\ client' = client
           /\ \A e \in Clients \ {c} : job'[e] = job[e]
           /\ \A d : d # Peer(c) => sessions(d)' = sessions(d)
           /\ \/ job'[c].step \in {"persist", "kill"}
              \/ job[c].step \notin {"persist", "kill"} /\ \A d : sessions(d)' = sessions(d)
  <1> DEFINE Due(step) == step \in {"persist", "kill"}
  <1>0. DOMAIN job = Clients /\ JobOf(c) /\ DOMAIN sess = SessionIds /\ DOMAIN job[c] = {"step", "sid", "backend", "checked", "result", "note"}
    BY DEF OwnersInv, JobInv, JobOf, SessionInv
  <1>1. ASSUME sess' = sess PROVE \A d : sessions(d)' = sessions(d)
    BY <1>1 DEF sessions
  <1>2. CASE BuildStep(c) /\ UNCHANGED managerVars
    <2>1. UNCHANGED <<snapshot, client, sess>>
      BY <1>2, BuildLeaves DEF managerVars, dvars, clientVars
    <2>2. /\ \A e \in Clients \ {c} : job'[e] = job[e]
          /\ ~Due(job[c].step)
      BY <1>0, <1>2 DEF BuildStep, build_jdi, spawn_sidecar, accept_sidecar, complete_handshake, start_session, spawn_jdb,
                        jdb_banner, Go, Fail, At
    <2> QED BY <1>1, <2>1, <2>2
  <1>3. CASE \/ dispatch(c) \/ check_duplicate(c) \/ list(c) \/ get(c) \/ use_session(c) \/ session_used(c)
    BY <1>0, <1>1, <1>3 DEF dispatch, check_duplicate, list, get, use_session, session_used, At, Go, Answer,
                            managerVars, dvars, clientVars
  <1>4. CASE LockMap(c) \/ work_done(c)
    BY <1>0, <1>1, <1>4 DEF LockMap, work_done, Worked, Go, launchVars, managerVars, dvars, clientVars
  <1>5. CASE create_session(c)
    <2>1. gen_session_id \in SessionIds /\ sess[gen_session_id].place = "none"
      BY <1>5, Zenon DEF create_session, gen_session_id
    <2>2. \A d : sessions(d)' = sessions(d)
      BY <1>0, <1>5, <2>1 DEF create_session, sessions, NoRecord
    <2>3. UNCHANGED <<snapshot, client>> /\ ~Due(job[c].step) /\ \A e \in Clients \ {c} : job'[e] = job[e]
      BY <1>0, <1>5 DEF create_session, At, Answer, dvars, clientVars
    <2> QED BY <2>2, <2>3
  <1>6. CASE insert_session(c) \/ kill_session(c)
    <2>1. job[c].sid \in SessionIds /\ sess[job[c].sid].of = Peer(c) /\ SessionOf(job[c].sid)
      BY <1>0, <1>6 DEF insert_session, kill_session, At, JobOf, Owning, Builder, OwnersInv, SessionInv
    <2>2. \A d : d # Peer(c) => sessions(d)' = sessions(d)
      BY <1>0, <1>6, <2>1 DEF insert_session, kill_session, sessions, SessionOf
    <2>3. UNCHANGED <<snapshot, client>> /\ Due(job'[c].step) /\ \A e \in Clients \ {c} : job'[e] = job[e]
      BY <1>0, <1>6 DEF insert_session, kill_session, dvars, clientVars
    <2> QED BY <2>2, <2>3
  <1>7. CASE remove_session(c)
    <2>1. CASE job[c].sid \in sessions(Peer(c))
      <3>1. \A d : d # Peer(c) => sessions(d)' = sessions(d)
        BY <1>0, <1>7, <2>1 DEF remove_session, sessions, OwnersInv, SessionInv, SessionOf
      <3>2. UNCHANGED <<snapshot, client>> /\ Due(job'[c].step) /\ \A e \in Clients \ {c} : job'[e] = job[e]
        BY <1>0, <1>7, <2>1 DEF remove_session, Go, dvars, clientVars
      <3> QED BY <3>1, <3>2
    <2>2. CASE job[c].sid \notin sessions(Peer(c))
      BY <1>0, <1>1, <1>7, <2>2 DEF remove_session, At, Answer, dvars, clientVars
    <2> QED BY <2>1, <2>2
  <1> QED BY <1>2, <1>3, <1>4, <1>5, <1>6, <1>7 DEF RequestStep

LEMMA SnapshotStep ==
    ASSUME ProgramInv, OwnersInv, SnapshotInv, [Next]_vars
    PROVE  SnapshotInv'
  <1> DEFINE d == snapshot.by
  <1>0. OwnersInv' /\ HolderInv /\ ListenInv /\ DaemonTypeOK
    BY OwnersStep DEF ProgramInv, SystemInv, HolderInv
  <1>1. d # None => /\ d \in Daemons /\ daemon'[d] \in Serving \cup Past
                    /\ daemon'[d] # "gone" => Alive(d)
    BY StagesStay DEF SnapshotInv, Alive, Serving, Past
  <1>2. ASSUME snapshot' = snapshot,
               d # None /\ daemon'[d] # "gone" => Busy(d)' \/ (~Busy(d) /\ sessions(d)' = sessions(d))
        PROVE  SnapshotInv'
    BY <1>0, <1>1, <1>2, SnapshotStays DEF Alive
  <1>3. CASE Around
    <2>1. Busy(d) => Busy(d)'
      BY <1>3 DEF Around, Undisturbed, Busy, Peer, OwnersInv, JobInv, JobOf
    <2> QED BY <1>2, <1>3, <2>1 DEF Around, sessions
  <1>4. CASE Passing
    <2>1. sessions(d)' = sessions(d)
      BY <1>4 DEF Passing, sessions, OwnersInv, SessionInv, SessionOf
    <2> QED BY <1>2, <1>4, <2>1 DEF Passing, Busy, Peer, dvars, clientVars
  <1>5. ASSUME NEW e \in Daemons, EndOf(e)
        PROVE  SnapshotInv'
    <2>1. snapshot' = snapshot /\ client' = client
      BY <1>5 DEF EndOf, Ends, ManagerEnds
    <2>2. CASE d = e
      <3>1. daemon'[e] = "gone"
        BY <1>0, <1>5 DEF EndOf, Ends, Goto, DaemonTypeOK
      <3> QED BY <1>2, <2>1, <2>2, <3>1
    <2>3. CASE d # e
      <3>1. \A c \in Clients : Peer(c) = d => job'[c] = job[c]
        BY <1>5, <2>3 DEF EndOf, ManagerEnds, Peer
      <3>2. \A s \in SessionIds : /\ sess[s].of = d => sess'[s] = sess[s]
                                  /\ sess'[s].of = d => sess[s].of = d
        BY <1>5, <2>3 DEF EndOf, ManagerEnds, OwnersInv, SessionInv, SessionOf
      <3>3. sessions(d)' = sessions(d)
        BY <2>1, <3>2 DEF sessions
      <3> QED BY <1>2, <2>1, <3>1, <3>3 DEF Busy, Peer
    <2> QED BY <2>2, <2>3
  <1>6. ASSUME NEW c \in Clients, RequestStep(c)
        PROVE  SnapshotInv'
    <2>1. CASE persist_sessions(c)
      <3>1. snapshot' = [by |-> Peer(c), ids |-> sessions(Peer(c)), stale |-> FALSE]
            /\ sess' = sess /\ UNCHANGED dvars
        BY <2>1 DEF persist_sessions
      <3>2. Peer(c) \in Daemons /\ daemon[Peer(c)] \in Serving \cup Past
        BY <1>0, <2>1, AtWork DEF persist_sessions, At
      <3> QED BY <3>1, <3>2 DEF SnapshotInv, SnapshotTrue, sessions, dvars, daemonVars
    <2>2. CASE kill_fails(c)
      <3>1. snapshot' = [snapshot EXCEPT !.stale = TRUE] /\ UNCHANGED dvars
        BY <2>2 DEF kill_fails
      <3> QED BY <3>1 DEF SnapshotInv, SnapshotTrue, dvars, daemonVars
    <2>3. CASE ~persist_sessions(c) /\ ~kill_fails(c)
      BY <1>2, <1>6, <2>3, WorkIsBusy DEF Busy, Peer
    <2> QED BY <2>1, <2>2, <2>3
  <1> QED BY <1>3, <1>4, <1>5, <1>6, Groups

\* sessions.json lists the sessions of the daemon that wrote it, but between a
\* change and its save and after a kill that failed.
THEOREM SnapshotTrueHolds == Spec => []SnapshotTrue
  <1>1. Init => SnapshotInv
    BY DEF Init, ManagerInit, SnapshotInv, SnapshotTrue
  <1>2. SnapshotInv => SnapshotTrue
    BY DEF SnapshotInv
  <1> QED BY <1>1, <1>2, SnapshotStep, OwnersInvariance, ProgramInvariance, PTL DEF Spec

-----------------------------------------------------------------------------
(* One session from one request.                                           *)

\* A thread that may have made its session already, or has it made and not told.
Carries(c) ==
    /\ thread[c] \in {"running", "replying", "written"}
    /\ thread[c] = "running" => job[c].step \in Builder \cup {"persist", "reply"}

\* The request a session is from is one its client is done with, or the one it
\* waits for, from the daemon of the session.
OnceOf(s) ==
    LET c == sess[s].by[1]
        n == sess[s].by[2]
    IN  /\ c \in Clients /\ n \in Nat /\ n >= Len(todo[c])
        /\ n = Len(todo[c]) => Carries(c) /\ Peer(c) = sess[s].of
        /\ plan.program = "update" => c # Updater
OnceInv ==
    /\ \A s \in SessionIds : sess[s].place \in Present => OnceOf(s)
    /\ \A s, t \in SessionIds :
         s # t /\ sess[s].place \in Present /\ sess[t].place \in Present => sess[s].by # sess[t].by

\* A step that makes no session, and takes no response back.
LEMMA OnceKept ==
    ASSUME DaemonTypeOK, DaemonTypeOK', OnceInv, plan' = plan,
           \A s \in SessionIds : sess'[s].place \in Present =>
              sess[s].place \in Present /\ sess'[s].by = sess[s].by /\ sess'[s].of = sess[s].of,
           \A c \in Clients : (plan.program = "update" => c # Updater) =>
              /\ Len(todo'[c]) <= Len(todo[c])
              /\ Carries(c) /\ Len(todo'[c]) = Len(todo[c]) =>
                    \/ Carries(c)' /\ Peer(c)' = Peer(c)
                    \/ \A s \in SessionIds : sess'[s].place \in Present => sess'[s].of # Peer(c)
    PROVE  OnceInv'
  <1>1. ASSUME NEW s \in SessionIds, sess'[s].place \in Present
        PROVE  OnceOf(s)'
    <2> DEFINE c == sess[s].by[1]
    <2>1. OnceOf(s) /\ sess'[s].by = sess[s].by /\ sess'[s].of = sess[s].of
      BY <1>1 DEF OnceInv
    <2>2. c \in Clients /\ Len(todo[c]) \in Nat /\ Len(todo'[c]) \in Nat /\ Len(todo'[c]) <= Len(todo[c])
      BY <2>1 DEF OnceOf, DaemonTypeOK
    <2>3. CASE sess[s].by[2] = Len(todo'[c])
      <3>1. Carries(c) /\ Peer(c) = sess[s].of /\ Len(todo'[c]) = Len(todo[c])
        BY <2>1, <2>2, <2>3 DEF OnceOf
      <3>2. Carries(c)' /\ client'[c].peer = client[c].peer
        BY <1>1, <2>1, <2>2, <3>1 DEF OnceOf, Peer
      <3> QED BY <2>1, <2>2, <2>3, <3>1, <3>2 DEF OnceOf, Peer
    <2>4. CASE sess[s].by[2] # Len(todo'[c])
      BY <2>1, <2>2, <2>4 DEF OnceOf
    <2> QED BY <2>3, <2>4
  <1> QED BY <1>1 DEF OnceInv

\* The clients finish their requests one by one; a response that was written
\* waits for its client.
LEMMA ClientCarries ==
    ASSUME HolderInv, NEW c \in Clients, ClientMoves \/ UNCHANGED clientVars, job' = job
    PROVE  /\ Len(todo'[c]) <= Len(todo[c])
           /\ Carries(c) /\ Len(todo'[c]) = Len(todo[c]) => Carries(c)' /\ Peer(c)' = Peer(c)
  <1>0. DaemonTypeOK /\ Occupied /\ todo[c] \in Seq(Requests) /\ Len(todo[c]) \in Nat
    BY DEF HolderInv, DaemonTypeOK
  <1>1. CASE client'[c] = client[c] /\ todo'[c] = todo[c] /\ thread'[c] = thread[c]
    BY <1>0, <1>1 DEF Carries, Peer
  <1>2. CASE UNCHANGED clientVars
    BY <1>1, <1>2 DEF clientVars
  <1>3. ASSUME todo[c] # <<>>, todo'[c] = Tail(todo[c])
        PROVE  Len(todo'[c]) < Len(todo[c])
    BY <1>0, <1>3
  <1>4. ASSUME NEW e \in Clients,
               Ask(e) \/ ClientStep(e) \/ ThreadStep(e) \/ \E d \in Daemons : Accept(d, e)
        PROVE  /\ Len(todo'[c]) <= Len(todo[c])
               /\ Carries(c) /\ Len(todo'[c]) = Len(todo[c]) => Carries(c)' /\ Peer(c)' = Peer(c)
    <2> USE DEF DaemonTypeOK
    <2>1. CASE Ask(e) \/ spawn_daemon_detached(e) \/ Deadline(e)
      <3>1. e # c => client'[c] = client[c] /\ todo'[c] = todo[c] /\ thread'[c] = thread[c]
        BY <1>0, <2>1 DEF Ask, spawn_daemon_detached, Deadline, To, Finish
      <3>2. e = c => ~Carries(c) /\ (todo'[c] = todo[c] \/ (todo[c] # <<>> /\ todo'[c] = Tail(todo[c])))
        BY <1>0, <2>1 DEF Ask, spawn_daemon_detached, Deadline, To, Finish, Occupied, Carries
      <3> QED BY <1>0, <1>1, <1>3, <3>1, <3>2
    <2>2. CASE try_connect(e) \/ Poll(e)
      <3>1. e # c => client'[c] = client[c] /\ todo'[c] = todo[c] /\ thread'[c] = thread[c]
        BY <1>0, <2>2 DEF try_connect, Poll, Connected, Refused, To, Finish
      <3>2. e = c => ~Carries(c) /\ (todo'[c] = todo[c] \/ (todo[c] # <<>> /\ todo'[c] = Tail(todo[c])))
        BY <1>0, <2>2 DEF try_connect, Poll, Connected, Refused, To, Finish, Occupied, Carries
      <3> QED BY <1>0, <1>1, <1>3, <3>1, <3>2
    <2>3. CASE ReadResponse(e) \/ Transient(e)
      <3>1. e # c => client'[c] = client[c] /\ todo'[c] = todo[c] /\ thread'[c] = thread[c]
        BY <1>0, <2>3 DEF ReadResponse, Transient, To, Finish
      <3>2. e = c => \/ ~Carries(c) /\ todo'[c] = todo[c]
                     \/ todo[c] # <<>> /\ todo'[c] = Tail(todo[c])
        <4>1. CASE ReadResponse(e)
          BY <1>0, <4>1 DEF ReadResponse, Finish, Occupied
        <4>2. CASE Transient(e)
          BY <1>0, <4>2 DEF Transient, To, Finish, Occupied, Carries
        <4> QED BY <2>3, <4>1, <4>2
      <3> QED BY <1>0, <1>1, <1>3, <3>1, <3>2
    <2>4. CASE ThreadStep(e) \/ \E d \in Daemons : Accept(d, e)
      <3>1. /\ client' = client /\ todo' = todo /\ (e # c => thread'[c] = thread[c])
            /\ e = c => ~Carries(c) \/ thread'[c] \in {"replying", "written"}
        BY <1>0, <2>4 DEF ThreadStep, daemon_stop_response, write_response, Accept, Carries
      <3> QED BY <1>0, <1>1, <3>1 DEF Carries, Peer
    <2> QED BY <1>4, <2>1, <2>2, <2>3, <2>4 DEF ClientStep
  <1> QED BY <1>2, <1>4 DEF ClientMoves

\* A thread that carries a session goes on carrying it; no other step of a thread
\* but create_session makes one.
LEMMA WorkCarries ==
    ASSUME DaemonTypeOK, OwnersInv, NEW c \in Clients, RequestStep(c), ~create_session(c)
    PROVE  /\ UNCHANGED <<client, todo>> /\ \A e \in Clients \ {c} : job'[e] = job[e] /\ thread'[e] = thread[e]
           /\ Carries(c) => Carries(c)'
           /\ \A s \in SessionIds : sess'[s].place \in Present =>
                sess[s].place \in Present /\ sess'[s].by = sess[s].by /\ sess'[s].of = sess[s].of
  <1>0. /\ DOMAIN job = Clients /\ JobOf(c) /\ DOMAIN sess = SessionIds
        /\ DOMAIN job[c] = {"step", "sid", "backend", "checked", "result", "note"}
        /\ \A s \in SessionIds : DOMAIN sess[s] = {"place", "of", "by", "target", "live", "checked", "born"}
    BY DEF OwnersInv, JobInv, JobOf, SessionInv, SessionOf
  <1> USE DEF Carries, At, Go, Answer, dvars, clientVars, managerVars
  <1>1. CASE BuildStep(c) /\ UNCHANGED managerVars
    <2>1. UNCHANGED <<client, todo, thread, sess>>
      BY <1>1, BuildLeaves
    <2>2. /\ \A e \in Clients \ {c} : job'[e] = job[e]
          /\ job[c].step \in Builder /\ job'[c].step \in Builder \cup {"reply"}
      <3>1. CASE build_jdi(c) \/ spawn_sidecar(c)
        BY <1>0, <3>1 DEF build_jdi, spawn_sidecar, Fail, Builder
      <3>5. ASSUME NEW error, Fail(c, error)
            PROVE  /\ \A e \in Clients \ {c} : job'[e] = job[e]
                   /\ job'[c].step \in Builder \cup {"reply"}
        BY <1>0, <3>5 DEF Fail, Builder
      <3>2. CASE accept_sidecar(c)
        BY <1>0, <3>2, <3>5 DEF accept_sidecar, Builder
      <3>4. CASE complete_handshake(c)
        BY <1>0, <3>4 DEF complete_handshake, Fail, Builder
      <3>3. CASE start_session(c) \/ spawn_jdb(c) \/ jdb_banner(c)
        BY <1>0, <3>3 DEF start_session, spawn_jdb, jdb_banner, Fail, Builder
      <3> QED BY <1>1, <3>1, <3>2, <3>3, <3>4 DEF BuildStep
    <2> QED BY <2>1, <2>2
  <1>2. CASE dispatch(c) \/ check_duplicate(c) \/ list(c) \/ get(c) \/ use_session(c) \/ session_used(c)
    <2>1. job[c].step \in {"none", "check", "list", "get", "use", "using"} /\ thread[c] = "running"
          /\ UNCHANGED <<client, todo, thread, sess>>
      BY <1>2 DEF dispatch, check_duplicate, list, get, use_session, session_used
    <2>2. \A e \in Clients \ {c} : job'[e] = job[e]
      BY <1>0, <1>2 DEF dispatch, check_duplicate, list, get, use_session, session_used
    <2> QED BY <2>1, <2>2 DEF Builder
  <1>3. CASE LockMap(c) \/ persist_sessions(c)
    BY <1>0, <1>3 DEF LockMap, persist_sessions, launchVars
  <1>4. CASE work_done(c)
    <2>1. /\ UNCHANGED <<client, todo, sess>> /\ \A e \in Clients \ {c} : job'[e] = job[e] /\ thread'[e] = thread[e]
          /\ thread'[c] = "replying"
      BY <1>0, <1>4 DEF work_done, Worked, DaemonTypeOK
    <2> QED BY <2>1
  <1>5. CASE insert_session(c)
    <2>1. job[c].sid \in SessionIds /\ sess[job[c].sid].place = "building"
      BY <1>0, <1>5 DEF insert_session, JobOf, Owning, Builder
    <2> QED BY <1>0, <1>5, <2>1 DEF insert_session, Present
  <1>6. CASE kill_session(c) \/ kill_fails(c)
    <2>1. job[c].step = "kill" /\ job[c].sid \in SessionIds /\ ~Carries(c)
      BY <1>0, <1>6 DEF kill_session, kill_fails, JobOf, Owning, Builder
    <2> QED BY <1>0, <1>6, <2>1 DEF kill_session, kill_fails, Present
  <1>7. CASE remove_session(c)
    <2>1. job[c].step = "remove" /\ ~Carries(c)
      BY <1>7 DEF remove_session, Builder
    <2> QED BY <1>0, <1>7, <2>1 DEF remove_session, sessions, Present
  <1> QED BY <1>1, <1>2, <1>3, <1>4, <1>5, <1>6, <1>7 DEF RequestStep

\* A request makes a session only once: it carries none when it does.
LEMMA CreateOnce ==
    ASSUME ProgramInv, OwnersInv, OnceInv, NEW c \in Clients, create_session(c)
    PROVE  OnceInv'
  <1> PICK new : new = gen_session_id
    OBVIOUS
  <1>0. /\ HolderInv /\ ListenInv /\ DaemonTypeOK /\ Occupied /\ AsksAlone
        /\ DOMAIN job = Clients /\ JobOf(c) /\ DOMAIN sess = SessionIds
        /\ thread[c] = "running" /\ job[c].step = "build"
    BY DEF ProgramInv, SystemInv, HolderInv, UpdaterInv, OwnersInv, JobInv, SessionInv, create_session, At
  <1>1. new \in SessionIds /\ sess[new].place = "none"
    BY Zenon DEF create_session, gen_session_id
  <1>2. /\ UNCHANGED <<plan, dvars>> /\ \A s \in SessionIds \ {new} : sess'[s] = sess[s]
        /\ sess'[new].by = <<c, Len(todo[c])>> /\ sess'[new].of = Peer(c)
    BY <1>0, <1>1 DEF create_session, NoRecord
  <1>3. /\ \A e \in Clients \ {c} : job'[e] = job[e]
        /\ job'[c].step \in {"jdi", "jdb", "reply"}
    <2>1. Request(c).backend \in {"jdi", "jdb"}
      BY <1>0, AtWork, ShapeAssumption DEF JobOf
    <2> QED BY <1>0, <2>1 DEF create_session, Answer, JobOf
  <1>4. ~Carries(c) /\ Carries(c)' /\ \A e \in Clients : Carries(e) => Carries(e)'
    BY <1>0, <1>2, <1>3 DEF Carries, Builder, dvars, clientVars
  <1>5. Len(todo[c]) \in Nat /\ UNCHANGED <<client, todo, thread>>
    BY <1>0, <1>2 DEF DaemonTypeOK, dvars, clientVars
  <1>6. plan.program = "update" => c # Updater
    <2>1. Request(c).op \in {"Launch", "Attach"} /\ todo[c] # <<>>
      BY <1>0 DEF JobOf, Occupied
    <2>2. \A r \in AskRequests : Head(r).op \in {"DaemonStop", "DaemonStatus"}
      BY DEF AskRequests, AskFor
    <2> QED BY <1>0, <2>1, <2>2 DEF AsksAlone, Request
  <1>7. OnceOf(new)'
    BY <1>2, <1>4, <1>5, <1>6 DEF OnceOf, Peer
  <1>8. ASSUME NEW s \in SessionIds \ {new}, sess'[s].place \in Present
        PROVE  OnceOf(s)' /\ sess'[s].by # sess'[new].by
    <2>1. OnceOf(s) /\ sess'[s] = sess[s]
      BY <1>2, <1>8 DEF OnceInv
    <2>2. sess[s].by # <<c, Len(todo[c])>>
      BY <1>4, <2>1 DEF OnceOf
    <2> QED BY <1>2, <1>4, <1>5, <2>1, <2>2 DEF OnceOf, Peer
  <1>9. ASSUME NEW s \in SessionIds, NEW t \in SessionIds, s # t, sess'[s].place \in Present, sess'[t].place \in Present
        PROVE  sess'[s].by # sess'[t].by
    <2>1. CASE s # new /\ t # new
      BY <1>2, <1>9, <2>1 DEF OnceInv
    <2>2. CASE s = new \/ t = new
      BY <1>8, <1>9, <2>2
    <2> QED BY <2>1, <2>2
  <1>10. ASSUME NEW s \in SessionIds, sess'[s].place \in Present
         PROVE  OnceOf(s)'
    <2>1. CASE s = new
      BY <1>7, <2>1
    <2>2. CASE s # new
      BY <1>8, <1>10, <2>2
    <2> QED BY <2>1, <2>2
  <1> QED BY <1>9, <1>10 DEF OnceInv

LEMMA OnceStep ==
    ASSUME ProgramInv, ProgramInv', OwnersInv, OnceInv, [Next]_vars
    PROVE  OnceInv'
  <1>0. /\ HolderInv /\ DaemonTypeOK /\ DaemonTypeOK' /\ DOMAIN job = Clients /\ plan' = plan
        /\ \A c \in Clients : Len(todo[c]) \in Nat
    BY Groups DEF ProgramInv, SystemInv, HolderInv, DaemonTypeOK, OwnersInv, JobInv
  <1>1. CASE Around /\ (UNCHANGED clientVars \/ ClientMoves)
    <2>1. sess' = sess /\ job' = job
      BY <1>1 DEF Around
    <2>2. \A c \in Clients :
             /\ Len(todo'[c]) <= Len(todo[c])
             /\ Carries(c) /\ Len(todo'[c]) = Len(todo[c]) => Carries(c)' /\ Peer(c)' = Peer(c)
      BY <1>0, <1>1, <2>1, ClientCarries
    <2> QED BY <1>0, <2>1, <2>2, OnceKept
  <1>6. CASE Around /\ CutsQueued
    <2>1. /\ UNCHANGED <<sess, job, client, todo>>
          /\ \A c \in Clients : thread'[c] = thread[c] \/ thread[c] = "queued"
      BY <1>6 DEF Around, CutsQueued
    <2>2. \A c \in Clients : /\ Len(todo'[c]) <= Len(todo[c])
                             /\ Carries(c) => Carries(c)' /\ Peer(c)' = Peer(c)
      BY <1>0, <2>1 DEF Carries, Peer
    <2> QED BY <1>0, <2>1, <2>2, OnceKept
  <1>2. CASE Around /\ AskedByUpdater
    <2>1. /\ UNCHANGED <<sess, job, client, thread>> /\ plan.program = "update"
          /\ \A c \in Clients \ {Updater} : todo'[c] = todo[c]
      BY <1>2 DEF Around, AskedByUpdater
    <2>2. \A c \in Clients \ {Updater} :
             /\ Len(todo'[c]) <= Len(todo[c])
             /\ Carries(c) => Carries(c)' /\ Peer(c)' = Peer(c)
      BY <1>0, <2>1 DEF Carries, Peer
    <2> QED BY <1>0, <2>1, <2>2, OnceKept
  <1>3. CASE Passing
    <2>1. /\ UNCHANGED <<job, client, thread, todo>>
          /\ \A s \in SessionIds : sess'[s].place = sess[s].place /\ sess'[s].by = sess[s].by /\ sess'[s].of = sess[s].of
      BY <1>3 DEF Passing, dvars, clientVars, OwnersInv, SessionInv, SessionOf
    <2>2. \A c \in Clients : /\ Len(todo'[c]) <= Len(todo[c])
                             /\ Carries(c) => Carries(c)' /\ Peer(c)' = Peer(c)
      BY <1>0, <2>1 DEF Carries, Peer
    <2> QED BY <1>0, <2>1, <2>2, OnceKept
  <1>4. ASSUME NEW d \in Daemons, EndOf(d)
        PROVE  OnceInv'
    <2>1. UNCHANGED <<client, todo>>
      BY <1>4 DEF EndOf, Ends
    <2>2. \A s \in SessionIds : sess'[s].place \in Present =>
             sess[s].of # d /\ sess[s].place \in Present /\ sess'[s].by = sess[s].by /\ sess'[s].of = sess[s].of
      BY <1>4 DEF EndOf, ManagerEnds, Present, OwnersInv, SessionInv, SessionOf
    <2>3. ASSUME NEW c \in Clients, Carries(c)
          PROVE  \/ Carries(c)' /\ Peer(c)' = Peer(c)
                 \/ \A s \in SessionIds : sess'[s].place \in Present => sess'[s].of # Peer(c)
      <3>1. CASE Peer(c) = d
        BY <2>2, <3>1
      <3>2. CASE Peer(c) # d
        <4>1. job'[c] = job[c] /\ thread'[c] = thread[c]
          BY <1>4, <3>2 DEF EndOf, ManagerEnds, Ends, Closes, Peer
        <4> QED BY <2>1, <2>3, <4>1 DEF Carries, Peer
      <3> QED BY <3>1, <3>2
    <2>4. \A c \in Clients : Len(todo'[c]) <= Len(todo[c])
      BY <1>0, <2>1
    <2> QED BY <1>0, <2>2, <2>3, <2>4, OnceKept
  <1>5. ASSUME NEW c \in Clients, RequestStep(c)
        PROVE  OnceInv'
    <2>1. CASE create_session(c)
      BY <2>1, CreateOnce
    <2>2. CASE ~create_session(c)
      <3>1. /\ UNCHANGED <<client, todo>> /\ \A e \in Clients \ {c} : job'[e] = job[e] /\ thread'[e] = thread[e]
            /\ Carries(c) => Carries(c)'
            /\ \A s \in SessionIds : sess'[s].place \in Present =>
                 sess[s].place \in Present /\ sess'[s].by = sess[s].by /\ sess'[s].of = sess[s].of
        BY <1>0, <1>5, <2>2, WorkCarries
      <3>2. \A e \in Clients : /\ Len(todo'[e]) <= Len(todo[e])
                               /\ Carries(e) => Carries(e)' /\ Peer(e)' = Peer(e)
        BY <1>0, <3>1 DEF Carries, Peer
      <3> QED BY <1>0, <3>1, <3>2, OnceKept
    <2> QED BY <2>1, <2>2
  <1> QED BY <1>1, <1>2, <1>3, <1>4, <1>5, <1>6, Groups

\* A request that is sent again has not been carried out by a daemon that lives:
\* no two sessions are from one request, wherever connections are cut.
THEOREM OncePerRequestHolds == Spec => []OncePerRequest
  <1>1. Init => OnceInv
    BY DEF Init, ManagerInit, NoRecord, OnceInv, Present
  <1>2. ProgramInv /\ OnceInv => OncePerRequest
    <2> SUFFICES ASSUME ProgramInv, OnceInv PROVE OncePerRequest
      OBVIOUS
    <2>1. ASSUME NEW c \in Clients, thread[c] = "cut"
          PROVE  client[c].peer \notin listening
      <3>1. client[c].peer \in Daemons /\ daemon[client[c].peer] \in Past
        BY <2>1 DEF ProgramInv, SystemInv, HolderInv, Occupied, ListenInv, ConnectionsServed
      <3> QED BY <3>1 DEF ProgramInv, ListenInv, ListenersServe, Serving, Past
    <2> QED BY <2>1 DEF OnceInv, OncePerRequest, Present
  <1> QED BY <1>1, <1>2, OnceStep, OwnersInvariance, ProgramInvariance, PTL DEF Spec

-----------------------------------------------------------------------------
(* Sessions that share a target.                                           *)

Live(s) == sess[s].place = "map" /\ sess[s].live
WantsTargetOf(c, s) ==
    /\ job[c].step = "build" /\ Request(c).op = "Attach"
    /\ sess[s].of = Peer(c) /\ sess[s].target = normalize_attach_host(Request(c).host)
SharesTarget(s, t) ==
    /\ sess[s].of = sess[t].of /\ sess[s].target = sess[t].target /\ sess[s].target # "main class"

\* The sessions are counted as they are inserted, so a session that was there when
\* a thread looked has a number no greater than the one the thread took down.
CountsInv ==
    /\ \A s \in SessionIds : /\ sess[s].checked \in Nat /\ sess[s].born \in Nat
                             /\ sess[s].place = "building" => sess[s].born = 0
                             /\ sess[s].place \in Present => sess[s].target # "localhost"
                             /\ sess[s].checked <= Born
    /\ \A c \in Clients : job[c].checked \in Nat /\ job[c].checked <= Born

\* Who builds a session, or has built one, looked before each other live session
\* with its target was inserted.
OverlapInv ==
    /\ CountsInv
    /\ \A c \in Clients, s \in SessionIds : Live(s) /\ WantsTargetOf(c, s) => job[c].checked < sess[s].born
    /\ \A s, t \in SessionIds :
         s # t /\ Live(s) /\ sess[t].place \in {"building", "map"} /\ SharesTarget(s, t) =>
            sess[t].checked < sess[s].born

LEMMA BornStays ==
    ASSUME \A s \in SessionIds : sess'[s].born = sess[s].born
    PROVE  Born' = Born
  BY DEF Born

LEMMA BornIsNat == Born \in Nat
  <1>1. IsFiniteSet({s \in SessionIds : sess[s].born # 0})
    BY SessionsAssumption, FS_Subset
  <1> QED BY <1>1, FS_CardinalityType DEF Born

LEMMA BornGrows ==
    ASSUME NEW s \in SessionIds, sess[s].born = 0, sess'[s].born # 0,
           \A t \in SessionIds \ {s} : sess'[t].born = sess[t].born
    PROVE  Born' = Born + 1
  <1> DEFINE before == {t \in SessionIds : sess[t].born # 0}
             after == {t \in SessionIds : sess'[t].born # 0}
  <1>1. after = before \cup {s} /\ s \notin before
    OBVIOUS
  <1>2. IsFiniteSet(before)
    BY SessionsAssumption, FS_Subset
  <1>3. Cardinality(after) = Cardinality(before) + 1
    BY <1>1, <1>2, FS_AddElement
  <1> QED BY <1>3 DEF Born

\* A session that ends, dies or leaves the map shares its target with nobody.
LEMMA OverlapShrinks ==
    ASSUME OverlapInv,
           \A s \in SessionIds : /\ sess'[s].checked = sess[s].checked /\ sess'[s].born = sess[s].born
                                 /\ sess'[s].of = sess[s].of /\ sess'[s].target = sess[s].target
                                 /\ sess'[s].place = sess[s].place \/ sess'[s].place \in {"killing", "gone"}
                                 /\ sess'[s].place \in Present => sess[s].place \in Present
                                 /\ sess'[s].live => sess[s].live,
           \A c \in Clients : job'[c].checked \in Nat /\ job'[c].checked <= Born,
           \A c \in Clients, s \in SessionIds :
              Live(s) /\ WantsTargetOf(c, s)' => WantsTargetOf(c, s) /\ job'[c].checked = job[c].checked
    PROVE  OverlapInv'
  <1>1. Born' = Born
    BY BornStays
  <1>2. CountsInv'
    BY <1>1 DEF OverlapInv, CountsInv
  <1>3. \A s \in SessionIds : Live(s)' => Live(s)
    BY DEF Live
  <1>4. ASSUME NEW c \in Clients, NEW s \in SessionIds, Live(s)', WantsTargetOf(c, s)'
        PROVE  job'[c].checked < sess'[s].born
    BY <1>3, <1>4 DEF OverlapInv
  <1>5. ASSUME NEW s \in SessionIds, NEW t \in SessionIds, s # t, Live(s)',
               sess'[t].place \in {"building", "map"}, SharesTarget(s, t)'
        PROVE  sess'[t].checked < sess'[s].born
    <2>1. Live(s) /\ sess[t].place \in {"building", "map"} /\ SharesTarget(s, t)
      BY <1>3, <1>5 DEF SharesTarget
    <2> QED BY <1>5, <2>1 DEF OverlapInv
  <1> QED BY <1>2, <1>4, <1>5 DEF OverlapInv

\* A thread that moves while the sessions stay has looked when it comes to build.
LEMMA LookOverlap ==
    ASSUME ProgramInv, OwnersInv, OverlapInv, NEW c \in Clients, RequestStep(c), sess' = sess
    PROVE  OverlapInv'
  <1>0. /\ HolderInv /\ ListenInv /\ DOMAIN job = Clients /\ JobOf(c)
        /\ DOMAIN job[c] = {"step", "sid", "backend", "checked", "result", "note"}
        /\ \A e \in Clients : job[e].checked \in Nat /\ job[e].checked <= Born
        /\ Born \in Nat
    BY BornIsNat DEF ProgramInv, SystemInv, OwnersInv, JobInv, JobOf, OverlapInv, CountsInv
  <1>1. client' = client /\ todo' = todo
    <2>1. UNCHANGED dvars \/ Worked(c)
      BY RequestLeaves
    <2> QED BY <2>1 DEF Worked, dvars, clientVars
  <1>2. ASSUME \A e \in Clients \ {c} : job'[e] = job[e],
               job'[c].checked \in Nat /\ job'[c].checked <= Born,
               \A s \in SessionIds : Live(s) => ~WantsTargetOf(c, s)'
        PROVE  OverlapInv'
    <2>1. \A e \in Clients, s \in SessionIds :
             Live(s) /\ WantsTargetOf(e, s)' => WantsTargetOf(e, s) /\ job'[e].checked = job[e].checked
      BY <1>1, <1>2 DEF WantsTargetOf, Request, Peer
    <2>2. \A e \in Clients : job'[e].checked \in Nat /\ job'[e].checked <= Born
      BY <1>0, <1>2
    <2> QED BY <2>1, <2>2, OverlapShrinks
  <1>3. CASE job' = job
    <2>1. \A e \in Clients, s \in SessionIds :
             Live(s) /\ WantsTargetOf(e, s)' => WantsTargetOf(e, s) /\ job'[e].checked = job[e].checked
      BY <1>1, <1>3 DEF WantsTargetOf, Request, Peer
    <2> QED BY <1>0, <1>3, <2>1, OverlapShrinks
  <1>4. ASSUME \A e \in Clients \ {c} : job'[e] = job[e], job'[c].step # "build",
               job'[c].checked = job[c].checked
        PROVE  OverlapInv'
    BY <1>0, <1>2, <1>4 DEF WantsTargetOf
  <1>5. CASE dispatch(c)
    <2>1. /\ \A e \in Clients \ {c} : job'[e] = job[e]
          /\ job'[c].step = FirstStep[Request(c).op] /\ job'[c].checked = 0
      BY <1>0, <1>5 DEF dispatch, NoJob
    <2>2. Request(c).op \in Operations \ {"DaemonStop"}
      BY <1>0, <1>5, AtWork, ShapeAssumption DEF dispatch
    <2>3. ~(job'[c].step = "build" /\ Request(c).op = "Attach")
      BY <2>1, <2>2 DEF FirstStep, Operations
    <2> QED BY <1>0, <1>1, <1>2, <2>1, <2>3 DEF WantsTargetOf, Request
  <1>6. CASE check_duplicate(c)
    <2>1. CASE find_duplicate(c) = {}
      <3>1. /\ \A e \in Clients \ {c} : job'[e] = job[e]
            /\ job'[c].step = "build" /\ job'[c].checked = Born
        BY <1>0, <1>6, <2>1 DEF check_duplicate
      <3>2. \A s \in SessionIds : Live(s) => ~WantsTargetOf(c, s)'
        BY <1>1, <2>1 DEF find_duplicate, sessions, Live, WantsTargetOf, Request, Peer
      <3> QED BY <1>0, <1>2, <3>1, <3>2
    <2>2. CASE find_duplicate(c) # {}
      BY <1>0, <1>4, <1>6, <2>2 DEF check_duplicate, Answer
    <2> QED BY <2>1, <2>2
  <1>7. CASE LockMap(c)
    BY <1>3, <1>7 DEF LockMap, launchVars
  <1>8. CASE list(c) \/ persist_sessions(c) \/ get(c) \/ use_session(c) \/ session_used(c)
    BY <1>0, <1>4, <1>8 DEF list, persist_sessions, get, use_session, session_used, Answer, Go
  <1>9. CASE remove_session(c) \/ kill_session(c) \/ kill_fails(c) \/ work_done(c) \/ insert_session(c)
    BY <1>0, <1>4, <1>9 DEF remove_session, kill_session, kill_fails, work_done, insert_session, Answer, Go
  <1>10. CASE BuildStep(c)
    <2>1. ASSUME NEW error, Fail(c, error) PROVE OverlapInv'
      BY <1>0, <1>4, <2>1 DEF Fail
    <2>2. ASSUME NEW step, Go(c, step), step # "build" PROVE OverlapInv'
      BY <1>0, <1>4, <2>2 DEF Go
    <2>3. CASE build_jdi(c) \/ spawn_sidecar(c) \/ accept_sidecar(c) \/ complete_handshake(c)
      BY <2>1, <2>2, <2>3 DEF build_jdi, spawn_sidecar, accept_sidecar, complete_handshake
    <2>4. CASE start_session(c) \/ spawn_jdb(c) \/ jdb_banner(c)
      BY <2>1, <2>2, <2>4 DEF start_session, spawn_jdb, jdb_banner
    <2> QED BY <1>10, <2>3, <2>4 DEF BuildStep
  <1>11. CASE create_session(c)
    <2>1. gen_session_id \in SessionIds /\ sess[gen_session_id].place = "none"
      BY <1>11, Zenon DEF create_session, gen_session_id
    <2>2. FALSE
      BY <1>11, <2>1 DEF create_session, OwnersInv, SessionInv, NoRecord
    <2> QED BY <2>2
  <1> QED BY <1>5, <1>6, <1>7, <1>8, <1>9, <1>10, <1>11 DEF RequestStep

\* A session that is created for a target was looked for: any other is older.
LEMMA CreateOverlap ==
    ASSUME ProgramInv, OwnersInv, OverlapInv, NEW c \in Clients, create_session(c)
    PROVE  OverlapInv'
  <1> PICK new : new = gen_session_id
    OBVIOUS
  <1>0. /\ HolderInv /\ ListenInv /\ DOMAIN job = Clients /\ JobOf(c) /\ DOMAIN sess = SessionIds
        /\ DOMAIN job[c] = {"step", "sid", "backend", "checked", "result", "note"}
        /\ thread[c] = "running" /\ job[c].step = "build" /\ UNCHANGED <<client, todo>>
    BY DEF ProgramInv, SystemInv, OwnersInv, JobInv, JobOf, SessionInv, create_session, At, dvars, clientVars
  <1>1. new \in SessionIds /\ sess[new].place = "none"
    BY Zenon DEF create_session, gen_session_id
  <1>2. /\ \A s \in SessionIds \ {new} : sess'[s] = sess[s]
        /\ sess'[new].place = "building" /\ sess'[new].of = Peer(c) /\ sess'[new].born = 0
        /\ sess'[new].checked = job[c].checked
    BY <1>0, <1>1 DEF create_session, NoRecord
  <1>t. sess'[new].target = IF Request(c).op = "Attach" THEN normalize_attach_host(Request(c).host) ELSE "main class"
    BY <1>0, <1>1 DEF create_session, NoRecord
  <1>3. sess[new].born = 0
    BY <1>1 DEF OwnersInv, SessionInv, SessionOf, NoRecord
  <1>4. /\ \A e \in Clients \ {c} : job'[e] = job[e]
        /\ job'[c].step # "build" /\ job'[c].checked = job[c].checked
    <2>1. Request(c).backend \in {"jdi", "jdb"}
      BY <1>0, AtWork, ShapeAssumption DEF JobOf
    <2> QED BY <1>0, <2>1 DEF create_session, Answer
  <1>5. Born' = Born
    BY <1>2, <1>3, BornStays
  <1>6. CountsInv'
    <2>1. sess'[new].target # "localhost"
      BY <1>t DEF normalize_attach_host
    <2>2. job[c].checked \in Nat /\ job[c].checked <= Born
      BY DEF OverlapInv, CountsInv
    <2>3. \A s \in SessionIds : /\ sess'[s].checked \in Nat /\ sess'[s].born \in Nat
                                /\ sess'[s].place = "building" => sess'[s].born = 0
                                /\ sess'[s].place \in Present => sess'[s].target # "localhost"
                                /\ sess'[s].checked <= Born
      <3> TAKE s \in SessionIds
      <3>1. CASE s = new
        BY <1>2, <2>1, <2>2, <3>1
      <3>2. CASE s # new
        <4>1. sess'[s] = sess[s]
          BY <1>2, <3>2
        <4> QED BY <4>1 DEF OverlapInv, CountsInv
      <3> QED BY <3>1, <3>2
    <2>4. \A e \in Clients : job'[e].checked \in Nat /\ job'[e].checked <= Born
      BY <1>4, <2>2 DEF OverlapInv, CountsInv
    <2> QED BY <1>5, <2>3, <2>4 DEF CountsInv
  <1>7. \A s \in SessionIds : Live(s)' => s # new /\ Live(s)
    BY <1>2 DEF Live
  <1>8. ASSUME NEW e \in Clients, NEW s \in SessionIds, Live(s)', WantsTargetOf(e, s)'
        PROVE  job'[e].checked < sess'[s].born
    <2>1. e # c /\ WantsTargetOf(e, s) /\ Live(s) /\ sess'[s] = sess[s] /\ job'[e] = job[e]
      BY <1>0, <1>2, <1>4, <1>7, <1>8 DEF WantsTargetOf, Request, Peer
    <2> QED BY <2>1 DEF OverlapInv
  <1>9. ASSUME NEW s \in SessionIds, NEW t \in SessionIds, s # t, Live(s)',
               sess'[t].place \in {"building", "map"}, SharesTarget(s, t)'
        PROVE  sess'[t].checked < sess'[s].born
    <2>1. Live(s) /\ sess'[s] = sess[s]
      BY <1>2, <1>7, <1>9
    <2>2. CASE t = new
      <3>1. WantsTargetOf(c, s)
        BY <1>0, <1>2, <1>t, <1>9, <2>1, <2>2 DEF SharesTarget, WantsTargetOf
      <3> QED BY <1>2, <2>1, <2>2, <3>1 DEF OverlapInv
    <2>3. CASE t # new
      BY <1>2, <1>9, <2>1, <2>3 DEF OverlapInv, SharesTarget
    <2> QED BY <2>2, <2>3
  <1> QED BY <1>6, <1>8, <1>9 DEF OverlapInv

\* A session that is inserted gets a number greater than any that was taken down.
LEMMA InsertOverlap ==
    ASSUME OwnersInv, OverlapInv, NEW c \in Clients, insert_session(c)
    PROVE  OverlapInv'
  <1> DEFINE s0 == job[c].sid
  <1>0. /\ DOMAIN job = Clients /\ JobOf(c) /\ DOMAIN sess = SessionIds /\ s0 \in SessionIds
        /\ sess[s0].place = "building" /\ SessionOf(s0) /\ UNCHANGED <<client, todo>>
        /\ DOMAIN job[c] = {"step", "sid", "backend", "checked", "result", "note"}
    BY DEF OwnersInv, JobInv, JobOf, SessionInv, insert_session, At, Owning, Builder, dvars, clientVars
  <1> PICK s1 : s1 = s0
    OBVIOUS
  <1>1. /\ \A s \in SessionIds \ {s1} : sess'[s] = sess[s]
        /\ sess'[s1].place = "map" /\ sess'[s1].of = sess[s1].of /\ sess'[s1].target = sess[s1].target
        /\ sess'[s1].born = Born + 1 /\ sess'[s1].checked = sess[s1].checked
    BY <1>0 DEF insert_session, SessionOf
  <1>2. /\ \A e \in Clients \ {c} : job'[e] = job[e]
        /\ job'[c].step = "persist" /\ job'[c].checked = job[c].checked
    BY <1>0 DEF insert_session
  <1>3. sess[s1].born = 0 /\ Born \in Nat
    BY <1>0, BornIsNat DEF OverlapInv, CountsInv
  <1>4. Born' = Born + 1
    BY <1>0, <1>1, <1>3, BornGrows
  <1>5. CountsInv'
    <2>1. sess[s1].target # "localhost" /\ sess[s1].checked \in Nat /\ sess[s1].checked <= Born
      BY <1>0 DEF OverlapInv, CountsInv, Present
    <2>2. \A s \in SessionIds : /\ sess'[s].checked \in Nat /\ sess'[s].born \in Nat
                                /\ sess'[s].place = "building" => sess'[s].born = 0
                                /\ sess'[s].place \in Present => sess'[s].target # "localhost"
                                /\ sess'[s].checked <= Born + 1
      BY <1>1, <1>3, <2>1 DEF OverlapInv, CountsInv
    <2>3. \A e \in Clients : job'[e].checked \in Nat /\ job'[e].checked <= Born + 1
      BY <1>2, <1>3 DEF OverlapInv, CountsInv
    <2> QED BY <1>4, <2>2, <2>3 DEF CountsInv
  <1>6. ASSUME NEW e \in Clients, NEW s \in SessionIds, Live(s)', WantsTargetOf(e, s)'
        PROVE  job'[e].checked < sess'[s].born
    <2>1. e # c /\ job'[e] = job[e] /\ job[e].checked \in Nat /\ job[e].checked <= Born
      BY <1>2, <1>6 DEF WantsTargetOf, OverlapInv, CountsInv
    <2>2. CASE s = s1
      BY <1>1, <1>3, <2>1, <2>2
    <2>3. CASE s # s1
      <3>1. Live(s) /\ WantsTargetOf(e, s) /\ sess'[s] = sess[s]
        BY <1>0, <1>1, <1>6, <2>1, <2>3 DEF Live, WantsTargetOf, Request, Peer
      <3> QED BY <2>1, <3>1 DEF OverlapInv
    <2> QED BY <2>2, <2>3
  <1>7. ASSUME NEW s \in SessionIds, NEW t \in SessionIds, s # t, Live(s)',
               sess'[t].place \in {"building", "map"}, SharesTarget(s, t)'
        PROVE  sess'[t].checked < sess'[s].born
    <2>1. sess'[t].checked = sess[t].checked /\ sess[t].checked \in Nat /\ sess[t].checked <= Born
      BY <1>1 DEF OverlapInv, CountsInv
    <2>2. CASE s = s1
      BY <1>1, <1>3, <2>1, <2>2
    <2>3. CASE s # s1
      <3>1. Live(s) /\ sess'[s] = sess[s] /\ sess[t].place \in {"building", "map"} /\ SharesTarget(s, t)
        BY <1>0, <1>1, <1>7, <2>3 DEF Live, SharesTarget
      <3> QED BY <1>7, <2>1, <3>1 DEF OverlapInv
    <2> QED BY <2>2, <2>3
  <1> QED BY <1>5, <1>6, <1>7 DEF OverlapInv

LEMMA OverlapStep ==
    ASSUME ProgramInv, OwnersInv, OverlapInv, [Next]_vars
    PROVE  OverlapInv'
  <1>0. /\ DOMAIN job = Clients /\ DOMAIN sess = SessionIds
        /\ \A s \in SessionIds : DOMAIN sess[s] = {"place", "of", "by", "target", "live", "checked", "born"}
        /\ \A c \in Clients : job[c].checked \in Nat /\ job[c].checked <= Born
        /\ Born \in Nat
    BY BornIsNat DEF OwnersInv, JobInv, SessionInv, SessionOf, OverlapInv, CountsInv
  <1>1. CASE Around
    <2>1. \A c \in Clients, s \in SessionIds :
             Live(s) /\ WantsTargetOf(c, s)' => WantsTargetOf(c, s) /\ job'[c].checked = job[c].checked
      BY <1>1 DEF Around, Undisturbed, WantsTargetOf, Request, Peer, OwnersInv, JobInv, JobOf
    <2> QED BY <1>0, <1>1, <2>1, OverlapShrinks DEF Around
  <1>2. CASE Passing
    <2>1. \A s \in SessionIds : /\ sess'[s].checked = sess[s].checked /\ sess'[s].born = sess[s].born
                                /\ sess'[s].of = sess[s].of /\ sess'[s].target = sess[s].target
                                /\ sess'[s].place = sess[s].place
                                /\ sess'[s].live => sess[s].live
      BY <1>0, <1>2 DEF Passing
    <2>2. \A c \in Clients, s \in SessionIds : WantsTargetOf(c, s)' => WantsTargetOf(c, s)
      BY <1>2, <2>1 DEF Passing, WantsTargetOf, Request, Peer, dvars, clientVars
    <2> QED BY <1>0, <1>2, <2>1, <2>2, OverlapShrinks DEF Passing
  <1>3. ASSUME NEW d \in Daemons, EndOf(d)
        PROVE  OverlapInv'
    <2>1. \A s \in SessionIds : /\ sess'[s].checked = sess[s].checked /\ sess'[s].born = sess[s].born
                                /\ sess'[s].of = sess[s].of /\ sess'[s].target = sess[s].target
                                /\ sess'[s].place = sess[s].place \/ sess'[s].place = "gone"
                                /\ sess'[s].live => sess[s].live
      BY <1>0, <1>3 DEF EndOf, ManagerEnds
    <2>2. \A c \in Clients : job'[c] = job[c] \/ job'[c] = NoJob
      BY <1>3 DEF EndOf, ManagerEnds
    <2>3. \A c \in Clients : job'[c].checked \in Nat /\ job'[c].checked <= Born
      BY <1>0, <2>2 DEF NoJob
    <2>4. \A c \in Clients, s \in SessionIds :
             WantsTargetOf(c, s)' => WantsTargetOf(c, s) /\ job'[c].checked = job[c].checked
      BY <1>3, <2>1, <2>2 DEF EndOf, Ends, WantsTargetOf, Request, Peer, NoJob
    <2> QED BY <2>1, <2>3, <2>4, OverlapShrinks DEF Present
  <1>4. ASSUME NEW c \in Clients, RequestStep(c)
        PROVE  OverlapInv'
    <2>1. CASE create_session(c)
      BY <2>1, CreateOverlap
    <2>2. CASE insert_session(c)
      BY <2>2, InsertOverlap
    <2>3. CASE sess' = sess
      BY <1>4, <2>3, LookOverlap
    <2>4. CASE (remove_session(c) \/ kill_session(c) \/ kill_fails(c)) /\ sess' # sess
      <3>1. /\ \A e \in Clients \ {c} : job'[e] = job[e]
            /\ job'[c].step # "build" /\ job'[c].checked = job[c].checked
            /\ UNCHANGED <<client, todo>>
        BY <1>0, <2>4 DEF remove_session, kill_session, kill_fails, Go, Answer, dvars, clientVars, OwnersInv, JobInv, JobOf
      <3>2. \A s \in SessionIds : /\ sess'[s].checked = sess[s].checked /\ sess'[s].born = sess[s].born
                                  /\ sess'[s].of = sess[s].of /\ sess'[s].target = sess[s].target
                                  /\ sess'[s].live => sess[s].live
        BY <1>0, <2>4 DEF remove_session, kill_session, kill_fails
      <3>3. \A s \in SessionIds : /\ sess'[s].place = sess[s].place \/ sess'[s].place \in {"killing", "gone"}
                                  /\ sess'[s].place \in Present => sess[s].place \in Present
        BY <1>0, <2>4 DEF remove_session, kill_session, kill_fails, sessions, Present
      <3>4. \A e \in Clients, s \in SessionIds :
               WantsTargetOf(e, s)' => WantsTargetOf(e, s) /\ job'[e].checked = job[e].checked
        BY <3>1, <3>2 DEF WantsTargetOf, Request, Peer
      <3>5. \A e \in Clients : job'[e].checked \in Nat /\ job'[e].checked <= Born
        BY <1>0, <3>1
      <3> QED BY <3>2, <3>3, <3>4, <3>5, OverlapShrinks
    <2>5. CASE BuildStep(c) /\ UNCHANGED managerVars
      BY <2>3, <2>5 DEF managerVars
    <2> QED BY <1>4, <2>1, <2>2, <2>3, <2>4, <2>5
            DEF RequestStep, dispatch, LockMap, check_duplicate, persist_sessions, list, get, use_session, session_used,
                work_done, managerVars
  <1> QED BY <1>1, <1>2, <1>3, <1>4, Groups

\* Two live sessions of a daemon share a target only when the later one was asked
\* for before the earlier one was there, whoever asks, kills or stops meanwhile.
THEOREM DuplicatesOverlapHolds == Spec => []DuplicatesOverlap
  <1>1. Init => OverlapInv
    <2> SUFFICES ASSUME Init PROVE OverlapInv
      OBVIOUS
    <2>1. \A s \in SessionIds : sess[s] = NoRecord
      BY DEF Init, ManagerInit
    <2>2. \A c \in Clients : job[c] = NoJob
      BY DEF Init, LaunchInit
    <2>3. CountsInv
      BY <2>1, <2>2, BornIsNat DEF CountsInv, NoRecord, NoJob, Present
    <2> QED BY <2>1, <2>2, <2>3 DEF OverlapInv, Live, NoRecord
  <1>2. OverlapInv => DuplicatesOverlap
    <2> SUFFICES ASSUME OverlapInv, NEW s \in SessionIds, NEW t \in SessionIds,
                        s # t, sess[s].of = sess[t].of, SameAddress(sess[s].target, sess[t].target),
                        sess[s].target # "main class", sess[s].place = "map", sess[t].place = "map", sess[s].live
                 PROVE  sess[t].checked < sess[s].born
      BY DEF DuplicatesOverlap
    <2>1. sess[s].target # "localhost" /\ sess[t].target # "localhost"
      BY DEF OverlapInv, CountsInv, Present
    <2>2. sess[s].target = sess[t].target
      BY <2>1 DEF SameAddress
    <2> QED BY <2>2 DEF OverlapInv, Live, SharesTarget
  <1> QED BY <1>1, <1>2, OverlapStep, OwnersInvariance, ProgramInvariance, PTL DEF Spec
=============================================================================
