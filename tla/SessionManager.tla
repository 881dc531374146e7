--------------------------- MODULE SessionManager ---------------------------
(***************************************************************************)
(* The sessions of a daemon (daemon/manager.rs) and the requests about     *)
(* them (the dispatch of daemon/handler.rs): one map behind a mutex, and   *)
(* sessions.json, a snapshot of it.                                        *)
(*                                                                         *)
(* The map is locked in two ways. To insert, to remove or to look one id   *)
(* up takes an instant. To look at every session takes its state, and that *)
(* of a jdb session has to be waited for while a command runs: lock[d]     *)
(* says who does, with the map locked all the while.                       *)
(***************************************************************************)
EXTENDS SidecarLaunch, FiniteSets

ASSUME SessionsAssumption == IsFiniteSet(SessionIds)

\* The requests there are, and the backends a creation may ask for.
Operations == {"Launch", "Attach", "List", "Kill", "Status", "Command", "DaemonStatus", "DaemonStop"}
ASSUME ShapeAssumption ==
    \A r \in Requests : /\ r.op \in Operations
                        /\ r.op \in {"Launch", "Attach"} => r.backend \in {"jdi", "jdb"}

VARIABLES
    sess,      \* the sessions, those that are being built or are gone included
    lock,      \* who has the map of each daemon locked for longer
    snapshot   \* sessions.json: who wrote it, and the ids in it

managerVars == <<sess, lock, snapshot>>

NoRecord == [place |-> "none", of |-> None, by |-> <<None, 0>>, target |-> "none",
             live |-> FALSE, checked |-> 0, born |-> 0]

ManagerInit ==
    /\ sess = [s \in SessionIds |-> NoRecord]
    /\ lock = [d \in Daemons |-> None]
    /\ snapshot = [by |-> None, ids |-> {}, stale |-> FALSE]

sessions(d) == {s \in SessionIds : sess[s].place = "map" /\ sess[s].of = d}
Born == Cardinality({s \in SessionIds : sess[s].born # 0})
Backend(s) == IF child[<<s, "jdb">>] = "none" THEN "jdi" ELSE "jdb"

\* A command has the session to itself; the state of a jdb session waits for it.
Held(s) == \E c \in Clients : At(c, "using") /\ job[c].sid = s
Observable(d) == \A s \in sessions(d) : Backend(s) = "jdb" => ~Held(s)

Peer(c) == client[c].peer
Free(c) == lock[Peer(c)] = None
Has(c)  == lock[Peer(c)] = c
Unlock(c) == lock' = [lock EXCEPT ![Peer(c)] = None]

Answer(c, result) == job' = [job EXCEPT ![c].step = "reply", ![c].result = result]

\* Mutant: the host as it is written.
as_written(host) == host

normalize_attach_host(host) == IF host = "localhost" THEN "127.0.0.1" ELSE host

-----------------------------------------------------------------------------

\* dispatch: what a request is about.
FirstStep ==
    [Launch |-> "build", Attach |-> "check", List |-> "list", Kill |-> "get", Status |-> "get",
     Command |-> "get", DaemonStatus |-> "reply"]

dispatch(c) ==
    /\ thread[c] = "running" /\ job[c].step = "none" /\ Request(c).op # "DaemonStop"
    /\ job' = [job EXCEPT ![c] = [NoJob EXCEPT !.step = FirstStep[Request(c).op]]]
    /\ UNCHANGED <<plan, child, ends, jar, managerVars, dvars>>

\* Those who look at all sessions.
LockMap(c) ==
    /\ thread[c] = "running" /\ job[c].step \in {"check", "list", "get", "persist"} /\ Free(c)
    /\ lock' = [lock EXCEPT ![Peer(c)] = c]
    /\ UNCHANGED <<launchVars, sess, snapshot, dvars>>

\* create_attach: no second session for a target that a live one is attached to.
find_duplicate(c) ==
    {s \in sessions(Peer(c)) : sess[s].target = normalize_attach_host(Request(c).host) /\ sess[s].live}

\* Mutant: the map stays locked until the session is built.
check_and_keep(c) ==
    /\ At(c, "check") /\ Has(c) /\ Observable(Peer(c))
    /\ IF find_duplicate(c) # {}
       THEN Answer(c, "DuplicateTarget") /\ Unlock(c)
       ELSE job' = [job EXCEPT ![c].step = "build", ![c].checked = Born] /\ UNCHANGED lock
    /\ UNCHANGED <<plan, child, ends, jar, sess, snapshot, dvars>>

check_duplicate(c) ==
    /\ At(c, "check") /\ Has(c) /\ Observable(Peer(c))
    /\ IF find_duplicate(c) # {}
       THEN Answer(c, "DuplicateTarget")
       ELSE job' = [job EXCEPT ![c].step = "build", ![c].checked = Born]
    /\ Unlock(c)
    /\ UNCHANGED <<plan, child, ends, jar, sess, snapshot, dvars>>

\* A new id, for whichever backend; jdb_args are not for JDI.
gen_session_id == CHOOSE s \in SessionIds : sess[s].place = "none"

create_session(c) ==
    LET r == Request(c)
    IN  /\ At(c, "build")
        /\ \E s \in SessionIds : sess[s].place = "none"
        /\ sess' = [sess EXCEPT ![gen_session_id] =
                      [NoRecord EXCEPT !.place = "building", !.of = Peer(c),
                         !.by = <<c, Len(todo[c])>>, !.checked = job[c].checked,
                         !.target = IF r.op = "Attach" THEN normalize_attach_host(r.host)
                                    ELSE "main class"]]
        /\ IF r.backend = "jdi" /\ r.jdb_args
           THEN Answer(c, "Connection")
           ELSE job' = [job EXCEPT ![c].sid = gen_session_id, ![c].backend = r.backend,
                                   ![c].step = r.backend]
        /\ UNCHANGED <<plan, child, ends, jar, lock, snapshot, dvars>>

insert_session(c) ==
    /\ At(c, "insert") /\ Free(c)
    /\ sess' = [sess EXCEPT ![job[c].sid].place = "map", ![job[c].sid].live = TRUE,
                            ![job[c].sid].born = Born + 1]
    /\ job' = [job EXCEPT ![c].step = "persist", ![c].result = "ok"]
    /\ UNCHANGED <<plan, child, ends, jar, lock, snapshot, dvars>>

persist_sessions(c) ==
    /\ At(c, "persist") /\ Has(c) /\ Observable(Peer(c))
    /\ snapshot' = [by |-> Peer(c), ids |-> sessions(Peer(c)), stale |-> FALSE]
    /\ Go(c, "reply")
    /\ Unlock(c)
    /\ UNCHANGED <<plan, child, ends, jar, sess, dvars>>

list(c) ==
    /\ At(c, "list") /\ Has(c) /\ Observable(Peer(c))
    /\ Answer(c, "ok")
    /\ Unlock(c)
    /\ UNCHANGED <<plan, child, ends, jar, sess, snapshot, dvars>>

\* The session that was named, or the only one that is alive.
get(c) ==
    LET named == Request(c).session
        alive == {s \in sessions(Peer(c)) : sess[s].live}
        found == IF named # NoSession THEN {named} \cap sessions(Peer(c)) ELSE alive
    IN  /\ At(c, "get") /\ Has(c)
        /\ named = NoSession => Observable(Peer(c))
        /\ IF Cardinality(found) = 1
           THEN job' = [job EXCEPT ![c].sid = CHOOSE s \in found : TRUE,
                                   ![c].step = IF Request(c).op = "Kill" THEN "remove" ELSE "use"]
           ELSE Answer(c, "SessionNotFound")
        /\ Unlock(c)
        /\ UNCHANGED <<plan, child, ends, jar, sess, snapshot, dvars>>

\* A session command or its status, one at a time; what it does to the session
\* is the business of the modules about sessions.
use_session(c) ==
    /\ At(c, "use") /\ ~Held(job[c].sid)
    /\ Go(c, "using")
    /\ UNCHANGED <<plan, child, ends, jar, managerVars, dvars>>

session_used(c) ==
    /\ At(c, "using")
    /\ Answer(c, IF sess[job[c].sid].live THEN "ok" ELSE "SessionDead")
    /\ UNCHANGED <<plan, child, ends, jar, managerVars, dvars>>

remove_session(c) ==
    /\ At(c, "remove") /\ Free(c)
    /\ IF job[c].sid \in sessions(Peer(c))
       THEN sess' = [sess EXCEPT ![job[c].sid].place = "killing"] /\ Go(c, "kill")
       ELSE sess' = sess /\ Answer(c, "SessionNotFound")
    /\ UNCHANGED <<plan, child, ends, jar, lock, snapshot, dvars>>

\* Session::kill and JdiSession::kill: they wait for the command that runs.
Killed(s) == [p \in Children |-> IF p[1] = s /\ Running(p) THEN "dead" ELSE child[p]]

\* Mutant: the snapshot is not taken.
kill_unsaved(c) ==
    /\ At(c, "kill") /\ ~Held(job[c].sid)
    /\ child' = Killed(job[c].sid)
    /\ sess' = [sess EXCEPT ![job[c].sid].place = "gone", ![job[c].sid].live = FALSE]
    /\ Answer(c, "ok")
    /\ UNCHANGED <<plan, ends, jar, lock, snapshot, dvars>>

kill_session(c) ==
    /\ At(c, "kill") /\ ~Held(job[c].sid)
    /\ child' = Killed(job[c].sid)
    /\ sess' = [sess EXCEPT ![job[c].sid].place = "gone", ![job[c].sid].live = FALSE]
    /\ job' = [job EXCEPT ![c].step = "persist", ![c].result = "ok"]
    /\ UNCHANGED <<plan, ends, jar, lock, snapshot, dvars>>

\* A sidecar that cannot be waited for: the error is returned at once, and
\* nothing is written.
kill_fails(c) ==
    /\ At(c, "kill") /\ ~Held(job[c].sid) /\ plan.frail /\ Backend(job[c].sid) = "jdi"
    /\ child' = Killed(job[c].sid)
    /\ sess' = [sess EXCEPT ![job[c].sid].place = "gone"]
    /\ snapshot' = [snapshot EXCEPT !.stale = TRUE]
    /\ Answer(c, "Io")
    /\ UNCHANGED <<plan, ends, jar, lock, dvars>>

\* The target of a session ends by itself.
TargetGone(s) ==
    /\ plan.mortal /\ sess[s].place = "map" /\ sess[s].live
    /\ sess' = [sess EXCEPT ![s].live = FALSE]
    /\ UNCHANGED <<launchVars, lock, snapshot, dvars>>

-----------------------------------------------------------------------------

\* SessionManager::shutdown: the map is locked until every session is killed.
LockToShutDown(d) ==
    /\ daemon[d] = "cleanup" /\ lock[d] = None
    /\ lock' = [lock EXCEPT ![d] = d]
    /\ UNCHANGED <<launchVars, sess, snapshot, dvars>>

KillAtShutDown(d, s) ==
    /\ lock[d] = d /\ s \in sessions(d) /\ ~Held(s)
    /\ \E p \in Children : p[1] = s /\ Running(p)
    /\ child' = Killed(s)
    /\ sess' = [sess EXCEPT ![s].live = FALSE]
    /\ UNCHANGED <<plan, job, ends, jar, lock, snapshot, dvars>>

shutdown(d) ==
    /\ lock[d] = d
    /\ \A s \in sessions(d), p \in Children : p[1] = s => ~Running(p)
    /\ ShutDown(d)
    /\ lock' = [lock EXCEPT ![d] = None]
    /\ UNCHANGED <<launchVars, sess, snapshot>>

\* With the process go its threads and its map; its children are on their own.
ManagerEnds(d) ==
    /\ job' = [c \in Clients |-> IF client[c].peer = d /\ thread[c] # "written" THEN NoJob ELSE job[c]]
    /\ child' = [p \in Children |->
                   IF sess[p[1]].of = d /\ Running(p) THEN "orphan" ELSE child[p]]
    /\ sess' = [s \in SessionIds |->
                  IF sess[s].of = d THEN [sess[s] EXCEPT !.place = "gone", !.live = FALSE] ELSE sess[s]]
    /\ lock' = [lock EXCEPT ![d] = None]
    /\ UNCHANGED <<plan, ends, jar, snapshot>>

\* The work is done: the response can be written. That of a creation tells the
\* state of the session, which somebody may be using by now.
StateIsWaitedFor(c) ==
    /\ Request(c).op \in {"Launch", "Attach"} /\ job[c].result = "ok"
    /\ Backend(job[c].sid) = "jdb" /\ Held(job[c].sid)
work_done(c) ==
    /\ job[c].step = "reply" /\ ~StateIsWaitedFor(c)
    /\ Worked(c)
    /\ Go(c, "none")
    /\ UNCHANGED <<plan, child, ends, jar, managerVars>>

RequestStep(c) ==
    \/ dispatch(c) \/ LockMap(c) \/ check_duplicate(c) \/ create_session(c) \/ insert_session(c)
    \/ persist_sessions(c) \/ list(c) \/ get(c) \/ use_session(c) \/ session_used(c)
    \/ remove_session(c) \/ kill_session(c) \/ kill_fails(c) \/ work_done(c)
    \/ BuildStep(c) /\ UNCHANGED managerVars
=============================================================================
