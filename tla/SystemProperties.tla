-------------------------- MODULE SystemProperties --------------------------
(***************************************************************************)
(* What holds of the daemon, its sessions and the programs beside it.      *)
(***************************************************************************)
EXTENDS System

\* Types of what the threads, the sessions and the updating program keep.
SystemTypeOK ==
    /\ DaemonTypeOK
    /\ \A c \in Clients : job[c].sid \in SessionIds \cup {NoSession}
    /\ \A p \in Children :
         /\ child[p] \in {"none", "up", "connected", "dead", "class not found", "orphan"}
         /\ ends[p] \subseteq SessionIds
    /\ \A s \in SessionIds : sess[s].place \in {"none", "building", "map", "killing", "gone"}
    /\ lock \in [Daemons -> Daemons \cup Clients \cup {None}]
    /\ jar \in {"absent", "old", "1", "2"} /\ exe \in {"old", "aside", "new"}

\* Where the name goes with its process, all the daemons, clients, sessions and
\* updates together are one server at a time, as OneServer says: the name passes
\* only through a vacancy, daemon.json is written and emptied only by the process
\* that has the name, or by `jdbg update`, and emptied before the name is let go.
Holders == {d \in Daemons : daemon[d] \in Holding}
NameHolder == IF NameOutlivesProcess \/ Holders = {} THEN None ELSE CHOOSE d \in Holders : TRUE
Entry == IF NameOutlivesProcess THEN None ELSE registered
Server == INSTANCE OneServer WITH Pids <- Daemons, Nobody <- None,
                                  server <- NameHolder, entry <- Entry, outside <- <<crashes, up>>
ImplementsOneServer == Server!Spec

\* daemon.json keeps naming the daemon that serves, whoever stops, crashes and
\* starts, unless `jdbg update` removes the entry of a successor.
RegisteredUnlessUpdated == plan.program # "update" => RegisteredWhileServing

-----------------------------------------------------------------------------

\* No process without a session: as long as its daemon lives, every sidecar and
\* every jdb that runs belongs to a session that is in the map or to a thread
\* that is building or killing it; a failure on the way takes the process along.
NoStrayProcess ==
    \A p \in Children : LET s == p[1] IN
        Running(p) /\ Alive(sess[s].of) =>
            \/ sess[s].place = "map"
            \/ \E c \in Clients : thread[c] = "running" /\ job[c].sid = s

\* The snapshot is not older than the last response: sessions.json lists exactly
\* the sessions of the daemon that wrote it, but between a change and its save
\* and after a kill that failed.
Changing(d) == \E c \in OnDaemon(d) : job[c].step \in {"persist", "kill"}
SnapshotTrue ==
    LET d == snapshot.by IN
        d # None /\ ~snapshot.stale /\ Alive(d) /\ ~Changing(d) => snapshot.ids = sessions(d)

\* Two live sessions of a daemon are attached to one target only when the later
\* one was asked for before the earlier one was there: the check is for the
\* address that is meant, not the one that is written.
SameAddress(a, b) == a = b \/ {a, b} \subseteq {"localhost", "127.0.0.1"}
DuplicatesOverlap ==
    \A s, t \in SessionIds :
        /\ s # t /\ sess[s].of = sess[t].of /\ SameAddress(sess[s].target, sess[t].target)
        /\ sess[s].target # "main class" /\ sess[s].place = "map" /\ sess[t].place = "map"
        /\ sess[s].born < sess[t].born /\ sess[s].live
        => sess[t].checked < sess[s].born

\* A request that is sent again has not been carried out by a daemon that can be
\* reached: what it did to a session cannot be done to that session again, and no
\* client has two sessions from one request.
OncePerRequest ==
    /\ \A c \in Clients : thread[c] = "cut" => client[c].peer \notin listening
    /\ \A s, t \in SessionIds :
         /\ s # t /\ sess[s].place = "map" /\ sess[t].place = "map"
         /\ Alive(sess[s].of) /\ Alive(sess[t].of)
         => sess[s].by # sess[t].by

\* A sidecar is started only where it can load JDI, unless the JVM is a modular
\* runtime without the module; or its own home cannot be told, because it is the
\* java of the PATH or one in a directory that is no Java home, and the home that
\* stands for it is another one or none. Then a Java 8 without tools.jar is not
\* found out.
HomeUnknown(e) ==
    /\ resolve_sidecar_java_path(e) = "PATH" \/ ~is_concrete_jdk_home(RunningHome(e))
    /\ jdk_home_for(e) # RunningHome(e)
SidecarLoadsJdi ==
    \A c \in Clients : At(c, "start") =>
        HasJdi(plan.env) \/ RunningHome(plan.env) = "jre11" \/ HomeUnknown(plan.env)

-----------------------------------------------------------------------------

\* When anything is removed or replaced, the process that served when the update
\* began has ended its sessions, removed its entry and closed its listener, whoever
\* else starts, stops or kills daemons. It may not have ended: when another client's
\* stop comes first, the connection of the update is cut, nobody takes the next one,
\* and the update takes the daemon for one that was not running.
Replacing == up.stage \in {"remove", "installer", "installing", "download", "checksum",
                           "replace", "rename", "ensure", "write", "done"}
OldDaemonPastService ==
    plan.program = "update" /\ Replacing /\ ~NameOutlivesProcess /\ up.pid # None =>
        daemon[up.pid] \in {"exit", "gone"}

\* An update that succeeds leaves every agent that was configured configured, and
\* its skill with the preference that was found, and the jar in place.
UpdateKeeps ==
    plan.program = "update" /\ AtStage("done") =>
        /\ \A t \in ToSet(configured_targets_or_default(plan.home)) :
             /\ detect_configured(t, home)
             /\ home.skill[t] = configured_backend_or_default(plan.home)
        /\ jar # "absent"

\* What setup, its removal and update leave of a file is what the user had in
\* it, wherever they stop: if the files can be read and parse, hold objects where
\* objects are expected, and no array of tables stands right behind a block of jdbg.
\* (That one goes along with the block; arrays anywhere else are kept.)
UserKeys == {"sibling", "other", "other entry", "other permission"}
Regular(file) == file.kind \in {"absent", "object"} /\ "odd" \notin file.has
UserAt(toml) == {i \in DOMAIN Tables(toml) : ~IsBlock(Tables(toml)[i])}
SameTables(new, old) ==
    \E at \in [UserAt(old) -> UserAt(new)] :
      /\ \A i, j \in UserAt(old) : i < j => at[i] < at[j]
      /\ \A k \in UserAt(new) : \E i \in UserAt(old) : at[i] = k
      /\ \A i \in UserAt(old) : Tables(new)[at[i]] = Tables(old)[i]
ArrayBehindBlock(toml) ==
    \E i \in 1 .. Len(toml) - 1 : IsBlock(toml[i]) /\ toml[i + 1] = "array"
ForeignKept ==
    /\ Regular(plan.home.claude) => UserKeys \cap plan.home.claude.has \subseteq home.claude.has
    /\ Regular(plan.home.settings) => UserKeys \cap plan.home.settings.has \subseteq home.settings.has
    /\ Regular(plan.home.opencode) => UserKeys \cap plan.home.opencode.has \subseteq home.opencode.has
    /\ plan.home.codex # <<"unreadable">> /\ ~ArrayBehindBlock(plan.home.codex) =>
           SameTables(home.codex, plan.home.codex)

\* The jar beside the executable is from the release whose checksum was read,
\* also when a release is published between the two downloads.
OnlyVerifiedJar == [][jar' \notin {jar, "absent"} => jar' = up.sum]_vars

-----------------------------------------------------------------------------

\* Every request comes to an end, answered or given up. There is no timeout on
\* the handshake: it waits as long as a child that was started at the wrong
\* moment has the sidecar's end of the connection open.
Hung(c) ==
    /\ At(c, "handshake")
    /\ ~Running(<<job[c].sid, "jdi">>) /\ OtherEndOpen(job[c].sid)
RequestsReturn == \A c \in Clients : client[c].at # "idle" ~> client[c].at = "idle" \/ Hung(c)

\* A daemon that was told to stop ends, whatever its sessions are doing.
StopEnds == stopping # {} ~> \A d \in stopping : ~Alive(d)

\* A daemon that is started makes jdbg reachable, if only through the one that
\* is there, also over what a killed one has left behind.
StartReaches ==
    (\E d \in Daemons : daemon[d] = "bind") ~> Reachable \/ crashes > 0 \/ stopping # {}
=============================================================================
