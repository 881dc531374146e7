------------------------------- MODULE Update -------------------------------
(***************************************************************************)
(* `jdbg update` (update.rs, update_sidecar.rs) and `jdbg setup` (run_setup *)
(* of setup.rs): one program, beside the daemon and its clients, that      *)
(* stops the daemon, replaces the executable and the sidecar jar, and      *)
(* removes and writes the files of the agents, one after the other.        *)
(*                                                                         *)
(* It talks to the daemon as the client Updater.  plan.program says which  *)
(* of the two runs, plan.flags how it was called, plan.home what the files *)
(* were before.                                                            *)
(***************************************************************************)
EXTENDS SessionManager, AgentConfig

CONSTANT Updater

AskFor(op) == [how |-> "existing", op |-> op]

ASSUME UpdaterAssumption ==
    Updater \in Clients /\ {AskFor("DaemonStop"), AskFor("DaemonStatus")} \subseteq Requests

\* It asks the daemon for nothing else; and the files are such as AgentConfig says.
JsonFile(file) ==
    /\ file.kind \in {"absent", "broken", "object", "other"}
    /\ file.kind = "absent" => file.has = {}
TomlFile(file) ==
    \/ file \in {<<"absent">>, <<"unreadable">>}
    \/ file \in Seq({"top", "table", "array", "jdbg", "jdbg edited"})
ASSUME ProgramAssumption ==
    \A p \in Plans :
        /\ p.program = "update" => p.todo[Updater] = <<>>
        /\ DOMAIN p.home = {"claude", "settings", "opencode", "codex", "skill", "dirs"}
        /\ DOMAIN p.home.skill = Targets
        /\ \A file \in {p.home.claude, p.home.settings, p.home.opencode} : JsonFile(file)
        /\ TomlFile(p.home.codex)

VARIABLES
    up,       \* where the program is, and its local variables
    home,     \* the files of the agents
    exe,      \* the executable: "old", "aside" or "new"
    latest    \* the release the download address leads to

updateVars == <<up, home, exe, latest>>

Failed(u) == [u EXCEPT !.stage = "failed"]
Enter(stage) == up' = [up EXCEPT !.stage = stage]

UpdateInit ==
    /\ up = [stage |-> CASE plan.program = "update" -> "read"
                         [] plan.program = "setup"  -> "select"
                         [] OTHER                   -> "none",
             targets |-> <<>>, backend |-> "jdi", left |-> <<>>, pid |-> None,
             archive |-> "none", sum |-> "none", try |-> 1]
    /\ home = plan.home
    /\ exe = "old"
    /\ latest = "1"
    /\ jar = plan.jar

AtStage(stage) == up.stage = stage
Keep == UNCHANGED <<plan, job, child, ends, managerVars, latest>>
Files == UNCHANGED <<home, exe, jar>>

-----------------------------------------------------------------------------

\* Mutant: the preference is not looked for.
run_update_default ==
    /\ AtStage("read")
    /\ up' = [up EXCEPT !.stage = "stop", !.pid = registered,
                        !.targets = configured_targets_or_default(home)]
    /\ Keep /\ Files /\ UNCHANGED dvars

\* What was configured is remembered before anything is removed.
run_update ==
    /\ AtStage("read")
    /\ up' = [up EXCEPT !.stage = "stop", !.pid = registered,
                        !.targets = configured_targets_or_default(home),
                        !.backend = configured_backend_or_default(home)]
    /\ Keep /\ Files /\ UNCHANGED dvars

\* A request to the daemon, if there is one, and the wait for its answer.
SendTo(op) == todo' = [todo EXCEPT ![Updater] = <<AskFor(op)>>] /\ UNCHANGED <<daemonVars, client, thread>>
Answered == client[Updater].at = "idle" /\ todo[Updater] = <<>>
ProcessIsAlive(d) == d # None /\ Alive(d)

\* Mutant: the answer is taken for the end of the process.
stop_without_waiting ==
    /\ \/ AtStage("stop") /\ Enter("stopping") /\ SendTo("DaemonStop")
       \/ /\ AtStage("stopping") /\ Answered
          /\ up' = [up EXCEPT !.stage = "remove", !.left = Writes(up.targets)]
          /\ UNCHANGED dvars
    /\ Keep /\ Files

stop_daemon_before_update ==
    /\ \/ AtStage("stop") /\ Enter("stopping") /\ SendTo("DaemonStop")
       \/ /\ AtStage("stopping") /\ Answered
          /\ IF client[Updater].ok
             THEN Enter("await exit") /\ UNCHANGED registered
             ELSE /\ up' = [up EXCEPT !.stage = "remove", !.left = Writes(up.targets)]
                  /\ registered' = IF up.pid # None /\ ~Alive(up.pid) THEN None ELSE registered
          /\ UNCHANGED <<platform, daemon, socket, listening, stopping, crashes, clientVars>>
    /\ Keep /\ Files

\* Until the socket is down and the process has ended. The first wait is
\* followed by a kill, the second by an error.
wait_for_daemon_exit ==
    \/ /\ AtStage("await exit") /\ Enter("ask status") /\ SendTo("DaemonStatus")
       /\ Keep /\ Files
    \/ /\ AtStage("await death") /\ Enter("ask again") /\ SendTo("DaemonStatus")
       /\ Keep /\ Files
    \/ /\ AtStage("ask status") /\ Answered
       /\ IF ~client[Updater].ok /\ ~ProcessIsAlive(up.pid)
          THEN up' = [up EXCEPT !.stage = "remove", !.left = Writes(up.targets)]
          ELSE Enter("await exit") \/ Enter("kill")
       /\ Keep /\ Files /\ UNCHANGED dvars
    \/ /\ AtStage("ask again") /\ Answered
       /\ IF ~client[Updater].ok /\ ~ProcessIsAlive(up.pid)
          THEN Enter("unregister")
          ELSE Enter("await death") \/ up' = Failed(up)
       /\ Keep /\ Files /\ UNCHANGED dvars

\* The process to be killed is the one daemon.json names now.
Victim == IF registered # None THEN registered ELSE up.pid
stop_process ==
    /\ AtStage("kill")
    /\ IF Victim = None
       THEN up' = Failed(up) /\ UNCHANGED <<dvars, job, child, ends, managerVars>>
       ELSE /\ up' = [up EXCEPT !.stage = "await death", !.pid = Victim]
            /\ IF Alive(Victim)
               THEN Ends(Victim) /\ ManagerEnds(Victim) /\ UNCHANGED crashes
               ELSE UNCHANGED <<dvars, job, child, ends, managerVars>>
    /\ Files /\ UNCHANGED <<plan, latest>>

remove_daemon ==
    /\ AtStage("unregister")
    /\ registered' = None
    /\ up' = [up EXCEPT !.stage = "remove", !.left = Writes(up.targets)]
    /\ Keep /\ Files /\ UNCHANGED <<platform, daemon, socket, listening, stopping, crashes, clientVars>>

-----------------------------------------------------------------------------

\* run_setup, on its own: flags and answers, then the jar, then the files.
run_setup ==
    /\ AtStage("select")
    /\ \E targets \in select_targets(plan.flags, home) :
         IF targets = Error THEN up' = Failed(up)
         ELSE \E backend \in select_backend(plan.flags, targets) :
                up' = [up EXCEPT !.targets = targets,
                                 !.backend = IF backend = "error" THEN @ ELSE backend,
                                 !.left = Writes(targets),
                                 !.stage = IF backend = "error" THEN "failed"
                                           ELSE IF targets = <<>> THEN "done"
                                           ELSE IF plan.flags.remove THEN "remove" ELSE "ensure"]
    /\ Keep /\ Files /\ UNCHANGED dvars

ensure_jdi_sidecar_available ==
    /\ AtStage("ensure")
    /\ IF up.backend = "jdi" /\ jar = "absent"
       THEN Enter("download")
       ELSE up' = [up EXCEPT !.stage = "write", !.left = Writes(up.targets)]
    /\ Keep /\ Files /\ UNCHANGED dvars

\* A file at a time; a file that cannot be written ends it. update tries twice:
\* with the new executable, and by itself.
AfterRemoval == IF plan.program = "update" THEN "installer" ELSE "done"

remove_target ==
    /\ AtStage("remove")
    /\ \/ up.left = <<>> /\ Enter(AfterRemoval) /\ UNCHANGED home
       \/ /\ up.left # <<>> /\ ~CannotRead(Head(up.left), home)
          /\ home' = RemoveFile(Head(up.left), home)
          /\ up' = [up EXCEPT !.left = Tail(@)]
       \/ /\ up.left # <<>> /\ (plan.frail \/ CannotRead(Head(up.left), home))
          /\ up' = Failed(up)
          /\ UNCHANGED home
    /\ Keep /\ UNCHANGED <<exe, jar, dvars>>

install_target ==
    /\ AtStage("write")
    /\ \/ up.left = <<>> /\ Enter("done") /\ UNCHANGED home
       \/ /\ up.left # <<>> /\ ~CannotRead(Head(up.left), home)
          /\ home' = InstallFile(Head(up.left), up.backend, home)
          /\ up' = [up EXCEPT !.left = Tail(@)]
       \/ /\ up.left # <<>> /\ (plan.frail \/ CannotRead(Head(up.left), home))
          /\ up' = IF plan.program = "update" /\ up.try = 1
                   THEN [up EXCEPT !.try = 2, !.stage = "ensure"] ELSE Failed(up)
          /\ UNCHANGED home
    /\ Keep /\ UNCHANGED <<exe, jar, dvars>>

-----------------------------------------------------------------------------

\* Windows does not replace a program that runs: it is renamed first, and stays
\* renamed when the installer fails.
move_self_aside ==
    /\ AtStage("installer")
    /\ \/ exe' = (IF platform = "windows" THEN "aside" ELSE exe) /\ Enter("installing")
       \/ platform = "windows" /\ plan.frail /\ up' = Failed(up) /\ UNCHANGED exe
    /\ Keep /\ UNCHANGED <<home, jar, dvars>>

install_command ==
    /\ AtStage("installing")
    /\ \/ exe' = "new" /\ Enter("download")
       \/ plan.frail /\ up' = Failed(up) /\ UNCHANGED exe
    /\ Keep /\ UNCHANGED <<home, jar, dvars>>

\* The archive and its checksum are two downloads of the latest release. A jar is
\* looked for only in an archive that has the checksum, and copied beside its
\* destination.
Step(now, then) ==
    /\ AtStage(now)
    /\ \/ up' = then
       \/ plan.frail /\ up' = Failed(up)
    /\ Keep /\ Files /\ UNCHANGED dvars

download_archive ==
    Step("download", [up EXCEPT !.stage = "checksum", !.archive = latest])
\* Mutant: the checksum is read and not compared.
checksum_unverified == Step("checksum", [up EXCEPT !.sum = latest, !.stage = "replace"])
verify_archive_checksum ==
    Step("checksum", [up EXCEPT !.sum = latest,
                                !.stage = IF up.archive = latest THEN "replace" ELSE "failed"])

\* remove, then rename: in between there is no jar. Windows does not remove a
\* file that a process has open.
Locked ==
    /\ platform = "windows" /\ jar # "absent"
    /\ \E s \in SessionIds : Running(<<s, "jdi">>) \/ child[<<s, "jdi">>] = "orphan"
install_sidecar_file ==
    /\ \/ /\ AtStage("replace")
          /\ ~Locked
          /\ jar' = "absent" /\ Enter("rename")
       \/ /\ AtStage("replace")
          /\ Locked \/ plan.frail
          /\ up' = Failed(up) /\ UNCHANGED jar
       \/ AtStage("rename") /\ jar' = up.archive /\ Enter("ensure")
       \/ AtStage("rename") /\ plan.frail /\ up' = Failed(up) /\ UNCHANGED jar
    /\ Keep /\ UNCHANGED <<home, exe, dvars>>

\* A release is published while the program runs.
Publish ==
    /\ plan.frail /\ up.stage \in {"download", "checksum"} /\ latest = "1"
    /\ latest' = "2"
    /\ UNCHANGED <<up, home, exe, launchVars, managerVars, dvars>>

\* The steps of the program that end by themselves.
UpdaterStep ==
    \/ run_update \/ stop_daemon_before_update \/ wait_for_daemon_exit \/ stop_process
    \/ remove_daemon \/ run_setup \/ ensure_jdi_sidecar_available \/ remove_target
    \/ install_target \/ move_self_aside \/ install_command \/ download_archive
    \/ verify_archive_checksum \/ install_sidecar_file
=============================================================================
