------------------------------ MODULE MCSystem ------------------------------
(***************************************************************************)
(* The plans TLC goes through: what is asked, and in which surroundings.   *)
(***************************************************************************)
EXTENDS SystemProperties

CONSTANTS d1, d2, d3, c1, c2, c3, s1, s2

Asking(op) == [how |-> "send", op |-> op, session |-> NoSession, backend |-> "jdi",
               explicit |-> FALSE, jdb_args |-> FALSE, host |-> "localhost"]
Existing(op) == [how |-> "existing", op |-> op]
Ready == [Asking("DaemonStatus") EXCEPT !.how = "ready"]
Attach(host, backend) ==
    [Asking("Attach") EXCEPT !.host = host, !.backend = backend, !.explicit = backend = "jdb"]
LaunchOver(backend) == [Asking("Launch") EXCEPT !.backend = backend, !.explicit = TRUE]
Named(op, s) == [Asking(op) EXCEPT !.session = s]

MCRequests ==
    {Ready, LaunchOver("jdi"), LaunchOver("jdb"),
     [LaunchOver("jdi") EXCEPT !.jdb_args = TRUE]}
    \cup {Asking(op) : op \in {"DaemonStatus", "DaemonStop", "List", "Launch", "Command", "Kill", "Status"}}
    \cup {Named(op, s1) : op \in {"Command", "Kill", "Status"}}
    \cup {Attach(h, b) : h \in {"localhost", "127.0.0.1"}, b \in {"jdi", "jdb"}}
    \cup {Existing(op) : op \in {"DaemonStatus", "DaemonStop"}}

Jdk == [JDBG_JDI_JAVA |-> "unset", JDBG_JDI_TOOLS_JAR |-> "unset", JAVA_HOME |-> "jdk11",
        PATH_java |-> "none", PATH_jdb |-> "none", common |-> "none", jdb_path |-> "unset",
        java_home |-> "none"]
NoFlags == [target |-> "unset", list |-> <<>>, backend |-> "unset", remove |-> FALSE, ask |-> FALSE]

\* Files of agents: something of the user's in each of one sort, jdbg registered
\* for some targets.
Sorts == {"absent", "user", "odd", "broken"}
File(sort, user, registered_, ours) ==
    IF sort = "broken" THEN Json("broken", {})
    ELSE LET has == (IF sort = "user" THEN user ELSE IF sort = "odd" THEN {"odd", "other"} ELSE {})
                    \cup (IF registered_ THEN ours ELSE {})
         IN  IF has = {} THEN NoFile
             ELSE Object(IF registered_ THEN has \ {"odd"} ELSE has)
HomeWith(sort, configured, preference) ==
    [claude   |-> File(sort, {"servers", "sibling", "other"}, "claude" \in configured, {"servers", "jdbg"}),
     settings |-> File(sort, {"permissions", "allow", "other entry", "other"}, "claude" \in configured,
                       {"permissions", "allow", "entry"}),
     opencode |-> File(sort, {"other"}, "opencode" \in configured, {"servers", "jdbg"}),
     codex    |-> CASE sort = "broken" -> <<"unreadable">>
                    [] sort = "user" ->
                         <<"top", "array">>
                         \o (IF "codex" \in configured THEN <<"jdbg edited">> ELSE <<>>)
                         \o <<"table", "array">>
                    [] sort = "odd" ->
                         (IF "codex" \in configured THEN <<"jdbg edited">> ELSE <<>>) \o <<"array", "table">>
                    [] OTHER -> IF "codex" \in configured THEN <<"jdbg">> ELSE <<"absent">>,
     skill    |-> [t \in Targets |-> IF t \in configured THEN preference ELSE "none"],
     dirs     |-> IF sort = "absent" THEN configured ELSE configured \cup {"claude", "codex"}]
Bare == HomeWith("absent", {}, "jdi")

Nobody == [c \in Clients |-> <<>>]
Base == [kind |-> "start", todo |-> Nobody, env |-> Jdk, frail |-> FALSE, mortal |-> FALSE,
         crash |-> FALSE, worlds |-> {"serve"}, ended |-> {d3}, platforms |-> {"linux"}, program |-> "none",
         flags |-> NoFlags, home |-> Bare, jar |-> "old"]
Ask3(a, b, c) == (c1 :> a) @@ (c2 :> b) @@ (c3 :> c)

\* Starting, finding, stopping and losing a daemon.
StartPlans ==
    {[Base EXCEPT !.todo = t, !.crash = TRUE, !.worlds = {w[1]}, !.platforms = {w[2]}] :
       w \in {<<"unborn", "linux">>, <<"gone", "macos">>},
       t \in {Ask3(<<Ready>>, <<Asking("List")>>, <<>>),
              Ask3(<<Asking("DaemonStop")>>, <<Ready>>, <<>>)}}

\* Two clients start a daemon over the socket of one that was killed.
StalePlans ==
    {[Base EXCEPT !.todo = Ask3(<<Ready>>, <<Ready>>, <<>>), !.worlds = {"gone"}, !.ended = {},
                  !.platforms = {"macos"}]}

\* Making, using, listing and ending sessions, at the same time.
SessionPlan(t, frail, mortal, crash, on) ==
    [Base EXCEPT !.kind = "sessions", !.todo = t, !.frail = frail, !.mortal = mortal,
                 !.crash = crash, !.platforms = {on}]
SessionPlans ==
    {SessionPlan(Ask3(<<Attach("localhost", "jdi")>>, <<Attach("127.0.0.1", "jdi")>>, <<>>),
                 FALSE, FALSE, FALSE, "linux"),
     SessionPlan(Ask3(<<LaunchOver("jdi")>>, <<LaunchOver("jdi")>>, <<>>), TRUE, FALSE, FALSE, "linux"),
     SessionPlan(Ask3(<<LaunchOver("jdb"), Named("Command", s1)>>, <<Named("Kill", s1)>>, <<>>),
                 FALSE, FALSE, FALSE, "linux"),
     SessionPlan(Ask3(<<LaunchOver("jdb"), Named("Kill", s1)>>, <<Named("Kill", s1)>>, <<>>),
                 FALSE, FALSE, FALSE, "linux"),
     SessionPlan(Ask3(<<Asking("Launch"), Asking("Kill")>>, <<Asking("DaemonStop")>>, <<>>),
                 FALSE, FALSE, FALSE, "linux"),
     SessionPlan(Ask3(<<Attach("localhost", "jdb"), Asking("Status")>>, <<Asking("Command")>>, <<>>),
                 TRUE, TRUE, FALSE, "linux"),
     SessionPlan(Ask3(<<Asking("Launch"), Named("Kill", s1), Asking("List")>>, <<>>, <<>>),
                 TRUE, TRUE, FALSE, "windows"),
     SessionPlan(Ask3(<<[LaunchOver("jdi") EXCEPT !.jdb_args = TRUE]>>, <<>>, <<>>),
                 FALSE, FALSE, FALSE, "linux"),
     SessionPlan(Ask3(<<LaunchOver("jdb")>>, <<Asking("List")>>, <<>>), FALSE, FALSE, TRUE, "linux"),
     SessionPlan(Ask3(<<LaunchOver("jdi")>>, <<>>, <<>>), FALSE, FALSE, TRUE, "linux")}

\* Every Java installation a launch may find, and no jar. The java of the PATH is
\* looked at where no variable names another one.
LaunchIn(a, b, h, q, k, x) ==
    [Base EXCEPT !.kind = "env", !.todo = Ask3(<<Asking("Launch")>>, <<>>, <<>>),
                 !.env = [JDBG_JDI_JAVA |-> a, JDBG_JDI_TOOLS_JAR |-> b, JAVA_HOME |-> h,
                          PATH_java |-> q, PATH_jdb |-> k, common |-> "none", jdb_path |-> x,
                          java_home |-> "none"]]
EnvPlans ==
    {LaunchIn(a, b, h, "jre8", k, x) :
       a \in {"unset", "jre8", "bare jre8", "shim11"}, b \in {"unset", "file", "none"},
       h \in {"none", "jdk8", "jre8", "jdk11"}, k \in {"none", "jdk8", "shim8"},
       x \in {"unset", "none", "jdk8", "shim8"}}
    \cup
    {LaunchIn("unset", b, "none", q, k, "unset") :
       b \in {"unset", "file", "none"}, q \in {"jre8", "jre11", "jdk11", "shim8"},
       k \in {"none", "jdk8", "jdk11", "shim8"}}
    \cup
    {[Base EXCEPT !.kind = "env", !.todo = Ask3(<<r>>, <<>>, <<>>), !.platforms = {"macos"}, !.jar = j,
                  !.env = [Jdk EXCEPT !.JAVA_HOME = "none", !.common = k, !.java_home = h,
                                      !.PATH_java = "jre8"]] :
       r \in {Asking("Launch"), LaunchOver("jdi")}, j \in {"old", "absent"},
       k \in {"none", "jdk8", "jdk11"}, h \in {"none", "jre8", "bare jre8", "jdk8", "jdk11"}}
    \cup {[Base EXCEPT !.kind = "env", !.todo = Ask3(<<Asking("Launch")>>, <<>>, <<>>),
                        !.env = [Jdk EXCEPT !.JDBG_JDI_JAVA = "none"]]}

\* Updating beside a daemon and its clients, and with every home.
UpdatePlan(t, frail, on) ==
    [Base EXCEPT !.kind = "update", !.program = "update", !.todo = t, !.frail = frail,
                 !.platforms = {on}, !.home = HomeWith("user", {"pi"}, "jdb")]
UpdatePlans ==
    {UpdatePlan(Nobody, TRUE, "windows"),
     UpdatePlan(Ask3(<<Asking("List")>>, <<>>, <<>>), FALSE, "linux"),
     [UpdatePlan(Ask3(<<Asking("List")>>, <<>>, <<>>), FALSE, "linux") EXCEPT !.worlds = {"unborn"}],
     UpdatePlan(Ask3(<<LaunchOver("jdi")>>, <<>>, <<>>), FALSE, "windows"),
     UpdatePlan(Ask3(<<Existing("DaemonStop")>>, <<>>, <<>>), FALSE, "linux")}
    \cup {[UpdatePlan(Nobody, FALSE, "macos") EXCEPT !.worlds = {"unborn", "gone"}]}
HomePlans ==
    {[Base EXCEPT !.kind = "home", !.worlds = {"unborn"}, !.program = pr, !.jar = j, !.flags = f, !.frail = j = "old",
                  !.home = HomeWith(sort, configured, preference)] :
       pr \in {"update", "setup"}, j \in {"absent", "old"}, f \in {NoFlags}, sort \in Sorts,
       configured \in {S \in SUBSET Targets : Cardinality(S) # 3}, preference \in {"jdb", "plain"}}
    \cup
    {[Base EXCEPT !.kind = "home", !.worlds = {"unborn"}, !.program = "setup", !.flags = [NoFlags EXCEPT !.remove = TRUE],
                  !.home = HomeWith(sort, configured, "jdi"), !.frail = TRUE] :
       sort \in Sorts, configured \in SUBSET Targets}
    \cup
    {[Base EXCEPT !.kind = "home", !.worlds = {"unborn"}, !.program = "setup", !.flags = f, !.home = HomeWith("user", {"codex"}, "plain")] :
       f \in {[NoFlags EXCEPT !.ask = TRUE]}
             \cup {[NoFlags EXCEPT !.target = t, !.backend = "jdb"] : t \in {"auto", "all", "none"}}
             \cup {[NoFlags EXCEPT !.target = "list", !.list = l] :
                     l \in {<<"pi", "codex", "pi">>, <<"claude", "cursor">>}}}

MCPlans == StartPlans \cup StalePlans \cup SessionPlans \cup EnvPlans \cup UpdatePlans \cup HomePlans
=============================================================================
