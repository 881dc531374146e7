---------------------------- MODULE SidecarPaths ----------------------------
(***************************************************************************)
(* Which java runs the sidecar, which tools.jar it gets, and whether it    *)
(* can be expected to find JDI: the searches of lifecycle.rs and           *)
(* jdkpath.rs over an environment.                                         *)
(*                                                                         *)
(* A directory that may be a Java home is named for what is in it:         *)
(*   "jdk8"       java, jdb, release, lib/tools.jar                        *)
(*   "jre8"       java, release                                            *)
(*   "bare jre8"  java, as in the jre directory of a JDK 8                 *)
(*   "jdk11"      java, jdb, release, lib/modules with JDI in it           *)
(*   "jre11"      java, release, lib/modules without JDI                   *)
(*   "shim8", "shim11"  java and jdb that lead to a JDK somewhere else,    *)
(*                and nothing of it, such as /usr                          *)
(*   "none"       nothing: unset, or a path that leads nowhere             *)
(* An environment e says where the variables and the PATH lead:            *)
(*   e.JDBG_JDI_JAVA   the home of that java, "unset", or "none"           *)
(*   e.JDBG_JDI_TOOLS_JAR   "unset", "file" or "none"                      *)
(*   e.JAVA_HOME, e.PATH_java, e.PATH_jdb, e.common   homes                *)
(*   e.jdb_path        the home of --jdb-path, "unset", or "none"          *)
(*   e.java_home       what /usr/libexec/java_home prints (macOS)          *)
(***************************************************************************)

Java8 == {"jdk8", "jre8", "bare jre8", "shim8"}
Homes == Java8 \cup {"jdk11", "jre11", "shim11"}
HasJdb(h)     == h \in {"jdk8", "jdk11", "shim8", "shim11"}
HasRelease(h) == h \in {"jdk8", "jre8", "jdk11", "jre11"}
HasTools(h)   == h = "jdk8"
HasModules(h) == h \in {"jdk11", "jre11"}
is_concrete_jdk_home(h) == HasRelease(h) \/ HasModules(h) \/ HasTools(h)

FirstOf(h, otherwise) == IF h # "none" THEN h ELSE otherwise

\* The home of the jdb that is found without --jdb-path.
jdb_in_home(h) == IF HasJdb(h) THEN h ELSE "none"
discovered_jdb(e) ==
    FirstOf(jdb_in_home(e.JAVA_HOME), FirstOf(jdb_in_home(e.PATH_jdb), jdb_in_home(e.common)))

\* A --jdb-path that leads nowhere is followed by the other places.
find_jdb(e) == IF HasJdb(e.jdb_path) THEN e.jdb_path ELSE discovered_jdb(e)
resolve_explicit_jdb_path(e) == IF e.jdb_path = "unset" THEN "none" ELSE find_jdb(e)

\* The home of the java the sidecar will run; "PATH" for a bare `java`.
java_in_home(h) == IF h \in Homes THEN h ELSE "none"
default_java_path(e) == IF java_in_home(e.java_home) # "none" THEN e.java_home ELSE "PATH"
resolve_sidecar_java_path(e) ==
    IF e.JDBG_JDI_JAVA # "unset" THEN e.JDBG_JDI_JAVA
    ELSE FirstOf(java_in_home(resolve_explicit_jdb_path(e)),
                 FirstOf(java_in_home(e.JAVA_HOME), default_java_path(e)))

\* An explicit tools.jar settles it, even when the file is not there.
resolve_tools_jar(e) ==
    LET java == resolve_sidecar_java_path(e)
    IN  IF e.JDBG_JDI_TOOLS_JAR # "unset" THEN e.JDBG_JDI_TOOLS_JAR = "file"
        ELSE \/ HasTools(e.JAVA_HOME) \/ HasTools(java)
             \/ HasTools(resolve_explicit_jdb_path(e)) \/ HasTools(discovered_jdb(e))

\* Mutant: the home of another java.
jdk_home_from_env(e) == FirstOf(java_in_home(e.JAVA_HOME), discovered_jdb(e))

\* The home of the java that will run, if its path tells; or else another one that
\* may stand for it, or none.
concrete(h) == IF is_concrete_jdk_home(h) THEN h ELSE "none"
jdk_home_for(e) ==
    FirstOf(concrete(resolve_sidecar_java_path(e)),
            FirstOf(concrete(e.java_home), concrete(discovered_jdb(e))))
jdk_home_needs_tools_jar(h) == ~HasModules(h)

\* launch_sidecar refuses to start a JVM that is known to lack JDI.
MissingTools(e) ==
    /\ ~resolve_tools_jar(e)
    /\ jdk_home_for(e) # "none" /\ jdk_home_needs_tools_jar(jdk_home_for(e))

\* What runs in the end, and whether it has JDI.
RunningHome(e) ==
    IF resolve_sidecar_java_path(e) = "PATH" THEN e.PATH_java ELSE resolve_sidecar_java_path(e)
HasJdi(e) ==
    \/ RunningHome(e) \in {"jdk11", "shim11"}
    \/ RunningHome(e) \in Java8 /\ resolve_tools_jar(e)
=============================================================================
