---------------------------- MODULE MCJdbSession ----------------------------
(***************************************************************************)
(* Plans for TLC: what a target runs into and what two clients ask.        *)
(***************************************************************************)
EXTENDS JdbProperties

Service == <<"com", "Service">>
Site(line, method) == [class |-> Service, line |-> line, method |-> method]
Loop  == Site(11, "loop")
Start == Site(40, "start")

H(policy, kind, thread, site, cond, lateness) ==
    [policy |-> policy, kind |-> kind, thread |-> thread, site |-> site,
     cond |-> cond, late |-> lateness]
Stop(site, cond, lateness) == H("all", "Breakpoint", 1, site, cond, lateness)

R(op)      == [op |-> op, arg |-> "", spec |-> NoTarget]
RA(op, a)  == [op |-> op, arg |-> a, spec |-> NoTarget]
BreakAt(line)  == [op |-> "BreakAt", arg |-> "", spec |->
                   [class |-> <<"Service">>, line |-> line, method |-> "", conditional |-> TRUE]]
BreakOn(line)  == [BreakAt(line) EXCEPT !.spec.class = Service, !.spec.conditional = FALSE]
BreakIn(method, at) == [op |-> "BreakIn", arg |-> at, spec |->
                   [class |-> Service, line |-> 0, method |-> method, conditional |-> TRUE]]

Plan(start, hits, end, hasty, p, q) ==
    [start |-> start, hits |-> hits, names |-> <<"main", "worker">>, end |-> end,
     hasty |-> hasty, slow |-> FALSE, prog |-> [c \in Clients |-> IF c = 1 THEN p ELSE q]]


AnyHits == {<<Stop(Loop, c, l), Stop(Start, "false", "none")>> :
               c \in {"true", "false", "error"}, l \in {"none", "soon", "later"}}

\* A conditional breakpoint, hit twice, whatever happens next.
Conditional ==
    {Plan("launch", h, e, FALSE, <<BreakAt(10), R("Run"), R("Where"), R("Cont")>>, <<>>) :
        h \in AnyHits, e \in {"exit", "loop", "crash"}}

\* More false hits than the cap, a method breakpoint, a breakpoint nearby.
Often(site, n) == [i \in 1 .. n |-> Stop(site, "false", "none")]
Many ==
    {Plan("launch", Often(Loop, MaxIterations + 1), "loop", FALSE, <<BreakAt(11), R("Run")>>, <<>>),
     Plan("launch", Often(Start, 1), "exit", FALSE,
          <<BreakIn("start", "entry"), BreakIn("start", "exit"), R("Run"), R("Locals")>>, <<>>),
     Plan("launch", Often(Start, 2), "reset", FALSE,
          <<BreakAt(11), BreakAt(41), R("Run"), R("Cont"), R("Where")>>, <<>>),
     Plan("launch", Often(Start, 1), "exit", FALSE,
          <<BreakOn(39), R("Run"), R("Run"), R("Cont"), R("Kill"), R("Run")>>, <<>>)}

\* What does not stop at a line: a step, an exception, a watched field.
Kinds ==
    {Plan("launch", <<H("all", k, 1, Start, "true", "soon"), Stop(Loop, "false", "none")>>,
          "exit", FALSE, <<BreakAt(11), R("Run"), R(op), R("Threads")>>, <<>>) :
        k \in {"Step", "Exception", "FieldWatch"}, op \in {"Step", "Next", "StepOut"}}

\* Two clients on one session.
Shared ==
    {Plan("launch", h, "exit", FALSE, <<R("Run"), R("Cont")>>, <<R(op)>>) :
        h \in {<<Stop(Loop, "true", l), Stop(Start, "false", "none")>> : l \in {"soon", "later"}},
        op \in {"Where", "Step", "Status", "Kill"}}
    \cup {Plan("launch", <<Stop(Loop, "false", "none"), Stop(Start, "true", "none")>>, "exit",
               FALSE, <<BreakAt(11), R("Run")>>, <<R("Where"), R("Cont")>>)}

\* attach, to a target that is suspended, runs, or is not there.
Attached ==
    {Plan(s, <<Stop(Loop, "false", "soon"), Stop(Start, "true", "none")>>, "exit", FALSE,
          <<R("Run"), BreakAt(11), R("Cont"), RA("Set", "chain"), RA("Set", "other"),
            RA("Inspect", "list"), R("Kill"), R("Cont")>>, <<>>) :
        s \in {"attach", "attachRunning", "refused", "dies"}}

\* resume returns at once: the next inspection finds the target stopped.
Resumed ==
    {Plan("launch", <<Stop(Loop, "true", "none"), Stop(Loop, c, "none")>>, "loop", FALSE,
          <<BreakAt(11), R("Run"), R("Resume"), R(op)>>, <<>>) :
        c \in {"true", "false", "error"}, op \in {"Where", "ForceReturn"}}

\* Thread breakpoints, whose banner some JDKs leave out, and which may come
\* in two pieces; a second thread, and a second client that looks elsewhere.
Partial ==
    {Plan("launch", <<H(p, k, t, Loop, "true", l)>>, "loop", FALSE,
          <<R("Run")>>, q) :
        p \in {"thread", "jdk8"}, k \in {"Breakpoint", "Step"}, t \in {1, 2},
        l \in {"none", "stall"}, q \in {<<>>, <<RA("Thread", "1"), R("Where")>>}}
    \cup {Plan("launch", <<H("jdk8", "Breakpoint", 2, Loop, "true", "none"),
                           H("jdk8", "Breakpoint", 1, Start, "true", "none")>>, "loop", FALSE,
               <<R("Run"), R("Cont")>>, <<RA("Thread", "2")>>)}

\* Deadlines that pass too early, and jdb gone at any moment.
Hasty ==
    {Plan("launch", <<H(p, "Breakpoint", 1, Loop, "true", "none")>>, e, TRUE,
          <<R("Run"), R(op)>>, <<>>) :
        p \in {"all", "jdk8"}, e \in {"exit", "crash"}, op \in {"Where", "Cont"}}
    \cup {Plan("launch", <<Stop(Loop, "true", "soon")>>, "exit", TRUE, <<R("Run")>>, <<R("Kill")>>)}

\* The other requests, at a stop.
Listing(ops) ==
    Plan("launch", <<Stop(Loop, "true", "none")>>, "loop", FALSE,
         <<R("Cont"), R("Run")>> \o [i \in DOMAIN ops |-> R(ops[i])], <<>>)
Listings ==
    {Listing(<<"WhereAll", "Locals", "Dump", "Eval", "Frame", "ListSource", "Lock", "ThreadLocks",
               "Catch", "Ignore", "Watch", "Unwatch", "Breakpoints", "Clear", "Classes", "Methods",
               "Raw", "Suspend">>),
     Plan("launch", <<Stop(Loop, "true", "none")>>, "loop", FALSE,
          <<R("Run"), RA("Inspect", "list"), RA("Inspect", "array"), RA("Inspect", "other"),
            RA("Print", "value")>>, <<>>)}

\* A jdb that prints what is late when jdbg does not look for it any more.
Slow == {[p EXCEPT !.slow = TRUE] : p \in Conditional \cup Kinds \cup Shared}

MCPlans == Conditional \cup Many \cup Kinds \cup Shared \cup Attached \cup Resumed
           \cup Partial \cup Hasty \cup Slow \cup Listings
=============================================================================
