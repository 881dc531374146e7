----------------------------- MODULE JdbProcess -----------------------------
(***************************************************************************)
(* A jdb child process with its target, as jdb/process.rs, jdb/reader.rs   *)
(* and session.rs use it (external), and the PromptReader on its stdout.   *)
(*                                                                         *)
(* jdb has two threads that print: one answers the commands it reads from  *)
(* stdin, in order, each answer followed by a prompt; the other prints a   *)
(* banner when the target hits something.  A text printed in one go is not *)
(* cut by the other thread, but the reader may receive it in any pieces.   *)
(*                                                                         *)
(* `plan` is fixed in the initial state: what the target will do, and what *)
(* the clients ask (JdbHandler).                                           *)
(*   start   "launch", "attach" (suspended), "attachRunning", "refused"    *)
(*   hits    what the target runs into, in order; each has a thread, a     *)
(*           site, a kind, a suspend policy ("all", "thread", or "jdk8",   *)
(*           a thread stop whose banner ends after the head), the value    *)
(*           the condition of its breakpoint has there, and what of its    *)
(*           banner is late                                                *)
(*   names   the names of the target's threads                             *)
(*   end     after the last hit: "exit", "loop", "crash" of jdb, "reset"   *)
(*           of its connection to the target                               *)
(*   hasty   commands may time out at any moment, not only when all is quiet *)
(*   slow    what of a banner is late may be later than jdbg allows for    *)
(***************************************************************************)
EXTENDS JdbOutput, FiniteSets

CONSTANT Plans      \* the plans a run considers

VARIABLES
    plan,
    vm,         \* "unstarted", "running", "stopped", "gone"
    held,       \* the hits whose threads are suspended where they hit
    cur,        \* jdb's current thread, 0 for none
    raised,     \* how many hits there were
    late,       \* [when, lines]: text that belongs to the last hit, not yet printed
    stdin,      \* commands jdb has not read
    stdout,     \* the chunk channel: lines not yet received
    closed,     \* jdb has closed its stdout
    buf,        \* PromptReader.text
    patience,   \* PromptReader.partial_banner_since is set
    eof         \* PromptReader.eof

targetVars == <<plan, vm, held, cur, raised, late>>
pipeVars   == <<stdin, stdout, closed>>
readerVars == <<buf, patience, eof>>
processVars == <<targetVars, pipeVars, readerVars>>

Hits      == 1 .. Len(plan.hits)
Hit(h)    == plan.hits[h]
NoneLate  == [when |-> "none", lines |-> <<>>]
ThreadIds == 1 .. Len(plan.names)
Name(t)   == plan.names[t]
Prompt    == IF cur = 0 THEN Bare ELSE Line("prompt", 0, Name(cur), 0, {}, 0)

\* The hit at which thread t is held, 0 if it is not.
HeldAt(t) == LET hs == {h \in held : Hit(h).thread = t} IN IF hs = {} THEN 0 ELSE Least(hs)
\* A thread stopped by the hit of another stands anywhere.
Elsewhere == Len(plan.hits) + 1
\* `threads` marks a thread "at breakpoint" by the place where it stands.
BreakpointOf(t) == LET h == HeldAt(t)
                   IN  IF h # 0 /\ Hit(h).kind = "Breakpoint" THEN h ELSE 0
SiteOf(h) == IF h \in Hits THEN Hit(h).site
             ELSE [class |-> <<"Elsewhere">>, line |-> 1, method |-> "run"]
Suspended(t) == vm = "stopped" \/ HeldAt(t) # 0
FrameOf(t)   == IF HeldAt(t) # 0 THEN HeldAt(t) ELSE Elsewhere

\* What jdb prints first, by how it was started.
Greeting ==
    CASE plan.start = "refused" -> <<Line("fatal", 0, "", 0, {}, 0)>>
      [] plan.start = "dies"    -> <<>>
      [] OTHER                  -> <<Bare>>

ProcessInit ==
    /\ plan \in Plans
    /\ vm = CASE plan.start = "launch"        -> "unstarted"
              [] plan.start = "attachRunning" -> "running"
              [] plan.start = "attach"        -> "stopped"
              [] OTHER                        -> "gone"
    /\ held = {} /\ cur = 0 /\ raised = 0
    /\ late = IF plan.start \in {"attach", "attachRunning"}
              THEN [when |-> "soon", lines |-> <<Text({"VM Started"}, 0), Bare>>]
              ELSE NoneLate
    /\ stdin = <<>>
    /\ stdout = Greeting
    /\ closed = (plan.start \in {"refused", "dies"})
    /\ buf = <<>> /\ patience = FALSE /\ eof = FALSE

-----------------------------------------------------------------------------
(* jdb: the banner thread *)

Emit(lines) == stdout' = stdout \o lines

Banner(h) ==
    LET name == Name(Hit(h).thread)
        kind == Hit(h).kind
        says == IF kind = "Step" THEN {"step"} ELSE {}
    IN  CASE kind = "Exception"  -> <<Line("exception", h, "", 0, {}, 0)>>
          [] kind = "FieldWatch" -> <<Line("watch", h, name, 0, {}, 0)>>
          [] OTHER -> <<Line("head", h, "", 0, says, 0), Line("loc", h, name, 0, {}, 0)>>

\* A thread runs into hit h, the next of the plan.
TargetHits ==
    /\ vm = "running" /\ raised < Len(plan.hits) /\ late.lines = <<>>
    /\ LET h      == raised + 1
           all    == Hit(h).policy = "all"
           prompt == IF all THEN Line("prompt", 0, Name(Hit(h).thread), 0, {}, 0) ELSE Bare
           whole  == Append(Banner(h), prompt)
       IN  /\ HeldAt(Hit(h).thread) = 0
           /\ raised' = h
           /\ held' = held \cup {h}
           /\ vm' = IF all THEN "stopped" ELSE "running"
           /\ cur' = IF all THEN Hit(h).thread ELSE cur
           /\ CASE Hit(h).policy = "jdk8" -> Emit(<<Banner(h)[1]>>) /\ late' = NoneLate
                [] Hit(h).late = "stall"  -> /\ Emit(<<Banner(h)[1]>>)
                                             /\ late' = [when |-> "stall", lines |-> Tail(whole)]
                [] Hit(h).late = "soon"   -> /\ Emit(whole)
                                             /\ late' = [when |-> "soon",
                                                         lines |-> <<Text({}, 0), prompt>>]
                [] Hit(h).late = "later"  -> /\ Emit(whole)
                                             /\ late' = [when |-> "later", lines |-> <<Bare>>]
                [] OTHER                  -> Emit(whole) /\ late' = NoneLate
    /\ UNCHANGED <<plan, stdin, closed, readerVars>>

\* The rest of what belongs to a hit: source line and prompt within the 100 ms
\* of drain_stale ("soon"), a bare prompt before the next command ("later"), both
\* unless jdb is slow; the rest of a banner at any time ("stall").
InTime(when) == late.when = when => plan.slow
LateOutput ==
    /\ late.lines # <<>>
    /\ Emit(late.lines)
    /\ late' = NoneLate
    /\ UNCHANGED <<plan, vm, held, cur, raised, stdin, closed, readerVars>>

\* The program ends, or jdb dies.
TargetEnds ==
    /\ vm = "running" /\ raised = Len(plan.hits) /\ plan.end # "loop"
    /\ late.lines = <<>> /\ held = {}
    /\ vm' = "gone" /\ held' = {} /\ cur' = 0
    /\ Emit(CASE plan.end = "exit"  -> <<Line("exit", 0, "", 0, {}, 0)>>
              [] plan.end = "reset" -> <<Line("fatal", 0, "", 0, {}, 0)>>
              [] OTHER              -> <<>>)
    /\ closed' = TRUE /\ stdin' = <<>>
    /\ UNCHANGED <<plan, raised, late, readerVars>>

-----------------------------------------------------------------------------
(* jdb: the command thread *)

Resuming == {"run", "cont", "step", "next", "step up", "resume"}

\* The lines that answer command number n.
Answer(verb, arg, n) ==
    LET here == IF cur # 0 /\ Suspended(cur) THEN FrameOf(cur) ELSE 0
        L(is, of, says) == Line(is, of, "", 0, says, n)
    IN  CASE verb = "threads" ->
               <<L("group", 0, {})>> \o
               [t \in ThreadIds |-> Line("thread", BreakpointOf(t), Name(t), t, {}, n)]
          [] verb \in {"where", "where all"} /\ here # 0 ->
               (IF verb = "where all" THEN <<L("owner", 0, {})>> ELSE <<>>)
               \o <<L("frame", here, {})>>
          [] verb = "locals" /\ here # 0 -> <<L("assign", 0, {"local"})>>
          [] verb \in {"print", "eval"} /\ here # 0 ->
               CASE arg = "condition" /\ here \in Hits /\ Hit(here).cond \in {"true", "false"}
                      -> <<L("assign", 0, {Hit(here).cond})>>
                 [] arg \in {"list.size", "list.get", "array.length", "array.index"} -> <<L("assign", 0, {"2"})>>
                 [] arg = "value" -> <<L("assign", 0, {"value"})>>
                 [] OTHER -> <<L("text", 0, {"ParseException"})>>
          [] verb = "dump" /\ here # 0 -> <<L("assign", 0, {}), L("field", 0, {})>>
          [] verb = "list" /\ here # 0 -> <<L("source", 0, {})>>
          [] verb = "set" /\ arg = "chain" -> <<L("text", 0, {"Name unknown"})>>
          [] OTHER -> <<L("text", 0, {})>>

\* Everything resumes; a bare prompt may show while the target is running.
JdbResumes(intermediate) ==
    /\ vm' = "running" /\ held' = {} /\ cur' = 0
    /\ Emit(intermediate)
    /\ UNCHANGED closed

JdbExits ==
    /\ vm' = "gone" /\ held' = {} /\ cur' = 0
    /\ closed' = TRUE
    /\ UNCHANGED stdout

JdbAnswers(lines) ==
    /\ Emit(lines)
    /\ UNCHANGED <<vm, held, closed>>

JdbExecutes ==
    /\ stdin # <<>> /\ ~closed
    /\ late.when \in {"none", "stall"}
    /\ LET c       == Head(stdin)
           started == vm # "unstarted"
       IN  /\ stdin' = IF c.verb = "quit" THEN <<>> ELSE Tail(stdin)
           /\ \/ c.verb = "quit" /\ JdbExits
              \/ /\ c.verb = "run" /\ ~started
                 /\ JdbResumes(<<Bare>>)
              \/ /\ c.verb = "run" /\ started
                 /\ JdbAnswers(<<Text({}, c.n), Prompt>>) /\ UNCHANGED cur
              \/ /\ c.verb \in Resuming \ {"run"} /\ ~started
                 /\ JdbAnswers(<<Text({}, c.n), Bare>>) /\ UNCHANGED cur
              \/ /\ c.verb \in Resuming \ {"run"} /\ started
                 /\ vm = "stopped" \/ held # {}
                 /\ IF c.verb = "resume" THEN JdbResumes(<<Text({}, c.n), Bare>>)
                    ELSE \/ JdbResumes(<<>>)
                         \/ JdbResumes(<<Bare>>)
              \/ /\ c.verb \in Resuming \ {"run"} /\ started
                 /\ vm # "stopped" /\ held = {}
                 /\ JdbAnswers(<<Line("nothing", 0, "", 0, {}, c.n), Bare>>) /\ UNCHANGED cur
              \/ /\ c.verb = "thread"
                 /\ cur' = c.id
                 /\ JdbAnswers(<<Text({}, c.n), Line("prompt", 0, Name(c.id), 0, {}, 0)>>)
              \/ /\ c.verb \notin Resuming \cup {"quit", "thread"}
                 /\ JdbAnswers(Append(Answer(c.verb, c.arg, c.n), Prompt)) /\ UNCHANGED cur
    /\ UNCHANGED <<plan, raised, late, readerVars>>

\* Nothing more will be printed unless a command is written.
JdbQuiet ==
    /\ stdin = <<>> \/ closed
    /\ late.lines = <<>>
    /\ ~ (vm = "running" /\ raised < Len(plan.hits) /\ HeldAt(Hit(raised + 1).thread) = 0)
    /\ ~ (vm = "running" /\ raised = Len(plan.hits) /\ plan.end # "loop" /\ held = {})

JdbStep == TargetHits \/ LateOutput \/ TargetEnds \/ JdbExecutes

-----------------------------------------------------------------------------
(* PromptReader: one step of the loop of read_until_prompt.  The outcome   *)
(* of a step that returns is `o`.                                          *)

\* Mutant: nothing is purged.
purge_nothing == UNCHANGED <<stdout, readerVars>>

take_text == buf' = <<>>

ReadMatches(mode, o) ==
    /\ o = try_match(buf, mode)
    /\ o # NoOutcome
    /\ take_text
    /\ UNCHANGED <<pipeVars, patience, eof>>

Unmatched(mode) == try_match(buf, mode) = NoOutcome

\* The truncated head of a banner starts the patience timer; anything else
\* at the end of the text stops it.
ReadPatience(mode) ==
    /\ Unmatched(mode)
    /\ patience # (mode = "Blocking" /\ tail_is_partial_banner(buf))
    /\ patience' = ~patience
    /\ UNCHANGED <<pipeVars, buf, eof>>

PatienceSettled(mode) ==
    Unmatched(mode) /\ patience = (mode = "Blocking" /\ tail_is_partial_banner(buf))

\* 500 ms without another byte: jdb will not complete the banner, or it stalls.
emit_partial_stop(mode, o) ==
    /\ PatienceSettled(mode) /\ patience
    /\ stdout = <<>>
    /\ o = PartialStop(Last(buf), Front(buf))
    /\ take_text
    /\ patience' = FALSE
    /\ UNCHANGED <<pipeVars, eof>>

ReadEof(mode, o) ==
    /\ PatienceSettled(mode) /\ eof
    /\ o = Outcome("Eof", buf, NoStop)
    /\ take_text
    /\ UNCHANGED <<pipeVars, patience, eof>>

\* Mutant: only Normal commands have a deadline.
WaitsForEver(mode, o) ==
    /\ PatienceSettled(mode) /\ ~eof /\ mode = "Normal"
    /\ JdbQuiet /\ stdout = <<>> /\ ~closed /\ ~patience
    /\ o = Outcome("Timeout", buf, NoStop)
    /\ take_text
    /\ UNCHANGED <<pipeVars, patience, eof>>

\* The deadline: when all is quiet, or, in a hasty plan, at any moment.
ReadTimeout(mode, o) ==
    /\ PatienceSettled(mode) /\ ~eof
    /\ plan.hasty \/ (JdbQuiet /\ stdout = <<>> /\ ~closed /\ ~patience)
    /\ o = Outcome("Timeout", buf, NoStop)
    /\ take_text
    /\ UNCHANGED <<pipeVars, patience, eof>>

\* push: a chunk is any first part of what was printed.
ReadChunk(mode) ==
    /\ PatienceSettled(mode) /\ ~eof
    /\ \E n \in 1 .. Len(stdout) :
          /\ buf' = buf \o SubSeq(stdout, 1, n)
          /\ stdout' = SubSeq(stdout, n + 1, Len(stdout))
    /\ patience' = FALSE
    /\ UNCHANGED <<stdin, closed, eof>>

ReadClosed(mode) ==
    /\ PatienceSettled(mode) /\ ~eof
    /\ stdout = <<>> /\ closed
    /\ eof' = TRUE
    /\ UNCHANGED <<pipeVars, buf, patience>>

ReadContinues(mode) == ReadPatience(mode) \/ ReadChunk(mode) \/ ReadClosed(mode)
ReadOutcomes(mode) ==
    {try_match(buf, mode), Outcome("Eof", buf, NoStop), Outcome("Timeout", buf, NoStop)}
    \cup (IF buf = <<>> THEN {} ELSE {PartialStop(Last(buf), Front(buf))})
ReadReturns(mode, o) ==
    \/ ReadMatches(mode, o) \/ emit_partial_stop(mode, o)
    \/ ReadEof(mode, o)     \/ ReadTimeout(mode, o)

\* drain_stale: until 100 ms pass without output; the end of the stream ends
\* it without being remembered.
DrainTakes == /\ stdout # <<>>
              /\ stdout' = <<>>
              /\ buf' = buf \o stdout
              /\ patience' = FALSE
              /\ UNCHANGED <<stdin, closed, eof>>
DrainEnds  == /\ stdout = <<>> /\ InTime("soon")
              /\ take_text
              /\ UNCHANGED <<pipeVars, patience, eof>>

\* purge_pending followed by the write of the command, or the write alone.
purge_pending == /\ stdout' = <<>>
                 /\ eof' = (eof \/ closed)
                 /\ patience' = IF stdout = <<>> THEN patience ELSE FALSE
                 /\ take_text
no_purge      == UNCHANGED <<stdout, readerVars>>
=============================================================================
