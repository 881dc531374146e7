----------------------------- MODULE JdbSession -----------------------------
(***************************************************************************)
(* A session over jdb (session.rs).  The mutex `inner` is held from the    *)
(* write of a command until its answer is read and mapped, and through the *)
(* queries that complete a truncated banner; it is free between the        *)
(* commands of one request.  `ex[c]` is where client c is in execute.      *)
(***************************************************************************)
EXTENDS JdbProcess

CONSTANTS
    Clients,    \* daemon threads that serve a request on this session
    NoOne       \* the mutex is free

ASSUME ClientsAssumption == NoOne \notin Clients

VARIABLES
    opening,    \* place in Session::launch or Session::attach
    inner,      \* owner of the mutex
    state,      \* RunState
    last_event, \* kind of the last event, "none", or "VmExit"
    ex,
    written,    \* history: commands written to jdb
    heard,      \* history: the hits that execute has reported, in order
    misread     \* history: commands answered with something else

sessionVars == <<opening, inner, state, last_event, ex, written, heard, misread>>
jdbVars     == <<processVars, sessionVars>>

RunStates == {"Loaded", "Suspended", "Running", "Exited", "Dead"}
NoCall    == [verb |-> "none", arg |-> "", id |-> 0, mode |-> "Normal", hint |-> "Other",
              n |-> 0, since |-> 0]
Idle      == [stage |-> "none", call |-> NoCall, out |-> NoOutcome, ret |-> NoResponse]

SessionInit ==
    /\ ProcessInit
    /\ opening = IF plan.start = "launch" THEN "launch" ELSE "handshake"
    /\ inner = NoOne
    /\ state = "Loaded"
    /\ last_event = "none"
    /\ ex = [c \in Clients |-> Idle]
    /\ written = 0 /\ heard = <<>> /\ misread = {}

Ready == opening = "ready"

-----------------------------------------------------------------------------
(* Session::launch and Session::attach *)

OpenReads ==
    /\ opening \notin {"ready", "failed"}
    /\ ReadContinues("Normal")
    /\ UNCHANGED <<targetVars, sessionVars>>

\* launch ignores what it read.
Launched ==
    /\ opening = "launch"
    /\ \E o \in ReadOutcomes("Normal") : ReadReturns("Normal", o)
    /\ opening' = "ready"
    /\ UNCHANGED <<targetVars, inner, state, last_event, ex, written, heard, misread>>

\* attach gives up on a fatal message or an early end, and kills jdb.
Handshake ==
    /\ opening = "handshake"
    /\ \E o \in ReadOutcomes("Normal") :
          /\ ReadReturns("Normal", o)
          /\ opening' = IF o.kind \in {"Fatal", "Eof"} THEN "failed" ELSE "extra1"
    /\ UNCHANGED <<targetVars, inner, state, last_event, ex, written, heard, misread>>

\* Up to three more prompts are read away, until one does not come.
ExtraPrompts ==
    /\ opening \in {"extra1", "extra2", "extra3"}
    /\ \E o \in ReadOutcomes("Normal") :
          /\ ReadReturns("Normal", o)
          /\ opening' = CASE o.kind = "Prompt" /\ opening = "extra1" -> "extra2"
                          [] o.kind = "Prompt" /\ opening = "extra2" -> "extra3"
                          [] OTHER -> "ready"
    /\ state' = IF opening' = "ready" THEN "Suspended" ELSE state
    /\ UNCHANGED <<targetVars, inner, last_event, ex, written, heard, misread>>

-----------------------------------------------------------------------------
(* execute *)

Terminated == state \in {"Exited", "Dead"}
Returned(c, r) == [ex[c] EXCEPT !.stage = "done", !.ret = r, !.out = NoOutcome]
Release(c, r)  == inner' = NoOne /\ ex' = [ex EXCEPT ![c] = Returned(c, r)]

\* write_command: numbered, and lost on a closed pipe.
Write(verb, arg, id) ==
    /\ written' = written + 1
    /\ stdin' = Append(stdin, [verb |-> verb, arg |-> arg, id |-> id, n |-> written + 1])

Asks(c) == ex[c].stage = "acquire" /\ ex[c].call.verb # "kill" /\ inner = NoOne

RejectTerminated(c) ==
    /\ Asks(c) /\ Terminated
    /\ ex' = [ex EXCEPT ![c] = Returned(c, Err("dead"))]
    /\ UNCHANGED <<processVars, opening, inner, state, last_event, written, heard, misread>>

\* Mutant: the mutex is free again once the command is written.
SendUnlocked(c) ==
    /\ Asks(c) /\ ~Terminated
    /\ InTime("later") /\ ~closed
    /\ IF ex[c].call.mode = "Normal" THEN purge_pending ELSE no_purge
    /\ Write(ex[c].call.verb, ex[c].call.arg, ex[c].call.id)
    /\ ex' = [ex EXCEPT ![c].stage = "read", ![c].call.n = written + 1, ![c].call.since = raised]
    /\ UNCHANGED <<targetVars, closed, opening, inner, state, last_event, heard, misread>>

\* A Normal command first throws away what it finds in the channel.  What jdb
\* still prints of the last stop "later" is there by then, unless jdb is slow.
Send(c) ==
    /\ Asks(c) /\ ~Terminated
    /\ InTime("later")
    /\ IF ex[c].call.mode = "Normal" THEN purge_pending ELSE no_purge
    /\ IF closed
       THEN /\ ex' = [ex EXCEPT ![c] = Returned(c, Err("io"))]
            /\ UNCHANGED <<inner, written, stdin>>
       ELSE /\ inner' = c
            /\ Write(ex[c].call.verb, ex[c].call.arg, ex[c].call.id)
            /\ ex' = [ex EXCEPT ![c].stage = "read", ![c].call.n = written + 1,
                                ![c].call.since = raised]
    /\ UNCHANGED <<targetVars, closed, opening, state, last_event, heard, misread>>

ReadOn(c) ==
    /\ ex[c].stage = "read"
    /\ ReadContinues(ex[c].call.mode)
    /\ UNCHANGED <<targetVars, sessionVars>>

\* A stop answers a resuming command if it happened after it; a text answers
\* the command whose number it carries, a stray "> " in it apart.
Fits(o, call) ==
    IF o.event # NoStop THEN call.mode = "Blocking" /\ o.event.hit > call.since
    ELSE \A i \in DOMAIN o.output : o.output[i].is = "bare" \/ o.output[i].cmd = call.n

\* map_outcome
Result(o, hint) ==
    CASE o.kind = "Prompt" /\ o.event # NoStop -> event_to_result(o.event)
      [] o.kind = "Prompt" /\ o.event = NoStop -> classify_output(o.output, hint)
      [] o.kind = "Timeout"                    -> Response("Timeout", o.output)
      [] OTHER                                 -> Response("VmExited", o.output)

\* Mutant: a command that gave up leaves the state as it was.
StateKept(o) ==
    CASE o.kind = "Prompt" /\ o.event # NoStop -> "Suspended"
      [] o.kind = "VmExit"                     -> "Exited"
      [] o.kind = "Eof"                        -> "Dead"
      [] OTHER                                 -> state

StateAfter(o) ==
    CASE o.kind = "Prompt" /\ o.event # NoStop -> "Suspended"
      [] o.kind = "VmExit"                     -> "Exited"
      [] o.kind = "Timeout"                    -> "Running"
      [] o.kind = "Eof"                        -> "Dead"
      [] OTHER                                 -> state

\* The outcome is mapped; a truncated banner goes on to be completed.
map_outcome(c, o) ==
    LET call == ex[c].call
        r    == Result(o, call.hint)
    IN  /\ state' = StateAfter(o)
        /\ last_event' = CASE o.event # NoStop  -> o.event.kind
                           [] o.kind = "VmExit" -> "VmExit"
                           [] OTHER             -> last_event
        /\ heard' = IF o.event = NoStop THEN heard ELSE Append(heard, o.event.hit)
        /\ misread' = IF o.kind = "Prompt" /\ ~Fits(o, call)
                      THEN misread \cup {call.n} ELSE misread
        /\ IF is_partial_stopped(r)
           THEN ex' = [ex EXCEPT ![c].stage = "ask threads", ![c].ret = r] /\ UNCHANGED inner
           ELSE Release(c, r)

ReadDone(c) ==
    /\ ex[c].stage = "read"
    /\ \E o \in ReadOutcomes(ex[c].call.mode) :
          /\ ReadReturns(ex[c].call.mode, o)
          /\ \/ /\ o.kind = "Fatal"
                /\ state' = "Dead"
                /\ Release(c, Err("fatal"))
                /\ UNCHANGED <<last_event, heard, misread>>
             \/ /\ o.event # NoStop /\ ex[c].call.mode = "Blocking"
                /\ ex' = [ex EXCEPT ![c].stage = "drain", ![c].out = o]
                /\ UNCHANGED <<inner, state, last_event, heard, misread>>
             \/ /\ o.kind # "Fatal"
                /\ o.event = NoStop \/ ex[c].call.mode = "Normal"
                /\ map_outcome(c, o)
    /\ UNCHANGED <<targetVars, opening, written>>

\* drain_stale, after a stop answered a resuming command.
Drain(c) ==
    /\ ex[c].stage = "drain"
    /\ \/ DrainTakes /\ UNCHANGED <<inner, state, last_event, ex, heard, misread>>
       \/ DrainEnds  /\ map_outcome(c, ex[c].out)
    /\ UNCHANGED <<targetVars, opening, written>>

-----------------------------------------------------------------------------
(* enrich_partial_stop_inner: threads, thread <id>, where, under one lock. *)

Queries == {"threads", "thread", "where"}
Ask     == [threads |-> "ask threads", thread |-> "ask thread", where |-> "ask where"]
Listen  == [threads |-> "listen threads", thread |-> "listen thread", where |-> "listen where"]
Warn(c, what) == Release(c, append_note(ex[c].ret, what))

\* run_query: no purge; a broken pipe ends the enrichment.
RunQuery(c, q) ==
    /\ ex[c].stage = Ask[q]
    /\ IF closed
       THEN Warn(c, q \o " failed") /\ UNCHANGED <<written, stdin>>
       ELSE /\ Write(q, "", IF q = "thread" THEN ex[c].ret.id ELSE 0)
            /\ ex' = [ex EXCEPT ![c].stage = Listen[q]]
            /\ UNCHANGED inner
    /\ UNCHANGED <<targetVars, stdout, closed, readerVars,
                   opening, state, last_event, heard, misread>>

QueryReadsOn(c) ==
    /\ \E q \in Queries : ex[c].stage = Listen[q]
    /\ ReadContinues("Normal")
    /\ UNCHANGED <<targetVars, sessionVars>>

\* The first thread that stands at a breakpoint is taken for the hit thread.
HitThread(out) == {i \in Places(out, "thread") : out[i].of # 0}

\* Mutant: the mutex is free between two queries.
AskUnlocked(c, q, r) ==
    ex' = [ex EXCEPT ![c].stage = Ask[q], ![c].ret = r] /\ inner' = NoOne

AskNext(c, q, r) ==
    ex' = [ex EXCEPT ![c].stage = Ask[q], ![c].ret = r] /\ UNCHANGED inner

QueryAnswered(c, q) ==
    /\ ex[c].stage = Listen[q]
    /\ \E o \in ReadOutcomes("Normal") :
          /\ ReadReturns("Normal", o)
          /\ LET r     == ex[c].ret
                 hits  == HitThread(o.output)
                 stack == parse_where(o.output)
             IN  \/ o.kind # "Prompt" /\ Warn(c, q \o " failed")
                 \/ /\ o.kind = "Prompt" /\ q = "threads"
                    /\ IF hits = {} THEN Warn(c, "no thread at a breakpoint")
                       ELSE LET t == o.output[Least(hits)]
                            IN  AskNext(c, "thread", [r EXCEPT !.thread = t.who, !.id = t.id])
                 \/ /\ o.kind = "Prompt" /\ q = "thread"
                    /\ AskNext(c, "where", r)
                 \/ /\ o.kind = "Prompt" /\ q = "where"
                    /\ IF stack.kind # "StackTrace" THEN Warn(c, "no stack")
                       ELSE Release(c, [r EXCEPT !.at = stack.items[1].of,
                                                 !.frame = stack.items[1].of])
    /\ UNCHANGED <<targetVars, opening, state, last_event, written, heard, misread>>

Enrich(c) == QueryReadsOn(c) \/ \E q \in Queries : RunQuery(c, q) \/ QueryAnswered(c, q)

-----------------------------------------------------------------------------
(* kill: resume and quit are written, whatever the state; jdb gets half a   *)
(* second to go, then it is killed.                                        *)

KillAsks(c) ==
    /\ ex[c].stage = "acquire" /\ ex[c].call.verb = "kill" /\ inner = NoOne
    /\ inner' = c
    /\ ex' = [ex EXCEPT ![c].stage = "killing"]
    /\ IF closed THEN UNCHANGED <<stdin, written>>
       ELSE /\ written' = written + 2
            /\ stdin' = stdin \o <<[verb |-> "resume", arg |-> "", id |-> 0, n |-> written + 1],
                                   [verb |-> "quit", arg |-> "", id |-> 0, n |-> written + 2]>>
    /\ UNCHANGED <<targetVars, stdout, closed, readerVars,
                   opening, state, last_event, heard, misread>>

KillEnds(c) ==
    /\ ex[c].stage = "killing"
    /\ closed \/ plan.hasty
    /\ closed' = TRUE /\ vm' = "gone" /\ held' = {} /\ cur' = 0 /\ stdin' = <<>>
    /\ state' = "Dead"
    /\ Release(c, Raw(<<>>))
    /\ UNCHANGED <<plan, raised, late, stdout, readerVars,
                   opening, last_event, written, heard, misread>>

\* state and status wait for the mutex, that is for the command in flight.
StatusRead(c) ==
    /\ ex[c].stage = "acquire status" /\ inner = NoOne
    /\ ex' = [ex EXCEPT ![c] = Returned(c, [Response("Status", <<>>) EXCEPT !.event = state])]
    /\ UNCHANGED <<processVars, opening, inner, state, last_event, written, heard, misread>>

OpenerStep == OpenReads \/ Launched \/ Handshake \/ ExtraPrompts
Execute(c) ==
    \/ RejectTerminated(c) \/ Send(c) \/ ReadOn(c) \/ ReadDone(c) \/ Drain(c)
    \/ Enrich(c) \/ KillAsks(c) \/ KillEnds(c) \/ StatusRead(c)
JdbProcessStep == JdbStep /\ UNCHANGED sessionVars
=============================================================================
