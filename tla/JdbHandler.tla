----------------------------- MODULE JdbHandler -----------------------------
(***************************************************************************)
(* The request handler over a jdb session (daemon/handler.rs): each client *)
(* is a connection's thread that turns one request after another into      *)
(* calls of Session::execute.  Between two calls of one request the        *)
(* session's mutex is free and another client may use the session.         *)
(*                                                                         *)
(* `plan.prog[c]` is the sequence of requests of client c.  A request has  *)
(* an op, an argument, and, for a breakpoint, its spec: class, line (0 for *)
(* a method breakpoint), method, and whether it has a condition.           *)
(***************************************************************************)
EXTENDS JdbSession

CONSTANTS
    MaxIterations,  \* cap of eval_condition_loop, 100 in the code
    MaxElements     \* how many elements `inspect` asks for

ASSUME HandlerAssumption == MaxIterations \in Nat \ {0} /\ MaxElements \in Nat

VARIABLES
    conditions,     \* Session.conditions: specs of conditional breakpoints
    break_target,   \* Session.last_break_target
    cl,             \* cl[c]: where client c is in its request
    reply           \* reply[c]: the last response client c got

handlerVars == <<conditions, break_target, cl, reply>>
vars        == <<jdbVars, handlerVars>>

NoTarget == [class |-> <<>>, line |-> 0]
AtRest   == [ip |-> 1, at |-> "idle", resp |-> NoResponse, pre |-> {},
             iter |-> 0, settling |-> FALSE, count |-> 0]

Init ==
    /\ SessionInit
    /\ conditions = <<>>
    /\ break_target = NoTarget
    /\ cl = [c \in Clients |-> AtRest]
    /\ reply = [c \in Clients |-> NoResponse]

Req(c)  == plan.prog[c][cl[c].ip]
Busy(c) == cl[c].at # "idle"

-----------------------------------------------------------------------------
(* Conditions *)

\* class_spec_matches: one name is the other without leading packages.
class_spec_matches(a, b) == a # <<>> /\ b # <<>> /\ (IsSuffix(a, b) \/ IsSuffix(b, a))

Apart(m, n) == IF m > n THEN m - n ELSE n - m

find_line_condition(class, line, tolerance) ==
    {i \in DOMAIN conditions :
        /\ conditions[i].line # 0
        /\ class_spec_matches(conditions[i].class, class)
        /\ Apart(conditions[i].line, line) <= tolerance}

find_method_condition(class, method) ==
    {i \in DOMAIN conditions :
        /\ conditions[i].line = 0
        /\ class_spec_matches(conditions[i].class, class)
        /\ conditions[i].method = method}

\* The line itself, then a line at most five away, then the method.
condition_for_hit(h) ==
    LET site  == SiteOf(h)
        exact == find_line_condition(site.class, site.line, 0)
        near  == find_line_condition(site.class, site.line, 5)
        inn   == find_method_condition(site.class, site.method)
        found == IF exact # {} THEN exact ELSE IF near # {} THEN near ELSE inn
    IN  IF found = {} THEN 0 ELSE Least(found)

has_conditions == conditions # <<>>

\* A condition replaces that of the same spec.
add_condition(spec) ==
    conditions' = Append(SelectSeq(conditions, LAMBDA s : s # spec), spec)

-----------------------------------------------------------------------------
(* The jdb command of a request *)

Inspections == {"Where", "WhereAll", "Locals", "Print", "Dump", "Eval", "Classes", "Methods",
                "Threads", "Thread", "Frame", "ListSource", "Inspect", "Set", "ForceReturn",
                "Lock", "ThreadLocks"}
should_settle_async_conditions(op) == op \in Inspections

Verbs ==
    [Run |-> "run", Cont |-> "cont", Step |-> "step", Next |-> "next", StepOut |-> "step up",
     BreakAt |-> "stop at", BreakIn |-> "stop in", Catch |-> "catch", Ignore |-> "ignore",
     Watch |-> "watch", Unwatch |-> "unwatch", Breakpoints |-> "clear", Clear |-> "clear",
     Classes |-> "classes", Methods |-> "methods", Where |-> "where", WhereAll |-> "where all",
     Locals |-> "locals", Dump |-> "dump", Eval |-> "eval",
     Threads |-> "threads", Thread |-> "thread", Frame |-> "up", ListSource |-> "list",
     Raw |-> "raw", Suspend |-> "suspend", Resume |-> "resume", Set |-> "set",
     Lock |-> "lock", ThreadLocks |-> "threadlocks", Kill |-> "kill"]
JdbVerb(op) == IF op = "Print" THEN "print" ELSE Verbs[op]

Hint(op) ==
    CASE op \in {"Where", "WhereAll", "Locals", "Print", "Dump", "Threads", "ListSource",
                 "Breakpoints", "Classes", "Methods"} -> op
      [] op = "Eval"                           -> "Print"
      [] op \in {"BreakAt", "BreakIn", "Catch"} -> "BreakpointSet"
      [] op = "Watch"                          -> "WatchSet"
      [] OTHER                                 -> "Other"

Blocking == {"Run", "Cont", "Step", "Next", "StepOut"}

\* The number a `thread` request names.
ThreadAsked(arg) == IF arg = "2" THEN 2 ELSE 1

CallFor(op, arg) ==
    [NoCall EXCEPT !.verb = JdbVerb(op), !.arg = arg, !.id = IF op = "Thread" THEN ThreadAsked(arg) ELSE 0,
                   !.hint = Hint(op), !.mode = IF op \in Blocking THEN "Blocking" ELSE "Normal"]

-----------------------------------------------------------------------------
(* What a plan is *)

Ops   == DOMAIN Verbs \cup {"Print", "Inspect", "ForceReturn", "Status"}
Specs == [class : Seq(STRING), line : Nat, method : STRING, conditional : BOOLEAN]
Sites == [class : Seq(STRING), line : Nat, method : STRING]

\* Hits and requests are about threads the target has.
ASSUME PlansAssumption ==
    \A p \in Plans :
        /\ p.start \in {"launch", "attach", "attachRunning", "refused", "dies"}
        /\ p.end \in {"exit", "loop", "crash", "reset"}
        /\ p.hasty \in BOOLEAN /\ p.slow \in BOOLEAN
        /\ p.names \in Seq(STRING)
        /\ p.hits \in Seq([policy : {"all", "thread", "jdk8"},
                           kind : {"Breakpoint", "Step", "Exception", "FieldWatch"},
                           thread : DOMAIN p.names,
                           site : Sites,
                           cond : {"true", "false", "error"},
                           late : {"none", "soon", "later", "stall"}])
        /\ p.prog \in [Clients -> Seq([op : Ops, arg : STRING, spec : Specs \cup {NoTarget}])]
        /\ \A c \in Clients : \A i \in DOMAIN p.prog[c] :
              p.prog[c][i].op = "Thread" => ThreadAsked(p.prog[c][i].arg) \in DOMAIN p.names

-----------------------------------------------------------------------------
(* Moves of a client between two calls *)

Call(c, op, arg, to) ==
    /\ ex' = [ex EXCEPT ![c] = [Idle EXCEPT !.stage = "acquire", !.call = CallFor(op, arg)]]
    /\ cl' = [cl EXCEPT ![c] = to]
    /\ UNCHANGED <<reply, break_target>>

Reply(c, r) ==
    /\ reply' = [reply EXCEPT ![c] = r]
    /\ cl' = [cl EXCEPT ![c] = [AtRest EXCEPT !.ip = cl[c].ip + 1]]
    /\ ex' = [ex EXCEPT ![c] = Idle]

At(c, where, r) == [cl[c] EXCEPT !.at = where, !.resp = r]

\* The request itself, once async conditions are settled; `pre` are the notes
\* of that.
Main(c, pre) ==
    LET req == Req(c)
        to  == [cl[c] EXCEPT !.at = "main", !.pre = pre, !.settling = FALSE]
    IN  \/ /\ req.op = "Inspect"
           /\ Call(c, "Print", req.arg \o ".size", [to EXCEPT !.at = "size"])
        \/ /\ req.op = "ForceReturn" \/ (req.op = "BreakIn" /\ req.arg # "entry")
           /\ Reply(c, Err("unsupported"))
           /\ UNCHANGED break_target
        \/ /\ req.op = "Status"
           /\ ex' = [ex EXCEPT ![c] = [Idle EXCEPT !.stage = "acquire status"]]
           /\ cl' = [cl EXCEPT ![c] = to]
           /\ UNCHANGED <<reply, break_target>>
        \/ /\ req.op = "Set"
           /\ Call(c, "Set", IF req.arg \in {"empty", "other"} THEN "quoted" ELSE req.arg, to)
        \/ /\ req.op \notin {"Inspect", "ForceReturn", "Status", "Set"}
           /\ req.op = "BreakIn" => req.arg = "entry"
           /\ ~ (req.op = "Run" /\ plan.start # "launch")
           /\ Call(c, req.op, req.arg, to)
        \/ /\ req.op = "Run" /\ plan.start # "launch"
           /\ Reply(c, Err("launch only"))
           /\ UNCHANGED break_target

check_line_mismatch(c, r) ==
    IF r.kind = "Stopped" /\ r.event = "Breakpoint"
    THEN /\ break_target' = NoTarget
         /\ Reply(c, IF /\ break_target # NoTarget
                        /\ break_target.class = SiteOf(r.at).class
                        /\ break_target.line # SiteOf(r.at).line
                     THEN append_note(r, "rounded") ELSE r)
    ELSE UNCHANGED break_target /\ Reply(c, r)

enrich_thread_id(c, r) ==
    IF r.kind \in {"Stopped", "ExceptionCaught"} /\ r.id = 0
    THEN Call(c, "Threads", "", At(c, "thread id", r))
    ELSE check_line_mismatch(c, r)

enrich_source(c, r) ==
    IF r.kind = "Stopped" /\ ~r.source /\ r.at # 0
    THEN Call(c, "ListSource", "", At(c, "source", r))
    ELSE enrich_thread_id(c, r)

enrich_stopped(c, r) ==
    IF r.kind = "Stopped" /\ r.frame = 0
    THEN Call(c, "Where", "", At(c, "frame", r))
    ELSE enrich_source(c, r)

\* What follows the condition loop: the inspection it was run for, or the end
\* of a resuming request.
AfterLoop(c, r) ==
    IF ~cl[c].settling THEN enrich_stopped(c, r)
    ELSE IF r.kind = "Stopped" THEN Main(c, r.notes)
    ELSE UNCHANGED break_target /\ Reply(c, r)

\* The head of eval_condition_loop, in iteration i.
eval_condition_loop(c, r, i, settling) ==
    LET conditional == /\ r.kind = "Stopped" /\ r.event = "Breakpoint"
                       /\ condition_for_hit(r.at) # 0
    IN  IF i < MaxIterations /\ conditional
        THEN Call(c, "Print", "condition",
                  [cl[c] EXCEPT !.at = "condition", !.resp = r, !.iter = i,
                                !.settling = settling])
        ELSE AfterLoop(c, IF i < MaxIterations THEN r ELSE append_note(r, "cap"))

-----------------------------------------------------------------------------
(* Steps of a client *)

StartRequest(c) ==
    /\ Ready /\ ~Busy(c)
    /\ cl[c].ip <= Len(plan.prog[c])
    /\ IF should_settle_async_conditions(Req(c).op) /\ has_conditions
       THEN Call(c, "Where", "", At(c, "settle", NoResponse))
       ELSE Main(c, {})
    /\ UNCHANGED conditions

Back(c, where) == cl[c].at = where /\ ex[c].stage = "done"
Ret(c)         == ex[c].ret
TopHit(r)      == r.items[1].of

\* settle_async_condition_breakpoint: is the session at a conditional hit that
\* nobody has judged?
Settle(c) ==
    /\ Back(c, "settle")
    /\ LET r   == Ret(c)
           hit == IF r.kind = "StackTrace"
                  THEN [Response("Stopped", <<>>) EXCEPT
                           !.event = "Breakpoint", !.at = TopHit(r), !.frame = TopHit(r)]
                  ELSE r
           atBreakpoint == hit.kind = "Stopped" /\ hit.event = "Breakpoint"
       IN  IF atBreakpoint /\ condition_for_hit(hit.at) # 0
           THEN eval_condition_loop(c, hit, 0, TRUE)
           ELSE Main(c, IF atBreakpoint THEN r.notes ELSE {})
    /\ UNCHANGED conditions

\* The condition has been evaluated: stop if true, or if it is no value.
Judge(c) ==
    /\ Back(c, "condition")
    /\ LET v == Ret(c)
       IN  IF v.kind # "Value" THEN AfterLoop(c, append_note(cl[c].resp, "condition not evaluated"))
           ELSE IF "true" \in v.items[1].says THEN AfterLoop(c, cl[c].resp)
           ELSE Call(c, "Cont", "", [cl[c] EXCEPT !.at = "auto cont"])
    /\ UNCHANGED conditions

\* Mutant: what stopped the automatic cont is not judged.
AutoContinuedOnce(c) ==
    /\ Back(c, "auto cont")
    /\ AfterLoop(c, Ret(c))
    /\ UNCHANGED conditions

AutoContinued(c) ==
    /\ Back(c, "auto cont")
    /\ IF IsErr(Ret(c)) THEN AfterLoop(c, append_note(cl[c].resp, "auto-cont failed"))
       ELSE eval_condition_loop(c, Ret(c), cl[c].iter + 1, cl[c].settling)
    /\ UNCHANGED conditions

\* The request's own command is answered.
MainAnswered(c) ==
    /\ Back(c, "main")
    /\ LET req == Req(c)
           r   == Ret(c)
           out == IF IsErr(r) THEN r ELSE [r EXCEPT !.notes = @ \cup cl[c].pre]
       IN  \/ /\ req.op \in Blocking /\ ~IsErr(r)
              /\ eval_condition_loop(c, r, 0, FALSE)
              /\ UNCHANGED conditions
           \/ /\ req.op \in {"BreakAt", "BreakIn"} /\ ~IsErr(r)
              /\ break_target' = IF req.op = "BreakAt"
                                 THEN [class |-> req.spec.class, line |-> req.spec.line]
                                 ELSE break_target
              /\ IF req.spec.conditional THEN add_condition(req.spec) ELSE UNCHANGED conditions
              /\ Reply(c, out)
           \/ /\ req.op = "Set" /\ r.kind = "Raw" /\ req.arg \notin {"empty", "other"}
              /\ Mentions(r.items, "Name unknown") \/ Mentions(r.items, "ParseException")
              /\ Call(c, "Set", "quoted", At(c, "retry", r))
              /\ UNCHANGED conditions
           \/ /\ req.op \notin Blocking \cup {"BreakAt", "BreakIn"} \/ IsErr(r)
              /\ ~ (/\ req.op = "Set" /\ r.kind = "Raw" /\ req.arg \notin {"empty", "other"}
                    /\ Mentions(r.items, "Name unknown") \/ Mentions(r.items, "ParseException"))
              /\ Reply(c, out)
              /\ UNCHANGED <<conditions, break_target>>

Retried(c) ==
    /\ Back(c, "retry")
    /\ Reply(c, IF IsErr(Ret(c)) THEN Ret(c) ELSE [Ret(c) EXCEPT !.notes = @ \cup cl[c].pre])
    /\ UNCHANGED <<conditions, break_target>>

\* enrich_stopped: frame, which also gives a location that is missing; source.
GotFrame(c) ==
    /\ Back(c, "frame")
    /\ LET r     == cl[c].resp
           frame == IF Ret(c).kind = "StackTrace" THEN TopHit(Ret(c)) ELSE 0
           full  == [r EXCEPT !.frame = frame, !.at = IF r.at = 0 THEN frame ELSE r.at]
       IN  enrich_source(c, IF frame = 0 THEN append_note(full, "no frame") ELSE full)
    /\ UNCHANGED conditions

GotSource(c) ==
    /\ Back(c, "source")
    /\ LET got == Ret(c).kind = "Source"
           r   == [cl[c].resp EXCEPT !.source = got]
       IN  enrich_thread_id(c, IF got THEN r ELSE append_note(r, "no source"))
    /\ UNCHANGED conditions

\* thread_id_for: the only thread of that name, else one at a breakpoint.
thread_id_for(threads, name) ==
    LET named == SelectSeq(threads, LAMBDA t : t.who = name)
        hit   == SelectSeq(threads, LAMBDA t : t.of # 0)
    IN  IF name # "" /\ Len(named) = 1 THEN named[1].id
        ELSE IF hit # <<>> THEN hit[1].id ELSE 0

GotThreadId(c) ==
    /\ Back(c, "thread id")
    /\ LET r  == cl[c].resp
           id == IF Ret(c).kind = "Threads" THEN thread_id_for(Ret(c).items, r.thread) ELSE 0
       IN  check_line_mismatch(c, IF id = 0 THEN append_note(r, "no thread id")
                                  ELSE [r EXCEPT !.id = id])
    /\ UNCHANGED conditions

\* handle_inspect: the size, or the length, or neither; then the elements, each
\* as a list's or an array's, until one cannot be had.
Inspected(c, r) == Reply(c, [r EXCEPT !.notes = cl[c].pre]) /\ UNCHANGED break_target

NextElement(c, r, count) ==
    IF Len(r.items) < count
    THEN Call(c, "Print", Req(c).arg \o ".get",
              [cl[c] EXCEPT !.at = "get", !.resp = r, !.count = count])
    ELSE Inspected(c, r)

GotSize(c) ==
    /\ \/ Back(c, "size") \/ Back(c, "length")
    /\ LET known == Ret(c).kind = "Value" /\ "2" \in Ret(c).items[1].says
           count == IF known /\ MaxElements > 2 THEN 2 ELSE MaxElements
       IN  IF known \/ cl[c].at = "length"
           THEN NextElement(c, Response("Inspection", <<>>), count)
           ELSE Call(c, "Print", Req(c).arg \o ".length", [cl[c] EXCEPT !.at = "length"])
    /\ UNCHANGED conditions

GotElement(c) ==
    /\ \/ Back(c, "get") \/ Back(c, "index")
    /\ LET r == cl[c].resp
       IN  IF Ret(c).kind = "Value"
           THEN NextElement(c, [r EXCEPT !.items = @ \o Ret(c).items], cl[c].count)
           ELSE IF cl[c].at = "get"
           THEN Call(c, "Print", Req(c).arg \o ".index", [cl[c] EXCEPT !.at = "index"])
           ELSE Inspected(c, r)
    /\ UNCHANGED conditions

HandlerStep(c) ==
    /\ \/ StartRequest(c) \/ Settle(c) \/ Judge(c) \/ AutoContinued(c) \/ MainAnswered(c)
       \/ Retried(c) \/ GotFrame(c) \/ GotSource(c) \/ GotThreadId(c) \/ GotSize(c) \/ GotElement(c)
    /\ UNCHANGED <<processVars, opening, inner, state, last_event, written, heard, misread>>

-----------------------------------------------------------------------------

ClientStep(c) == HandlerStep(c) \/ (Execute(c) /\ UNCHANGED handlerVars)

Next ==
    \/ JdbProcessStep /\ UNCHANGED handlerVars
    \/ OpenerStep /\ UNCHANGED handlerVars
    \/ \E c \in Clients : ClientStep(c)

\* jdb and its target are scheduled and so are the daemon's threads; that a
\* client asks at all is not assumed.
Fairness ==
    /\ WF_vars(JdbProcessStep /\ UNCHANGED handlerVars)
    /\ WF_vars(OpenerStep /\ UNCHANGED handlerVars)
    /\ \A c \in Clients : WF_vars(Busy(c) /\ ClientStep(c))

Spec == Init /\ [][Next]_vars /\ Fairness
=============================================================================
