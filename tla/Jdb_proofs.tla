----------------------------- MODULE Jdb_proofs -----------------------------
(***************************************************************************)
(* Proofs about a session over jdb, for every plan of the target and its   *)
(* clients.                                                                *)
(***************************************************************************)
EXTENDS JdbProperties, SequenceTheorems, WellFoundedInduction, TLAPS

-----------------------------------------------------------------------------
(* Sequences and least places                                              *)

\* A nonempty set of naturals has a least member.
LEMMA LeastNat ==
    ASSUME NEW T \in SUBSET Nat, T # {}
    PROVE  Least(T) \in T /\ \A y \in T : Least(T) <= y
  <1> DEFINE R == {rr \in Nat \X Nat : rr[1] < rr[2]}
  <1>1. IsWellFoundedOn(R, Nat)
    BY NatLessThanWellFounded, Zenon DEF OpToRel
  <1> HIDE DEF R
  <1>2. PICK x \in T : \A y \in T : <<y, x>> \notin R
    BY <1>1, WFMin
  <1>3. \A y \in T : ~ (y < x)
    BY <1>2 DEF R
  <1>4. \E z \in T : \A y \in T : z <= y
    BY <1>3
  <1> QED BY <1>4, Zenon DEF Least

\* A sequence but for its last member, and that member.
LEMMA FrontLast ==
    ASSUME NEW S, NEW q \in Seq(S), q # <<>>
    PROVE  /\ Front(q) \in Seq(S)
           /\ Len(q) \in Nat \ {0} /\ DOMAIN q = 1 .. Len(q)
           /\ Len(Front(q)) = Len(q) - 1
           /\ DOMAIN Front(q) = 1 .. (Len(q) - 1)
           /\ \A i \in 1 .. (Len(q) - 1) : Front(q)[i] = q[i]
           /\ Last(q) = q[Len(q)] /\ Last(q) \in S
  <1>1. Len(q) \in Nat \ {0} /\ DOMAIN q = 1 .. Len(q) /\ \A i \in 1 .. Len(q) : q[i] \in S
    BY LenProperties, EmptySeq, ElementOfSeq
  <1>2. 1 \in Int /\ Len(q) - 1 \in Int /\ \A k \in 1 .. (Len(q) - 1) : q[k] \in S
    BY <1>1
  <1>3. Front(q) \in Seq(S)
    BY <1>2, SubSeqProperties DEF Front
  <1>4. Len(Front(q)) = Len(q) - 1
    BY <1>1, <1>2, SubSeqProperties DEF Front
  <1>5. \A i \in 1 .. (Len(q) - 1) : Front(q)[i] = q[i]
    BY <1>1, <1>2, SubSeqProperties DEF Front
  <1>6. DOMAIN Front(q) = 1 .. (Len(q) - 1)
    BY <1>3, <1>4, LenProperties
  <1> QED BY <1>1, <1>3, <1>4, <1>5, <1>6 DEF Last

\* A tail.
LEMMA Tailed ==
    ASSUME NEW S, NEW q \in Seq(S), q # <<>>
    PROVE  /\ Tail(q) \in Seq(S) /\ Head(q) = q[1] /\ q[1] \in S
           /\ Len(q) \in Nat \ {0} /\ DOMAIN q = 1 .. Len(q)
           /\ Len(Tail(q)) = Len(q) - 1
           /\ \A i \in 1 .. (Len(q) - 1) : Tail(q)[i] = q[i + 1]
  <1>1. Len(q) \in Nat \ {0} /\ DOMAIN q = 1 .. Len(q) /\ \A i \in 1 .. Len(q) : q[i] \in S
    BY LenProperties, EmptySeq, ElementOfSeq
  <1>2. /\ Tail(q) \in Seq(S) /\ Head(q) = q[1] /\ Len(Tail(q)) = Len(q) - 1
        /\ \A i \in 1 .. Len(Tail(q)) : Tail(q)[i] = q[i + 1]
    BY HeadTailProperties
  <1> QED BY <1>1, <1>2

-----------------------------------------------------------------------------
(* What the parts of a session hold                                        *)

LineKinds == {"text", "bare", "prompt", "head", "loc", "exception", "watch", "nothing", "exit",
              "fatal", "frame", "owner", "thread", "group", "source", "assign", "field"}
Words     == {"VM Started", "step", "local", "true", "false", "2", "value", "ParseException",
              "Name unknown"}
Who       == STRING \cup {""}
Lines ==
    {l \in [is : LineKinds, of : Nat, who : Who, id : 0 .. Len(plan.names),
            says : SUBSET Words, cmd : Nat] : l.is = "thread" => l.id # 0}

OwnArgs  == STRING \cup {"", "condition", "quoted"}
Parts    == {a \o s : a \in STRING, s \in {".size", ".length", ".get", ".index"}}
Args     == OwnArgs \cup Parts
JdbVerbs == {Verbs[op] : op \in DOMAIN Verbs} \cup {"print", "quit"}
Commands ==
    {k \in [verb : JdbVerbs, arg : Args, id : 0 .. Len(plan.names), n : Nat] :
        k.verb = "thread" => k.id # 0}

\* The verbs of commands that are answered by a stop.
Waited == {"run", "cont", "step", "next", "step up"}

\* A command that a client wants executed.
GoodCall(k) ==
    /\ DOMAIN k = {"verb", "arg", "id", "mode", "hint", "n", "since"}
    /\ k.verb \in JdbVerbs /\ k.arg \in Args /\ k.id \in 0 .. Len(plan.names)
    /\ k.mode \in {"Normal", "Blocking"}
    /\ k.mode = "Blocking" <=> k.verb \in Waited
    /\ k.verb = "thread" => k.id # 0
    /\ k.verb # "quit"
    /\ k.verb = "resume" => ~Calm
    /\ k.verb = "run" => plan.start = "launch"

Outside == {"none", "acquire", "acquire status", "done"}
Asking  == {"ask threads", "ask thread", "ask where"}
Listens == {"listen threads", "listen thread", "listen where"}
Inside  == {"read", "drain", "killing"} \cup Asking \cup Listens

HasId(r) == "id" \in DOMAIN r /\ r.id \in 0 .. Len(plan.names)

ExOK(e) ==
    /\ DOMAIN e = {"stage", "call", "out", "ret"}
    /\ e.stage \in Outside \cup Inside
    /\ e.stage \in {"acquire", "read", "drain"} => GoodCall(e.call)
    /\ HasId(e.ret)
    /\ e.stage = "ask thread" => e.ret.id # 0

ClOK(c, k) ==
    /\ DOMAIN k = {"ip", "at", "resp", "pre", "iter", "settling", "count"}
    /\ k.ip \in Nat \ {0}
    /\ k.iter \in 0 .. MaxIterations
    /\ k.at # "idle" => k.ip <= Len(plan.prog[c])

TargetTypes ==
    /\ plan \in Plans
    /\ vm \in {"unstarted", "running", "stopped", "gone"}
    /\ held \subseteq Hits /\ raised \in 0 .. Len(plan.hits) /\ cur \in 0 .. Len(plan.names)
    /\ late \in [when : {"none", "soon", "later", "stall"}, lines : Seq(Lines)]

PipeTypes ==
    /\ stdin \in Seq(Commands) /\ stdout \in Seq(Lines) /\ closed \in BOOLEAN
    /\ buf \in Seq(Lines) /\ patience \in BOOLEAN /\ eof \in BOOLEAN

ProcessTypes == TargetTypes /\ PipeTypes

SessionTypes ==
    /\ opening \in {"launch", "handshake", "extra1", "extra2", "extra3", "ready", "failed"}
    /\ inner \in Clients \cup {NoOne}
    /\ state \in RunStates
    /\ written \in Nat /\ misread \subseteq 1 .. written

ClientTypes ==
    /\ DOMAIN ex = Clients /\ DOMAIN cl = Clients
    /\ ex = [c \in Clients |-> ex[c]] /\ cl = [c \in Clients |-> cl[c]]
    /\ \A c \in Clients :
          /\ ExOK(ex[c]) /\ ClOK(c, cl[c])
          /\ ex[c].stage \in {"read", "drain"} => ex[c].call.n \in 1 .. written
          /\ ex[c].stage \in Inside => inner = c

TypeInv == ProcessTypes /\ SessionTypes /\ ClientTypes

\* What a plan is made of.
LEMMA PlanFacts ==
    ASSUME plan \in Plans
    PROVE  /\ plan.names \in Seq(STRING) /\ Len(plan.names) \in Nat
           /\ ThreadIds = 1 .. Len(plan.names)
           /\ \A t \in ThreadIds : Name(t) \in Who
           /\ Len(plan.hits) \in Nat
           /\ \A h \in Hits : /\ Hit(h).policy \in {"all", "thread", "jdk8"}
                              /\ Hit(h).kind \in {"Breakpoint", "Step", "Exception", "FieldWatch"}
                              /\ Hit(h).thread \in ThreadIds
                              /\ Hit(h).cond \in {"true", "false", "error"}
                              /\ Hit(h).late \in {"none", "soon", "later", "stall"}
  <1> DEFINE HitSet == [policy : {"all", "thread", "jdk8"},
                        kind : {"Breakpoint", "Step", "Exception", "FieldWatch"},
                        thread : DOMAIN plan.names, site : Sites,
                        cond : {"true", "false", "error"},
                        late : {"none", "soon", "later", "stall"}]
  <1>1. plan.names \in Seq(STRING) /\ plan.hits \in Seq(HitSet)
    BY PlansAssumption
  <1>2. /\ Len(plan.names) \in Nat /\ DOMAIN plan.names = 1 .. Len(plan.names)
        /\ \A t \in 1 .. Len(plan.names) : plan.names[t] \in STRING
    BY <1>1, LenProperties, ElementOfSeq
  <1> HIDE DEF HitSet
  <1>3. Len(plan.hits) \in Nat /\ \A h \in 1 .. Len(plan.hits) : plan.hits[h] \in HitSet
    BY <1>1, LenProperties, ElementOfSeq
  <1>4. \A h \in Hits : Hit(h) \in HitSet
    BY <1>3 DEF Hits, Hit
  <1> QED BY <1>1, <1>2, <1>3, <1>4 DEF ThreadIds, Name, HitSet, Who

LEMMA PlanLengths ==
    ASSUME plan \in Plans
    PROVE  Len(plan.names) \in Nat /\ Len(plan.hits) \in Nat
  BY PlanFacts

LEMMA NameType ==
    ASSUME plan \in Plans, NEW t \in ThreadIds
    PROVE  Name(t) \in Who
  BY PlanFacts, Zenon

LEMMA VerbsOf ==
    /\ DOMAIN Verbs = {"Run", "Cont", "Step", "Next", "StepOut", "BreakAt", "BreakIn", "Catch",
                       "Ignore", "Watch", "Unwatch", "Breakpoints", "Clear", "Classes",
                       "Methods", "Where", "WhereAll", "Locals", "Dump", "Eval", "Threads",
                       "Thread", "Frame", "ListSource", "Raw", "Suspend", "Resume", "Set",
                       "Lock", "ThreadLocks", "Kill"}
    /\ Verbs["Run"] = "run" /\ Verbs["Cont"] = "cont" /\ Verbs["Step"] = "step"
    /\ Verbs["Next"] = "next" /\ Verbs["StepOut"] = "step up" /\ Verbs["BreakAt"] = "stop at"
    /\ Verbs["BreakIn"] = "stop in" /\ Verbs["Catch"] = "catch" /\ Verbs["Ignore"] = "ignore"
    /\ Verbs["Watch"] = "watch" /\ Verbs["Unwatch"] = "unwatch" /\ Verbs["Breakpoints"] = "clear"
    /\ Verbs["Clear"] = "clear" /\ Verbs["Classes"] = "classes" /\ Verbs["Methods"] = "methods"
    /\ Verbs["Where"] = "where" /\ Verbs["WhereAll"] = "where all" /\ Verbs["Locals"] = "locals"
    /\ Verbs["Dump"] = "dump" /\ Verbs["Eval"] = "eval" /\ Verbs["Threads"] = "threads"
    /\ Verbs["Thread"] = "thread" /\ Verbs["Frame"] = "up" /\ Verbs["ListSource"] = "list"
    /\ Verbs["Raw"] = "raw" /\ Verbs["Suspend"] = "suspend" /\ Verbs["Resume"] = "resume"
    /\ Verbs["Set"] = "set" /\ Verbs["Lock"] = "lock" /\ Verbs["ThreadLocks"] = "threadlocks"
    /\ Verbs["Kill"] = "kill"
  BY DEF Verbs

LEMMA VerbTypes ==
    /\ \A op \in DOMAIN Verbs : Verbs[op] \in JdbVerbs
    /\ "print" \in JdbVerbs /\ "quit" \in JdbVerbs /\ "resume" \in JdbVerbs
    /\ "threads" \in JdbVerbs /\ "thread" \in JdbVerbs /\ "where" \in JdbVerbs
  <1>1. \A op \in DOMAIN Verbs : Verbs[op] \in JdbVerbs
    BY Zenon DEF JdbVerbs
  <1>2. "print" \in JdbVerbs /\ "quit" \in JdbVerbs
    BY Zenon DEF JdbVerbs
  <1>3. /\ Verbs["Resume"] \in JdbVerbs /\ Verbs["Threads"] \in JdbVerbs
        /\ Verbs["Thread"] \in JdbVerbs /\ Verbs["Where"] \in JdbVerbs
    BY <1>1, VerbsOf
  <1>4. /\ Verbs["Resume"] = "resume" /\ Verbs["Threads"] = "threads"
        /\ Verbs["Thread"] = "thread" /\ Verbs["Where"] = "where"
    BY VerbsOf
  <1> QED BY <1>1, <1>2, <1>3, <1>4, Zenon

LEMMA WaitedVerbs ==
    ASSUME NEW op \in DOMAIN Verbs
    PROVE  /\ op \in Blocking <=> Verbs[op] \in Waited
           /\ Verbs[op] # "quit"
           /\ Verbs[op] = "thread" => op = "Thread"
           /\ Verbs[op] = "resume" => op = "Resume"
           /\ Verbs[op] = "run" => op = "Run"
  <1>1. /\ Verbs["Run"] \in Waited /\ Verbs["Cont"] \in Waited /\ Verbs["Step"] \in Waited
        /\ Verbs["Next"] \in Waited /\ Verbs["StepOut"] \in Waited
    BY VerbsOf DEF Waited
  <1>2. op \in Blocking => Verbs[op] \in Waited
    BY <1>1 DEF Blocking
  <1>3. Verbs[op] # "quit" /\ (Verbs[op] = "thread" => op = "Thread")
    BY VerbsOf
  <1>4. (Verbs[op] = "resume" => op = "Resume") /\ (Verbs[op] = "run" => op = "Run")
    BY VerbsOf
  <1>5. (Verbs[op] = "cont" => op = "Cont") /\ (Verbs[op] = "step" => op = "Step")
    BY VerbsOf
  <1>6. (Verbs[op] = "next" => op = "Next") /\ (Verbs[op] = "step up" => op = "StepOut")
    BY VerbsOf
  <1>7. Verbs[op] \in Waited => op \in Blocking
    BY <1>4, <1>5, <1>6 DEF Waited, Blocking
  <1> QED BY <1>2, <1>3, <1>4, <1>7

LEMMA ArgTypes ==
    /\ "" \in Args /\ "condition" \in Args /\ "quoted" \in Args
    /\ \A a \in STRING : /\ a \in Args /\ a \o ".size" \in Args /\ a \o ".length" \in Args
                         /\ a \o ".get" \in Args /\ a \o ".index" \in Args
  <1>1. "" \in OwnArgs /\ "condition" \in OwnArgs /\ "quoted" \in OwnArgs
    BY DEF OwnArgs
  <1>2. \A a \in STRING : a \in OwnArgs
    BY DEF OwnArgs
  <1>3. ASSUME NEW a \in STRING
        PROVE  /\ a \o ".size" \in Parts /\ a \o ".length" \in Parts
               /\ a \o ".get" \in Parts /\ a \o ".index" \in Parts
    <2>1. a \o ".size" \in Parts
      BY DEF Parts
    <2>2. a \o ".length" \in Parts
      BY DEF Parts
    <2>3. a \o ".get" \in Parts
      BY DEF Parts
    <2>4. a \o ".index" \in Parts
      BY DEF Parts
    <2> QED BY <2>1, <2>2, <2>3, <2>4
  <1> QED BY <1>1, <1>2, <1>3, Zenon DEF Args

LEMMA LineType ==
    ASSUME NEW is \in LineKinds, NEW of \in Nat, NEW who \in Who,
           NEW id \in 0 .. Len(plan.names), NEW says \in SUBSET Words, NEW cmd \in Nat,
           is = "thread" => id # 0
    PROVE  Line(is, of, who, id, says, cmd) \in Lines
  BY DEF Line, Lines

\* Every kind but that of a thread's line, which has a number.
Plain == LineKinds \ {"thread"}

LEMMA PlainKinds ==
    /\ {"text", "bare", "prompt", "head", "loc", "exception", "watch", "nothing"} \subseteq Plain
    /\ {"exit", "fatal", "frame", "owner", "group", "source", "assign", "field"} \subseteq Plain
    /\ "" \in Who /\ {} \in SUBSET Words
  BY DEF Plain, LineKinds, Who

LEMMA PlainLine ==
    ASSUME plan \in Plans, NEW is \in Plain, NEW of \in Nat, NEW who \in Who,
           NEW says \in SUBSET Words, NEW cmd \in Nat
    PROVE  Line(is, of, who, 0, says, cmd) \in Lines
  <1>0. Len(plan.names) \in Nat
    BY PlanLengths
  <1>1. 0 \in 0 .. Len(plan.names)
    BY <1>0
  <1>2. is \in LineKinds /\ is # "thread"
    BY DEF Plain
  <1> QED BY <1>1, <1>2, LineType

LEMMA TextBareTypes ==
    ASSUME plan \in Plans, NEW words \in SUBSET Words, NEW n \in Nat
    PROVE  Text(words, n) \in Lines /\ Bare \in Lines
  <1>1. Line("text", 0, "", 0, words, n) \in Lines
    BY PlainKinds, PlainLine
  <1>2. Line("bare", 0, "", 0, {}, 0) \in Lines
    BY PlainKinds, PlainLine
  <1> QED BY <1>1, <1>2 DEF Text, Bare

LEMMA SeqOfOne ==
    ASSUME NEW S, NEW x \in S
    PROVE  <<x>> \in Seq(S)
  OBVIOUS

LEMMA SeqOfTwo ==
    ASSUME NEW S, NEW x \in S, NEW y \in S
    PROVE  <<x, y>> \in Seq(S)
  OBVIOUS

LEMMA HeldAtType ==
    ASSUME TargetTypes, NEW t
    PROVE  HeldAt(t) \in 0 .. Len(plan.hits) /\ (HeldAt(t) # 0 => HeldAt(t) \in held)
  <1> DEFINE hs == {h \in held : Hit(h).thread = t}
  <1>1. plan \in Plans /\ held \subseteq 1 .. Len(plan.hits)
    BY DEF TargetTypes, Hits
  <1>2. Len(plan.hits) \in Nat
    BY <1>1, PlanLengths
  <1>3. HeldAt(t) = IF hs = {} THEN 0 ELSE Least(hs)
    BY DEF HeldAt
  <1>4. hs \subseteq held
    OBVIOUS
  <1> HIDE DEF hs
  <1>5. hs \subseteq 1 .. Len(plan.hits) /\ hs \in SUBSET Nat
    BY <1>1, <1>2, <1>4
  <1>6. CASE hs = {}
    BY <1>2, <1>3, <1>6
  <1>7. CASE hs # {}
    <2>1. Least(hs) \in hs
      BY <1>5, <1>7, LeastNat, Zenon
    <2>2. HeldAt(t) = Least(hs)
      BY <1>3, <1>7, Zenon
    <2> HIDE DEF HeldAt
    <2>3. PICK x : x = HeldAt(t)
      OBVIOUS
    <2>4. x \in hs
      BY <2>1, <2>2, <2>3, Zenon
    <2>5. x \in 0 .. Len(plan.hits) /\ x \in held
      BY <1>2, <1>4, <1>5, <2>4
    <2> QED BY <2>3, <2>5, Zenon
  <1> QED BY <1>6, <1>7

LEMMA PlaceTypes ==
    ASSUME TargetTypes, NEW t
    PROVE  BreakpointOf(t) \in Nat /\ FrameOf(t) \in Nat \ {0}
  <1>1. HeldAt(t) \in Nat /\ Elsewhere \in Nat \ {0}
    BY HeldAtType, PlanFacts DEF Elsewhere, TargetTypes
  <1>2. BreakpointOf(t) \in {HeldAt(t), 0}
    BY Zenon DEF BreakpointOf
  <1>3. (FrameOf(t) = HeldAt(t) /\ HeldAt(t) # 0) \/ FrameOf(t) = Elsewhere
    BY Zenon DEF FrameOf
  <1> QED BY <1>1, <1>2, <1>3

LEMMA PromptType ==
    ASSUME TargetTypes
    PROVE  Prompt \in Lines
  <1>1. Bare \in Lines /\ Len(plan.names) \in Nat
    BY TextBareTypes, PlanFacts, PlainKinds DEF TargetTypes
  <1>2. CASE cur = 0
    BY <1>1, <1>2 DEF Prompt
  <1>3. CASE cur # 0
    <2>1. cur \in ThreadIds /\ Name(cur) \in Who
      BY <1>3, PlanFacts DEF TargetTypes
    <2>2. Line("prompt", 0, Name(cur), 0, {}, 0) \in Lines
      BY <2>1, PlainLine, PlainKinds DEF TargetTypes
    <2> QED BY <2>2, <1>3 DEF Prompt
  <1> QED BY <1>2, <1>3

\* What the command thread prints is made of lines.
LEMMA AnswerTypes ==
    ASSUME TargetTypes, NEW verb, NEW arg, NEW n \in Nat
    PROVE  Answer(verb, arg, n) \in Seq(Lines)
  <1> DEFINE here    == IF cur # 0 /\ Suspended(cur) THEN FrameOf(cur) ELSE 0
             L(is, of, says) == Line(is, of, "", 0, says, n)
             dots    == [t \in ThreadIds |-> Line("thread", BreakpointOf(t), Name(t), t, {}, n)]
             value   == CASE arg = "condition" /\ here \in Hits /\ Hit(here).cond \in {"true", "false"}
                               -> <<L("assign", 0, {Hit(here).cond})>>
                          [] arg \in {"list.size", "list.get", "array.length", "array.index"}
                               -> <<L("assign", 0, {"2"})>>
                          [] arg = "value" -> <<L("assign", 0, {"value"})>>
                          [] OTHER -> <<L("text", 0, {"ParseException"})>>
  <1>0. plan \in Plans /\ Len(plan.names) \in Nat
    BY PlanLengths DEF TargetTypes
  <1>1. \/ Answer(verb, arg, n) = <<L("group", 0, {})>> \o dots
        \/ Answer(verb, arg, n) =
             (IF verb = "where all" THEN <<L("owner", 0, {})>> ELSE <<>>) \o <<L("frame", here, {})>>
        \/ Answer(verb, arg, n) = <<L("assign", 0, {"local"})>>
        \/ Answer(verb, arg, n) = value
        \/ Answer(verb, arg, n) = <<L("assign", 0, {}), L("field", 0, {})>>
        \/ Answer(verb, arg, n) = <<L("source", 0, {})>>
        \/ Answer(verb, arg, n) = <<L("text", 0, {"Name unknown"})>>
        \/ Answer(verb, arg, n) = <<L("text", 0, {})>>
    BY Zenon DEF Answer
  <1>2. \/ /\ Hit(here).cond \in {"true", "false"}
           /\ value = <<L("assign", 0, {Hit(here).cond})>>
        \/ value = <<L("assign", 0, {"2"})>> \/ value = <<L("assign", 0, {"value"})>>
        \/ value = <<L("text", 0, {"ParseException"})>>
    BY Zenon
  <1>3. here \in Nat
    <2>1. FrameOf(cur) \in Nat
      BY PlaceTypes
    <2>2. here = FrameOf(cur) \/ here = 0
      BY Zenon
    <2> QED BY <2>1, <2>2
  <1>4. \A is \in Plain : \A of \in Nat : \A says \in SUBSET Words : L(is, of, says) \in Lines
    BY <1>0, PlainLine, PlainKinds
  <1>5. dots \in [1 .. Len(plan.names) -> Lines]
    <2>1. ThreadIds = 1 .. Len(plan.names)
      BY DEF ThreadIds
    <2>2. ASSUME NEW t \in ThreadIds PROVE Line("thread", BreakpointOf(t), Name(t), t, {}, n) \in Lines
      <3>1. BreakpointOf(t) \in Nat
        BY PlaceTypes
      <3>2. "thread" \in LineKinds
        BY DEF LineKinds
      <3>3. t \in 0 .. Len(plan.names) /\ t # 0
        BY <2>1, <2>2, <1>0
      <3>4. Name(t) \in Who
        BY <1>0, <2>2, NameType
      <3>5. {} \in SUBSET Words
        OBVIOUS
      <3> QED BY <3>1, <3>2, <3>3, <3>4, <3>5, LineType
    <2> QED BY <2>1, <2>2
  <1> HIDE DEF here, L, dots, value
  <1>6. dots \in Seq(Lines)
    BY <1>0, <1>5, SeqDef, Zenon
  <1>7. /\ {{"local"}, {"Name unknown"}, {"2"}, {"value"}, {"ParseException"}} \subseteq SUBSET Words
        /\ {{"true"}, {"false"}} \subseteq SUBSET Words
    BY DEF Words
  <1>8. /\ L("assign", 0, {"local"}) \in Lines /\ L("assign", 0, {}) \in Lines
        /\ L("field", 0, {}) \in Lines /\ L("source", 0, {}) \in Lines
        /\ L("text", 0, {"Name unknown"}) \in Lines /\ L("text", 0, {}) \in Lines
        /\ L("assign", 0, {"2"}) \in Lines /\ L("assign", 0, {"value"}) \in Lines
        /\ L("text", 0, {"ParseException"}) \in Lines /\ L("group", 0, {}) \in Lines
        /\ L("owner", 0, {}) \in Lines /\ L("frame", here, {}) \in Lines
    BY <1>3, <1>4, <1>7, PlainKinds
  <1>9. value \in Seq(Lines)
    <2>1. CASE /\ Hit(here).cond \in {"true", "false"}
               /\ value = <<L("assign", 0, {Hit(here).cond})>>
      <3>1. L("assign", 0, {Hit(here).cond}) \in Lines
        BY <1>4, <1>7, <2>1, PlainKinds
      <3> QED BY <2>1, <3>1, SeqOfOne, Zenon
    <2> QED BY <1>2, <1>8, <2>1, SeqOfOne, Zenon
  <1>10. <<L("group", 0, {})>> \o dots \in Seq(Lines)
    <2>1. <<L("group", 0, {})>> \in Seq(Lines)
      BY <1>8, SeqOfOne, Zenon
    <2> QED BY <1>6, <2>1, ConcatProperties, Zenon
  <1>11. (IF verb = "where all" THEN <<L("owner", 0, {})>> ELSE <<>>) \o <<L("frame", here, {})>> \in Seq(Lines)
    <2>1. <<L("frame", here, {})>> \in Seq(Lines) /\ <<L("owner", 0, {})>> \in Seq(Lines) /\ <<>> \in Seq(Lines)
      BY <1>8, SeqOfOne, EmptySeq, Zenon
    <2>2. (IF verb = "where all" THEN <<L("owner", 0, {})>> ELSE <<>>) \in Seq(Lines)
      BY <2>1, Zenon
    <2> QED BY <2>1, <2>2, ConcatProperties, Zenon
  <1>12. /\ <<L("assign", 0, {"local"})>> \in Seq(Lines) /\ <<L("source", 0, {})>> \in Seq(Lines)
         /\ <<L("text", 0, {"Name unknown"})>> \in Seq(Lines) /\ <<L("text", 0, {})>> \in Seq(Lines)
         /\ <<L("assign", 0, {}), L("field", 0, {})>> \in Seq(Lines)
    BY <1>8, SeqOfOne, SeqOfTwo, Zenon
  <1> QED BY <1>1, <1>9, <1>10, <1>11, <1>12, Zenon

LEMMA SamePlan ==
    ASSUME plan' = plan
    PROVE  Lines' = Lines /\ Commands' = Commands /\ Hits' = Hits
  BY DEF Lines, Commands, Hits

LEMMA EmitTypes ==
    ASSUME stdout \in Seq(Lines), NEW lines \in Seq(Lines), Emit(lines)
    PROVE  stdout' \in Seq(Lines)
  BY ConcatProperties DEF Emit

LateTypes == [when : {"none", "soon", "later", "stall"}, lines : Seq(Lines)]

\* What the banner thread prints is made of lines.
LEMMA BannerTypes ==
    ASSUME TargetTypes, NEW h \in Hits
    PROVE  /\ Banner(h) \in Seq(Lines) /\ Banner(h) # <<>>
           /\ Banner(h)[1] \in Lines
           /\ Line("prompt", 0, Name(Hit(h).thread), 0, {}, 0) \in Lines
  <1> DEFINE name == Name(Hit(h).thread)
             says == IF Hit(h).kind = "Step" THEN {"step"} ELSE {}
  <1>0. plan \in Plans
    BY DEF TargetTypes
  <1>1. name \in Who /\ h \in Nat /\ 0 \in Nat
    <2>1. Hit(h).thread \in ThreadIds
      BY <1>0, PlanFacts
    <2> QED BY <1>0, <2>1, NameType DEF Hits
  <1>2. says \in SUBSET Words
    BY DEF Words
  <1>3. \/ Banner(h) = <<Line("exception", h, "", 0, {}, 0)>>
        \/ Banner(h) = <<Line("watch", h, name, 0, {}, 0)>>
        \/ Banner(h) = <<Line("head", h, "", 0, says, 0), Line("loc", h, name, 0, {}, 0)>>
    BY Zenon DEF Banner
  <1> HIDE DEF name, says
  <1>4. /\ Line("exception", h, "", 0, {}, 0) \in Lines
        /\ Line("watch", h, name, 0, {}, 0) \in Lines
        /\ Line("head", h, "", 0, says, 0) \in Lines
        /\ Line("loc", h, name, 0, {}, 0) \in Lines
        /\ Line("prompt", 0, name, 0, {}, 0) \in Lines
    BY <1>0, <1>1, <1>2, PlainLine, PlainKinds
  <1>5. ASSUME NEW x \in Lines, NEW y \in Lines, Banner(h) = <<x>> \/ Banner(h) = <<x, y>>
        PROVE  Banner(h) \in Seq(Lines) /\ Banner(h) # <<>> /\ Banner(h)[1] \in Lines
    <2>1. Banner(h) \in Seq(Lines)
      BY <1>5, SeqOfOne, SeqOfTwo, Zenon
    <2>2. /\ <<x>> # <<>> /\ <<x, y>> # <<>> /\ <<x>>[1] = x /\ <<x, y>>[1] = x
      OBVIOUS
    <2> QED BY <1>5, <2>1, <2>2, Zenon
  <1>6. Banner(h) \in Seq(Lines) /\ Banner(h) # <<>> /\ Banner(h)[1] \in Lines
    BY <1>3, <1>4, <1>5, Zenon
  <1> QED BY <1>4, <1>6 DEF name

LEMMA TargetHitsTypes ==
    ASSUME ProcessTypes, TargetHits
    PROVE  ProcessTypes'
  <1> DEFINE h      == raised + 1
             all    == Hit(h).policy = "all"
             prompt == IF all THEN Line("prompt", 0, Name(Hit(h).thread), 0, {}, 0) ELSE Bare
             whole  == Append(Banner(h), prompt)
  <1>0. TargetTypes /\ PipeTypes /\ plan \in Plans
    BY DEF ProcessTypes, TargetTypes
  <1>1. h \in Hits /\ h \in 0 .. Len(plan.hits)
    <2>1. Len(plan.hits) \in Nat
      BY <1>0, PlanLengths
    <2> QED BY <1>0, <2>1 DEF TargetHits, Hits, TargetTypes
  <1>2. Hit(h).thread \in 0 .. Len(plan.names)
    <2>1. Hit(h).thread \in ThreadIds
      BY <1>0, <1>1, PlanFacts
    <2>2. Len(plan.names) \in Nat
      BY <1>0, PlanLengths
    <2> QED BY <2>1, <2>2 DEF ThreadIds
  <1>3. prompt \in Lines
    <2>1. Bare \in Lines /\ Line("prompt", 0, Name(Hit(h).thread), 0, {}, 0) \in Lines
      BY <1>0, <1>1, BannerTypes, TextBareTypes, PlainKinds
    <2> QED BY <2>1, Zenon
  <1>4. \/ Emit(<<Banner(h)[1]>>) /\ late' = NoneLate
        \/ Emit(<<Banner(h)[1]>>) /\ late' = [when |-> "stall", lines |-> Tail(whole)]
        \/ Emit(whole) /\ late' = [when |-> "soon", lines |-> <<Text({}, 0), prompt>>]
        \/ Emit(whole) /\ late' = [when |-> "later", lines |-> <<Bare>>]
        \/ Emit(whole) /\ late' = NoneLate
    BY Zenon DEF TargetHits
  <1>5. /\ raised' = h /\ held' = held \cup {h}
        /\ vm' = "stopped" \/ vm' = "running"
        /\ cur' = Hit(h).thread \/ cur' = cur
        /\ plan' = plan /\ stdin' = stdin /\ closed' = closed
        /\ buf' = buf /\ patience' = patience /\ eof' = eof
    BY DEF TargetHits, readerVars
  <1> HIDE DEF h, all, prompt
  <1>6. Banner(h) \in Seq(Lines) /\ Banner(h)[1] \in Lines
    BY <1>0, <1>1, BannerTypes
  <1>7. whole \in Seq(Lines) /\ whole # <<>>
    BY <1>3, <1>6, AppendProperties
  <1> HIDE DEF whole
  <1>8. Tail(whole) \in Seq(Lines) /\ <<Banner(h)[1]>> \in Seq(Lines)
    BY <1>6, <1>7, HeadTailProperties, SeqOfOne
  <1>9. /\ <<Text({}, 0), prompt>> \in Seq(Lines) /\ <<Bare>> \in Seq(Lines) /\ <<>> \in Seq(Lines)
    <2>1. Text({}, 0) \in Lines /\ Bare \in Lines
      BY <1>0, TextBareTypes, PlainKinds
    <2> QED BY <1>3, <2>1, SeqOfOne, SeqOfTwo, EmptySeq, Zenon
  <1>10. stdout' \in Seq(Lines)
    <2>1. stdout \in Seq(Lines)
      BY <1>0 DEF PipeTypes
    <2> QED BY <1>4, <1>7, <1>8, <2>1, EmitTypes, Zenon
  <1>11. late' \in LateTypes
    <2>1. \A q \in Seq(Lines) : /\ [when |-> "none", lines |-> q] \in LateTypes
                                /\ [when |-> "soon", lines |-> q] \in LateTypes
                                /\ [when |-> "later", lines |-> q] \in LateTypes
                                /\ [when |-> "stall", lines |-> q] \in LateTypes
      BY DEF LateTypes
    <2> QED BY <1>4, <1>8, <1>9, <2>1, Zenon DEF NoneLate
  <1>12. TargetTypes'
    <2>1. held' \subseteq Hits /\ cur' \in 0 .. Len(plan.names)
      BY <1>0, <1>1, <1>2, <1>5 DEF TargetTypes
    <2> QED BY <1>0, <1>1, <1>5, <1>11, <2>1, SamePlan DEF TargetTypes, LateTypes
  <1>13. PipeTypes'
    BY <1>0, <1>5, <1>10, SamePlan DEF PipeTypes
  <1> QED BY <1>12, <1>13 DEF ProcessTypes

\* The end of the target, or of jdb.
LEMMA EndTypes ==
    ASSUME ProcessTypes, TargetEnds \/ LateOutput
    PROVE  ProcessTypes'
  <1>0. TargetTypes /\ PipeTypes /\ plan \in Plans /\ Len(plan.names) \in Nat
    BY PlanLengths DEF ProcessTypes, TargetTypes
  <1>1. CASE TargetEnds
    <2>1. \/ Emit(<<Line("exit", 0, "", 0, {}, 0)>>)
          \/ Emit(<<Line("fatal", 0, "", 0, {}, 0)>>) \/ Emit(<<>>)
      BY <1>1, Zenon DEF TargetEnds
    <2>2. Line("exit", 0, "", 0, {}, 0) \in Lines /\ Line("fatal", 0, "", 0, {}, 0) \in Lines
      BY <1>0, PlainLine, PlainKinds
    <2>3. stdout \in Seq(Lines)
      BY <1>0 DEF PipeTypes
    <2>4. stdout' \in Seq(Lines)
      BY <2>1, <2>2, <2>3, EmitTypes, SeqOfOne, EmptySeq, Zenon
    <2>5. /\ vm' = "gone" /\ held' = {} /\ cur' = 0 /\ closed' = TRUE /\ stdin' = <<>>
          /\ plan' = plan /\ raised' = raised /\ late' = late
          /\ buf' = buf /\ patience' = patience /\ eof' = eof
      BY <1>1 DEF TargetEnds, readerVars
    <2>6. TargetTypes'
      BY <1>0, <2>5, SamePlan DEF TargetTypes
    <2>7. PipeTypes'
      BY <1>0, <2>4, <2>5, SamePlan, EmptySeq DEF PipeTypes
    <2> QED BY <2>6, <2>7 DEF ProcessTypes
  <1>2. CASE LateOutput
    <2>1. late.lines \in Seq(Lines) /\ stdout \in Seq(Lines) /\ Emit(late.lines)
      BY <1>0, <1>2 DEF TargetTypes, PipeTypes, LateOutput
    <2>2. stdout' \in Seq(Lines)
      BY <2>1, EmitTypes
    <2>3. /\ vm' = vm /\ held' = held /\ cur' = cur /\ closed' = closed /\ stdin' = stdin
          /\ plan' = plan /\ raised' = raised /\ late' = NoneLate
          /\ buf' = buf /\ patience' = patience /\ eof' = eof
      BY <1>2 DEF LateOutput, readerVars
    <2>4. NoneLate \in [when : {"none", "soon", "later", "stall"}, lines : Seq(Lines)]
      BY EmptySeq DEF NoneLate
    <2>5. TargetTypes'
      BY <1>0, <2>3, <2>4, SamePlan DEF TargetTypes
    <2>6. PipeTypes'
      BY <1>0, <2>2, <2>3, SamePlan DEF PipeTypes
    <2> QED BY <2>5, <2>6 DEF ProcessTypes
  <1> QED BY <1>1, <1>2

\* One command read and answered by jdb.
LEMMA JdbExecutesTypes ==
    ASSUME ProcessTypes, JdbExecutes
    PROVE  ProcessTypes'
  <1> DEFINE c == Head(stdin)
  <1>0. TargetTypes /\ PipeTypes /\ plan \in Plans /\ Len(plan.names) \in Nat
    BY PlanLengths DEF ProcessTypes, TargetTypes
  <1>1. c \in Commands /\ Tail(stdin) \in Seq(Commands) /\ <<>> \in Seq(Commands)
    <2>1. stdin \in Seq(Commands) /\ stdin # <<>>
      BY <1>0 DEF PipeTypes, JdbExecutes
    <2> QED BY <2>1, HeadTailProperties, EmptySeq
  <1>2. c.n \in Nat /\ c.id \in 0 .. Len(plan.names) /\ (c.verb = "thread" => c.id # 0)
    BY <1>1 DEF Commands
  <1>3. stdin' = <<>> \/ stdin' = Tail(stdin)
    BY Zenon DEF JdbExecutes
  <1>4. \/ JdbExits
        \/ JdbResumes(<<Bare>>) \/ JdbResumes(<<>>) \/ JdbResumes(<<Text({}, c.n), Bare>>)
        \/ JdbAnswers(<<Text({}, c.n), Prompt>>) /\ UNCHANGED cur
        \/ JdbAnswers(<<Text({}, c.n), Bare>>) /\ UNCHANGED cur
        \/ JdbAnswers(<<Line("nothing", 0, "", 0, {}, c.n), Bare>>) /\ UNCHANGED cur
        \/ /\ c.verb = "thread" /\ cur' = c.id
           /\ JdbAnswers(<<Text({}, c.n), Line("prompt", 0, Name(c.id), 0, {}, 0)>>)
        \/ JdbAnswers(Append(Answer(c.verb, c.arg, c.n), Prompt)) /\ UNCHANGED cur
    BY Zenon DEF JdbExecutes
  <1>5. /\ plan' = plan /\ raised' = raised /\ late' = late
        /\ buf' = buf /\ patience' = patience /\ eof' = eof
    BY DEF JdbExecutes, readerVars
  <1> HIDE DEF c
  <1>6. Text({}, c.n) \in Lines /\ Bare \in Lines /\ Prompt \in Lines
    BY <1>0, <1>2, TextBareTypes, PromptType, PlainKinds
  <1>7. Line("nothing", 0, "", 0, {}, c.n) \in Lines
    BY <1>0, <1>2, PlainLine, PlainKinds
  <1>8. ASSUME c.verb = "thread" PROVE Line("prompt", 0, Name(c.id), 0, {}, 0) \in Lines
    <2>1. c.id \in ThreadIds
      BY <1>2, <1>0, <1>8 DEF ThreadIds
    <2>2. Name(c.id) \in Who
      BY <1>0, <2>1, NameType
    <2> QED BY <1>0, <2>2, PlainLine, PlainKinds
  <1>9. Append(Answer(c.verb, c.arg, c.n), Prompt) \in Seq(Lines)
    BY <1>0, <1>2, <1>6, AnswerTypes, AppendProperties
  <1>10. \/ JdbExits
         \/ \E lines \in Seq(Lines) : JdbResumes(lines)
         \/ \E lines \in Seq(Lines) : JdbAnswers(lines) /\ cur' \in {cur, c.id}
    <2>1. /\ <<Bare>> \in Seq(Lines) /\ <<>> \in Seq(Lines)
          /\ <<Text({}, c.n), Bare>> \in Seq(Lines)
          /\ <<Text({}, c.n), Prompt>> \in Seq(Lines)
          /\ <<Line("nothing", 0, "", 0, {}, c.n), Bare>> \in Seq(Lines)
          /\ c.verb = "thread" => <<Text({}, c.n), Line("prompt", 0, Name(c.id), 0, {}, 0)>> \in Seq(Lines)
      BY <1>6, <1>7, <1>8, SeqOfOne, SeqOfTwo, EmptySeq, Zenon
    <2>2. cur \in {cur, c.id} /\ c.id \in {cur, c.id}
      OBVIOUS
    <2> QED BY <1>4, <1>9, <2>1, <2>2, Zenon
  <1>11. stdout \in Seq(Lines)
    BY <1>0 DEF PipeTypes
  <1>12. /\ stdout' \in Seq(Lines) /\ closed' \in BOOLEAN
         /\ vm' \in {"running", "gone", vm} /\ held' \in {held, {}} /\ cur' \in {0, cur, c.id}
    <2>1. CASE JdbExits
      BY <1>11, <2>1 DEF JdbExits
    <2>2. CASE \E lines \in Seq(Lines) : JdbResumes(lines)
      BY <1>0, <1>11, <2>2, EmitTypes DEF JdbResumes, PipeTypes
    <2>3. CASE \E lines \in Seq(Lines) : JdbAnswers(lines) /\ cur' \in {cur, c.id}
      BY <1>0, <1>11, <2>3, EmitTypes DEF JdbAnswers, PipeTypes
    <2> QED BY <1>10, <2>1, <2>2, <2>3
  <1>13. TargetTypes'
    BY <1>0, <1>2, <1>5, <1>12, SamePlan DEF TargetTypes
  <1>14. PipeTypes'
    <2>1. stdin' \in Seq(Commands)
      BY <1>1, <1>3
    <2> QED BY <1>0, <1>5, <1>12, <2>1, SamePlan DEF PipeTypes
  <1> QED BY <1>13, <1>14 DEF ProcessTypes

LEMMA JdbStepTypes ==
    ASSUME ProcessTypes, JdbStep
    PROVE  ProcessTypes' /\ plan' = plan
  <1>1. ProcessTypes'
    BY TargetHitsTypes, EndTypes, JdbExecutesTypes DEF JdbStep
  <1>2. plan' = plan
    BY DEF JdbStep, TargetHits, LateOutput, TargetEnds, JdbExecutes
  <1> QED BY <1>1, <1>2

-----------------------------------------------------------------------------
(* The reader moves text about, and returns what it has read.              *)

LEMMA ChunkTypes ==
    ASSUME stdout \in Seq(Lines), buf \in Seq(Lines), NEW n \in 1 .. Len(stdout)
    PROVE  /\ SubSeq(stdout, 1, n) \in Seq(Lines)
           /\ SubSeq(stdout, n + 1, Len(stdout)) \in Seq(Lines)
           /\ buf \o SubSeq(stdout, 1, n) \in Seq(Lines)
  <1>1. Len(stdout) \in Nat /\ \A k \in 1 .. Len(stdout) : stdout[k] \in Lines
    BY LenProperties, ElementOfSeq
  <1>2. 1 \in Int /\ n \in Int /\ \A k \in 1 .. n : stdout[k] \in Lines
    BY <1>1
  <1>3. n + 1 \in Int /\ Len(stdout) \in Int /\ \A k \in (n + 1) .. Len(stdout) : stdout[k] \in Lines
    BY <1>1
  <1>4. SubSeq(stdout, 1, n) \in Seq(Lines)
    BY <1>2, SubSeqProperties
  <1>5. SubSeq(stdout, n + 1, Len(stdout)) \in Seq(Lines)
    BY <1>3, SubSeqProperties
  <1> QED BY <1>4, <1>5, ConcatProperties

LEMMA ReadTypes ==
    ASSUME PipeTypes, plan' = plan, NEW mode, NEW o,
           ReadContinues(mode) \/ ReadReturns(mode, o)
    PROVE  PipeTypes'
  <1>1. CASE ReadPatience(mode)
    BY <1>1, SamePlan DEF ReadPatience, PipeTypes, pipeVars
  <1>2. CASE ReadChunk(mode)
    <2>1. PICK n \in 1 .. Len(stdout) :
            /\ buf' = buf \o SubSeq(stdout, 1, n)
            /\ stdout' = SubSeq(stdout, n + 1, Len(stdout))
      BY <1>2 DEF ReadChunk
    <2>2. buf' \in Seq(Lines) /\ stdout' \in Seq(Lines)
      BY <2>1, ChunkTypes DEF PipeTypes
    <2> QED BY <1>2, <2>2, SamePlan DEF ReadChunk, PipeTypes
  <1>3. CASE ReadClosed(mode)
    BY <1>3, SamePlan DEF ReadClosed, PipeTypes, pipeVars
  <1>4. CASE ReadReturns(mode, o)
    <2>1. /\ buf' = <<>> /\ stdin' = stdin /\ stdout' = stdout /\ closed' = closed /\ eof' = eof
          /\ patience' = patience \/ patience' = FALSE
      BY <1>4 DEF ReadReturns, ReadMatches, emit_partial_stop, ReadEof, ReadTimeout, take_text,
                  pipeVars
    <2> QED BY <2>1, SamePlan, EmptySeq DEF PipeTypes
  <1> QED BY <1>1, <1>2, <1>3, <1>4 DEF ReadContinues

LEMMA DrainTypes ==
    ASSUME PipeTypes, plan' = plan, DrainTakes \/ DrainEnds
    PROVE  PipeTypes'
  <1>1. CASE DrainTakes
    <2>1. buf \o stdout \in Seq(Lines)
      BY ConcatProperties DEF PipeTypes
    <2> QED BY <1>1, <2>1, SamePlan, EmptySeq DEF PipeTypes, DrainTakes
  <1>2. CASE DrainEnds
    BY <1>2, SamePlan, EmptySeq DEF PipeTypes, DrainEnds, take_text, pipeVars
  <1> QED BY <1>1, <1>2

LEMMA OutcomeText ==
    ASSUME buf \in Seq(Lines), NEW mode, NEW o \in ReadOutcomes(mode)
    PROVE  o.output \in Seq(Lines)
  <1>1. \/ o = try_match(buf, mode) \/ o = Outcome("Eof", buf, NoStop)
        \/ o = Outcome("Timeout", buf, NoStop)
        \/ buf # <<>> /\ o = PartialStop(Last(buf), Front(buf))
    BY Zenon DEF ReadOutcomes
  <1>2. \/ try_match(buf, mode) = Outcome("Fatal", <<>>, NoStop)
        \/ try_match(buf, mode) = Outcome("VmExit", buf, NoStop)
        \/ /\ buf # <<>>
           /\ \/ try_match(buf, mode) =
                   Outcome("Prompt", Front(buf), detect_event(Front(buf), Last(buf).who))
              \/ try_match(buf, mode) = PartialStop(buf[Least(FullBanners(buf))], Front(buf))
              \/ try_match(buf, mode) = Outcome("Prompt", Front(buf), NoStop)
        \/ try_match(buf, mode) = NoOutcome
    BY Zenon DEF try_match, EndsWith
  <1>3. /\ \A k, t, e : Outcome(k, t, e).output = t
        /\ \A h, t : PartialStop(h, t).output = t
        /\ NoOutcome.output = <<>>
    BY DEF Outcome, PartialStop, NoOutcome
  <1>4. buf # <<>> => Front(buf) \in Seq(Lines)
    BY FrontLast
  <1>5. <<>> \in Seq(Lines)
    BY EmptySeq
  <1>6. \/ try_match(buf, mode).output \in {buf, <<>>}
        \/ buf # <<>> /\ try_match(buf, mode).output = Front(buf)
    BY <1>2, <1>3
  <1>7. \/ o.output \in {buf, <<>>, try_match(buf, mode).output}
        \/ buf # <<>> /\ o.output = Front(buf)
    BY <1>1, <1>3
  <1> QED BY <1>4, <1>5, <1>6, <1>7

-----------------------------------------------------------------------------
(* The session.  Each action changes one client's place in execute.        *)

\* A plan does not change, and with it what a good entry is.
LEMMA SameCalm ==
    ASSUME plan' = plan
    PROVE  Calm' = Calm
  BY DEF Calm, Hits, Hit

LEMMA NewEntry ==
    ASSUME plan' = plan, NEW c, NEW e, ExOK(e), ex'[c] = e
    PROVE  ExOK(ex[c])'
  <1>1. HasId(ex[c].ret)'
    BY DEF ExOK, HasId
  <1>2. ASSUME GoodCall(e.call) PROVE GoodCall(ex[c].call)'
    BY <1>2, SameCalm DEF GoodCall
  <1>3. GoodCall(e.call) => GoodCall(ex[c].call)'
    BY <1>2
  <1> QED BY <1>1, <1>3 DEF ExOK

LEMMA SameEntry ==
    ASSUME plan' = plan, NEW c, ExOK(ex[c]), ex'[c] = ex[c]
    PROVE  ExOK(ex[c])'
  <1>1. PICK e : e = ex[c]
    OBVIOUS
  <1>2. ExOK(e)
    BY <1>1
  <1>3. ex'[c] = e
    BY <1>1
  <1> QED BY <1>2, <1>3, NewEntry

LEMMA SameRequest ==
    ASSUME plan' = plan, NEW c, NEW k, ClOK(c, k), cl'[c] = k
    PROVE  ClOK(c, cl[c])'
  BY DEF ClOK

\* Client c goes on with entry e and place k; the others stay.
LEMMA ClientMoves ==
    ASSUME ClientTypes, SessionTypes, plan' = plan, NEW c \in Clients, NEW e, NEW k,
           ex' = [ex EXCEPT ![c] = e], cl' = [cl EXCEPT ![c] = k],
           ExOK(e), ClOK(c, k), written' \in Nat, written' >= written,
           e.stage \in {"read", "drain"} => e.call.n \in 1 .. written',
           e.stage \in Inside => inner' = c,
           inner' = inner \/ inner = NoOne \/ inner = c
    PROVE  ClientTypes'
  <1>1. DOMAIN ex' = Clients /\ DOMAIN cl' = Clients
    BY DEF ClientTypes
  <1>2. ex' = [d \in Clients |-> ex'[d]] /\ cl' = [d \in Clients |-> cl'[d]]
    BY DEF ClientTypes
  <1>3. ASSUME NEW d \in Clients
        PROVE  /\ ExOK(ex[d])' /\ ClOK(d, cl[d])'
               /\ ex'[d].stage \in {"read", "drain"} => ex'[d].call.n \in 1 .. written'
               /\ ex'[d].stage \in Inside => inner' = d
    <2>1. CASE d = c
      <3>1. ex'[d] = e /\ cl'[d] = k
        BY <2>1 DEF ClientTypes
      <3>2. ExOK(ex[d])'
        BY <3>1, NewEntry
      <3>3. ClOK(d, cl[d])'
        BY <2>1, <3>1, SameRequest
      <3> QED BY <2>1, <3>1, <3>2, <3>3
    <2>2. CASE d # c
      <3>1. ex'[d] = ex[d] /\ cl'[d] = cl[d] /\ ExOK(ex[d]) /\ ClOK(d, cl[d])
        BY <2>2 DEF ClientTypes
      <3>2. ExOK(ex[d])'
        BY <3>1, SameEntry
      <3>3. ClOK(d, cl[d])'
        BY <3>1, SameRequest
      <3>4. ex'[d].stage \in {"read", "drain"} => ex'[d].call.n \in 1 .. written'
        BY <3>1 DEF ClientTypes, SessionTypes
      <3>5. ex'[d].stage \in Inside => inner' = d
        BY <2>2, <3>1, ClientsAssumption DEF ClientTypes
      <3> QED BY <3>2, <3>3, <3>4, <3>5
    <2> QED BY <2>1, <2>2
  <1> QED BY <1>1, <1>2, <1>3, Zenon DEF ClientTypes

LEMMA ClientsStay ==
    ASSUME ClientTypes, SessionTypes, plan' = plan, ex' = ex, cl' = cl, inner' = inner,
           written' = written
    PROVE  ClientTypes'
  <1>1. ASSUME NEW d \in Clients PROVE ExOK(ex[d])' /\ ClOK(d, cl[d])'
    BY SameEntry, SameRequest DEF ClientTypes
  <1> QED BY <1>1 DEF ClientTypes

LEMMA ClientExecutes ==
    ASSUME ClientTypes, SessionTypes, plan' = plan, NEW c \in Clients, NEW e,
           ex' = [ex EXCEPT ![c] = e], cl' = cl,
           ExOK(e), written' \in Nat, written' >= written,
           e.stage \in {"read", "drain"} => e.call.n \in 1 .. written',
           e.stage \in Inside => inner' = c,
           inner' = inner \/ inner = NoOne \/ inner = c
    PROVE  ClientTypes'
  <1>1. cl' = [cl EXCEPT ![c] = cl[c]] /\ ClOK(c, cl[c])
    BY DEF ClientTypes
  <1> QED BY <1>1, ClientMoves

LEMMA TargetStays ==
    ASSUME TargetTypes, UNCHANGED targetVars
    PROVE  TargetTypes' /\ plan' = plan
  <1>1. /\ plan' = plan /\ vm' = vm /\ held' = held /\ cur' = cur /\ raised' = raised
        /\ late' = late
    BY DEF targetVars
  <1> QED BY <1>1, SamePlan DEF TargetTypes

\* Kinds of the records an answer is parsed into.
ParsedKinds ==
    {"Raw", "StackTrace", "ThreadStackTrace", "Locals", "Value", "ObjectDump", "Threads", "Source",
     "BreakpointSet", "WatchSet", "Breakpoints", "Classes", "Methods"}

LEMMA ResponseFields ==
    ASSUME NEW kind, NEW items
    PROVE  /\ Response(kind, items).kind = kind /\ Response(kind, items).items = items
           /\ Response(kind, items).id = 0 /\ "id" \in DOMAIN Response(kind, items)
           /\ Response(kind, items).at = 0 /\ Response(kind, items).thread = ""
  BY DEF Response

IsParsed(r) == \E k \in ParsedKinds : \E items : r = Response(k, items)

LEMMA ParsedResponse ==
    ASSUME NEW kind \in ParsedKinds, NEW items, NEW out
    PROVE  IsParsed(Response(kind, items)) /\ IsParsed(Raw(out)) /\ IsParsed(OrRaw(kind, items, out))
  <1>1. IsParsed(Response(kind, items))
    BY Zenon DEF IsParsed
  <1>2. IsParsed(Raw(out))
    <2>1. "Raw" \in ParsedKinds
      BY DEF ParsedKinds
    <2> QED BY <2>1, Zenon DEF IsParsed, Raw
  <1>3. OrRaw(kind, items, out) = Raw(out) \/ OrRaw(kind, items, out) = Response(kind, items)
    BY Zenon DEF OrRaw
  <1> QED BY <1>1, <1>2, <1>3, Zenon

LEMMA ClassifyKinds ==
    ASSUME NEW out, NEW hint
    PROVE  IsParsed(classify_output(out, hint))
  <1>1. /\ "StackTrace" \in ParsedKinds /\ "ThreadStackTrace" \in ParsedKinds
        /\ "Locals" \in ParsedKinds /\ "Threads" \in ParsedKinds /\ "Source" \in ParsedKinds
        /\ "Value" \in ParsedKinds /\ "ObjectDump" \in ParsedKinds
        /\ "BreakpointSet" \in ParsedKinds /\ "WatchSet" \in ParsedKinds
        /\ "Breakpoints" \in ParsedKinds /\ "Classes" \in ParsedKinds /\ "Methods" \in ParsedKinds
    BY DEF ParsedKinds
  <1>2. /\ IsParsed(parse_where(out)) /\ IsParsed(parse_where_all(out))
        /\ IsParsed(parse_locals(out)) /\ IsParsed(parse_threads(out))
        /\ IsParsed(parse_source(out)) /\ IsParsed(parse_print(out))
    BY <1>1, ParsedResponse, Zenon
       DEF parse_where, parse_where_all, parse_locals, parse_threads, parse_source, parse_print
  <1>3. /\ IsParsed(parse_breakpoint_set(out)) /\ IsParsed(parse_watch_set(out))
        /\ IsParsed(Raw(out))
    BY <1>1, ParsedResponse, Zenon DEF parse_breakpoint_set, parse_watch_set
  <1>4. IsParsed(parse_dump(out))
    <2>1. \/ parse_dump(out) = Raw(out) \/ parse_dump(out) = parse_print(out)
          \/ \E its : parse_dump(out) = Response("ObjectDump", its)
      BY Zenon DEF parse_dump
    <2> QED BY <1>1, <1>2, <1>3, <2>1, ParsedResponse, Zenon
  <1>5. /\ IsParsed(parse_listing("Breakpoints", out)) /\ IsParsed(parse_listing("Classes", out))
        /\ IsParsed(parse_listing("Methods", out))
    BY <1>1, ParsedResponse, Zenon DEF parse_listing
  <1>6. hint \in {"Breakpoints", "Classes", "Methods"} => IsParsed(parse_listing(hint, out))
    BY <1>5, Zenon
  <1> QED BY <1>2, <1>3, <1>4, <1>6, Zenon DEF classify_output

LEMMA StopFields ==
    ASSUME NEW e
    PROVE  /\ event_to_result(e).at = e.at /\ event_to_result(e).thread = e.thread
           /\ event_to_result(e).id = 0 /\ "id" \in DOMAIN event_to_result(e)
           /\ event_to_result(e).kind = IF e.kind = "Exception" THEN "ExceptionCaught" ELSE "Stopped"
  <1> DEFINE kind  == IF e.kind = "Exception" THEN "ExceptionCaught" ELSE "Stopped"
             event == CASE e.kind = "PartialStep"       -> "Step"
                        [] e.kind = "PartialBreakpoint" -> "Breakpoint"
                        [] OTHER                        -> e.kind
  <1>1. event_to_result(e) = [Response(kind, <<>>) EXCEPT !.at = e.at, !.thread = e.thread, !.event = event]
    BY DEF event_to_result
  <1> HIDE DEF kind, event
  <1>2. /\ event_to_result(e).at = e.at /\ event_to_result(e).thread = e.thread
        /\ event_to_result(e).id = 0 /\ "id" \in DOMAIN event_to_result(e)
        /\ event_to_result(e).kind = kind
    BY <1>1 DEF Response
  <1> QED BY <1>2 DEF kind

NoId(r) == "id" \in DOMAIN r /\ r.id = 0

LEMMA NoIdYet ==
    ASSUME NEW kind, NEW items, NEW e, NEW out, NEW hint
    PROVE  /\ NoId(Response(kind, items)) /\ NoId(event_to_result(e))
           /\ NoId(classify_output(out, hint))
  <1>1. \A k, its : NoId(Response(k, its))
    BY ResponseFields DEF NoId
  <1>2. NoId(event_to_result(e))
    BY StopFields DEF NoId
  <1>3. NoId(classify_output(out, hint))
    BY <1>1, ClassifyKinds, Zenon DEF IsParsed
  <1> QED BY <1>1, <1>2, <1>3

LEMMA ResultIds ==
    ASSUME NEW o, NEW hint, Len(plan.names) \in Nat
    PROVE  HasId(Result(o, hint))
  <1>1. \/ Result(o, hint) = event_to_result(o.event)
        \/ Result(o, hint) = classify_output(o.output, hint)
        \/ Result(o, hint) = Response("Timeout", o.output)
        \/ Result(o, hint) = Response("VmExited", o.output)
    BY DEF Result
  <1>2. NoId(Result(o, hint))
    BY <1>1, NoIdYet, Zenon
  <1> QED BY <1>2 DEF HasId, NoId

\* A client that is done keeps what it asked, and has an answer.
LEMMA ReturnedEntry ==
    ASSUME NEW c, ExOK(ex[c]), NEW r, HasId(r)
    PROVE  ExOK(Returned(c, r)) /\ Returned(c, r).stage = "done"
  BY DEF Returned, ExOK, HasId, Outside, Inside, Asking, Listens

LEMMA ErrIds ==
    ASSUME NEW why, Len(plan.names) \in Nat
    PROVE  HasId(Err(why)) /\ HasId(Raw(why))
  BY DEF Err, Raw, Response, HasId

LEMMA NoteIds ==
    ASSUME NEW r, NEW note, HasId(r)
    PROVE  HasId(append_note(r, note)) /\ append_note(r, note).id = r.id
  BY DEF append_note, HasId

LEMMA DoneIsOutside ==
    /\ "done" \notin Inside /\ "done" \notin {"read", "drain"}
    /\ Inside \cap {"none", "acquire", "acquire status"} = {}
  BY DEF Inside, Asking, Listens

\* Client c returns r; the mutex is free or where it was.
LEMMA ClientReturns ==
    ASSUME ClientTypes, SessionTypes, plan \in Plans, plan' = plan, NEW c \in Clients, NEW r,
           HasId(r), ex' = [ex EXCEPT ![c] = Returned(c, r)], cl' = cl,
           written' = written, inner' = inner \/ inner = c
    PROVE  ClientTypes'
  <1>1. ExOK(ex[c]) /\ written \in Nat
    BY DEF ClientTypes, SessionTypes
  <1>2. PICK e : e = Returned(c, r)
    OBVIOUS
  <1>3. ExOK(e) /\ e.stage = "done"
    BY <1>1, <1>2, ReturnedEntry, Zenon
  <1>4. ex' = [ex EXCEPT ![c] = e]
    BY <1>2
  <1> HIDE DEF Returned
  <1>5. e.stage \notin Inside /\ e.stage \notin {"read", "drain"}
    BY <1>3, DoneIsOutside
  <1>6. written' \in Nat /\ written' >= written
    BY <1>1
  <1> QED BY <1>3, <1>4, <1>5, <1>6, ClientExecutes

\* RejectTerminated, StatusRead.
LEMMA QuickTypes ==
    ASSUME TypeInv, NEW c \in Clients, RejectTerminated(c) \/ StatusRead(c), UNCHANGED handlerVars
    PROVE  TypeInv'
  <1>0. /\ plan \in Plans /\ TargetTypes /\ PipeTypes /\ SessionTypes /\ ClientTypes
        /\ Len(plan.names) \in Nat
    BY PlanLengths DEF TypeInv, ProcessTypes, TargetTypes
  <1>1. /\ UNCHANGED targetVars /\ UNCHANGED pipeVars /\ UNCHANGED readerVars
        /\ UNCHANGED <<opening, inner, state, written, misread>> /\ cl' = cl
    BY DEF RejectTerminated, StatusRead, processVars, handlerVars
  <1>2. HasId([Response("Status", <<>>) EXCEPT !.event = state]) /\ HasId(Err("dead"))
    BY <1>0, ErrIds DEF Response, HasId
  <1>3. ClientTypes'
    <2>1. \E r : HasId(r) /\ ex' = [ex EXCEPT ![c] = Returned(c, r)]
      BY <1>2, Zenon DEF RejectTerminated, StatusRead
    <2> QED BY <1>0, <1>1, <2>1, ClientReturns, TargetStays, Zenon
  <1>4. TargetTypes' /\ plan' = plan
    BY <1>0, <1>1, TargetStays
  <1>5. PipeTypes'
    BY <1>0, <1>1, <1>4, SamePlan DEF PipeTypes, pipeVars, readerVars
  <1>6. SessionTypes'
    BY <1>0, <1>1 DEF SessionTypes
  <1> QED BY <1>3, <1>4, <1>5, <1>6 DEF TypeInv, ProcessTypes

\* Session::launch and Session::attach, and the steps of jdb.
LEMMA OpenTypes ==
    ASSUME TypeInv, OpenerStep \/ JdbProcessStep, UNCHANGED handlerVars
    PROVE  TypeInv'
  <1>0. /\ plan \in Plans /\ TargetTypes /\ PipeTypes /\ SessionTypes /\ ClientTypes
    BY DEF TypeInv, ProcessTypes, TargetTypes
  <1>1. CASE OpenerStep
    <2>1. UNCHANGED targetVars /\ UNCHANGED <<inner, ex, written, misread>>
      BY <1>1 DEF OpenerStep, OpenReads, Launched, Handshake, ExtraPrompts, sessionVars
    <2>2. TargetTypes' /\ plan' = plan
      BY <1>0, <2>1, TargetStays
    <2>3. \E o : ReadContinues("Normal") \/ ReadReturns("Normal", o)
      BY <1>1, Zenon DEF OpenerStep, OpenReads, Launched, Handshake, ExtraPrompts
    <2>4. PipeTypes'
      BY <1>0, <2>2, <2>3, ReadTypes
    <2>5. ClientTypes'
      BY <1>0, <2>1, <2>2, ClientsStay DEF handlerVars
    <2>6. /\ opening' \in {opening, "failed", "ready", "extra1", "extra2", "extra3"}
          /\ state' \in {state, "Suspended"}
      BY <1>1 DEF OpenerStep, OpenReads, Launched, Handshake, ExtraPrompts, sessionVars
    <2>7. SessionTypes'
      BY <1>0, <2>1, <2>6 DEF SessionTypes, RunStates
    <2> QED BY <2>2, <2>4, <2>5, <2>7 DEF TypeInv, ProcessTypes
  <1>2. CASE JdbProcessStep
    <2>1. ProcessTypes' /\ plan' = plan /\ UNCHANGED sessionVars
      BY <1>0, <1>2, JdbStepTypes DEF JdbProcessStep, ProcessTypes
    <2>2. ClientTypes'
      BY <1>0, <2>1, ClientsStay DEF handlerVars, sessionVars
    <2>3. SessionTypes'
      BY <1>0, <2>1 DEF SessionTypes, sessionVars
    <2> QED BY <2>1, <2>2, <2>3 DEF TypeInv
  <1> QED BY <1>1, <1>2

\* A command is written.
LEMMA WriteTypes ==
    ASSUME stdin \in Seq(Commands), NEW verb \in JdbVerbs, NEW arg \in Args,
           NEW id \in 0 .. Len(plan.names), verb = "thread" => id # 0,
           written \in Nat, Write(verb, arg, id)
    PROVE  stdin' \in Seq(Commands) /\ written' = written + 1
  <1>1. [verb |-> verb, arg |-> arg, id |-> id, n |-> written + 1] \in Commands
    BY DEF Commands
  <1> QED BY <1>1, AppendProperties DEF Write

LEMMA SendTypes ==
    ASSUME TypeInv, NEW c \in Clients, Send(c), UNCHANGED handlerVars
    PROVE  TypeInv'
  <1>0. /\ plan \in Plans /\ TargetTypes /\ PipeTypes /\ SessionTypes /\ ClientTypes
        /\ Len(plan.names) \in Nat /\ ExOK(ex[c]) /\ ex[c].stage = "acquire" /\ written \in Nat
    BY PlanLengths DEF TypeInv, ProcessTypes, TargetTypes, SessionTypes, ClientTypes, Send, Asks
  <1>1. GoodCall(ex[c].call)
    BY <1>0 DEF ExOK
  <1>2. UNCHANGED targetVars /\ closed' = closed /\ UNCHANGED <<opening, state, misread>> /\ cl' = cl
    BY DEF Send, handlerVars
  <1>3. TargetTypes' /\ plan' = plan
    BY <1>0, <1>2, TargetStays
  <1>4. /\ stdout' \in Seq(Lines) /\ buf' \in Seq(Lines) /\ patience' \in BOOLEAN
        /\ eof' \in BOOLEAN /\ closed' \in BOOLEAN
    BY <1>0, <1>2, EmptySeq DEF Send, purge_pending, no_purge, take_text, readerVars, PipeTypes
  <1>5. CASE closed
    <2>1. /\ ex' = [ex EXCEPT ![c] = Returned(c, Err("io"))]
          /\ inner' = inner /\ written' = written /\ stdin' = stdin
      BY <1>5 DEF Send
    <2>2. ClientTypes'
      BY <1>0, <1>2, <1>3, <2>1, ErrIds, ClientReturns
    <2>3. PipeTypes'
      BY <1>0, <1>3, <1>4, <2>1, SamePlan DEF PipeTypes
    <2>4. SessionTypes'
      BY <1>0, <1>2, <2>1 DEF SessionTypes
    <2> QED BY <1>3, <2>2, <2>3, <2>4 DEF TypeInv, ProcessTypes
  <1>6. CASE ~closed
    <2> DEFINE e == [ex[c] EXCEPT !.stage = "read", !.call.n = written + 1, !.call.since = raised]
    <2>1. /\ inner' = c
          /\ Write(ex[c].call.verb, ex[c].call.arg, ex[c].call.id)
          /\ ex' = [ex EXCEPT ![c] = e]
      BY <1>0, <1>6 DEF Send, ClientTypes
    <2>2. stdin' \in Seq(Commands) /\ written' = written + 1
      <3>1. stdin \in Seq(Commands)
        BY <1>0 DEF PipeTypes
      <3>2. /\ ex[c].call.verb \in JdbVerbs /\ ex[c].call.arg \in Args
            /\ ex[c].call.id \in 0 .. Len(plan.names)
            /\ ex[c].call.verb = "thread" => ex[c].call.id # 0
        BY <1>1 DEF GoodCall
      <3> QED BY <1>0, <2>1, <3>1, <3>2, WriteTypes
    <2>3. ExOK(e) /\ e.stage = "read" /\ e.call.n = written + 1
      BY <1>0, <1>1 DEF ExOK, GoodCall, HasId, Inside, Outside
    <2> HIDE DEF e
    <2>4. inner = NoOne
      BY DEF Send, Asks
    <2>5. ClientTypes'
      <3>1. written' \in Nat /\ written' >= written /\ e.call.n \in 1 .. written'
        BY <1>0, <2>2, <2>3
      <3> QED BY <1>0, <1>2, <1>3, <2>1, <2>3, <2>4, <3>1, ClientExecutes
    <2>6. PipeTypes'
      BY <1>0, <1>3, <1>4, <2>2, SamePlan DEF PipeTypes
    <2>7. SessionTypes'
      BY <1>0, <1>2, <2>1, <2>2 DEF SessionTypes
    <2> QED BY <1>3, <2>5, <2>6, <2>7 DEF TypeInv, ProcessTypes
  <1> QED BY <1>5, <1>6

LEMMA ReadOnTypes ==
    ASSUME TypeInv, NEW c \in Clients, ReadOn(c) \/ QueryReadsOn(c), UNCHANGED handlerVars
    PROVE  TypeInv'
  <1>0. TargetTypes /\ PipeTypes /\ SessionTypes /\ ClientTypes
    BY DEF TypeInv, ProcessTypes
  <1>1. /\ UNCHANGED targetVars /\ UNCHANGED sessionVars
        /\ \E mode : ReadContinues(mode)
    BY DEF ReadOn, QueryReadsOn
  <1>2. TargetTypes' /\ plan' = plan
    BY <1>0, <1>1, TargetStays
  <1>3. PipeTypes'
    BY <1>0, <1>1, <1>2, ReadTypes
  <1>4. ClientTypes'
    BY <1>0, <1>1, <1>2, ClientsStay DEF handlerVars, sessionVars
  <1>5. SessionTypes'
    BY <1>0, <1>1 DEF SessionTypes, sessionVars
  <1> QED BY <1>2, <1>3, <1>4, <1>5 DEF TypeInv, ProcessTypes

\* The outcome of a command is mapped.
LEMMA MapTypes ==
    ASSUME TypeInv, NEW c \in Clients, NEW o, ex[c].stage \in {"read", "drain"},
           map_outcome(c, o), plan' = plan, written' = written, opening' = opening, cl' = cl
    PROVE  SessionTypes' /\ ClientTypes'
  <1>0. /\ plan \in Plans /\ SessionTypes /\ ClientTypes /\ Len(plan.names) \in Nat
        /\ ExOK(ex[c]) /\ written \in Nat /\ inner = c /\ ex[c].call.n \in 1 .. written
    BY PlanLengths DEF TypeInv, ProcessTypes, TargetTypes, SessionTypes, ClientTypes, Inside
  <1> DEFINE r == Result(o, ex[c].call.hint)
  <1>1. HasId(r)
    BY <1>0, ResultIds
  <1>2. /\ state' = StateAfter(o)
        /\ misread' \in {misread, misread \cup {ex[c].call.n}}
        /\ \/ ex' = [ex EXCEPT ![c].stage = "ask threads", ![c].ret = r] /\ inner' = inner
           \/ Release(c, r)
    BY DEF map_outcome
  <1>3. StateAfter(o) \in RunStates
    BY <1>0 DEF StateAfter, RunStates, SessionTypes
  <1> HIDE DEF r
  <1>4. ClientTypes'
    <2>1. CASE ex' = [ex EXCEPT ![c].stage = "ask threads", ![c].ret = r] /\ inner' = inner
      <3> DEFINE e == [ex[c] EXCEPT !.stage = "ask threads", !.ret = r]
      <3>1. ex' = [ex EXCEPT ![c] = e]
        BY <2>1, <1>0 DEF ClientTypes, ExOK
      <3>2. ExOK(e) /\ e.stage = "ask threads"
        <4>1. /\ e.stage = "ask threads" /\ e.ret = r
              /\ DOMAIN e = {"stage", "call", "out", "ret"}
          BY <1>0 DEF ExOK
        <4>2. "ask threads" \in Inside
          BY DEF Inside, Asking
        <4> QED BY <4>1, <4>2, <1>1 DEF ExOK
      <3> HIDE DEF e
      <3>3. e.stage \notin {"read", "drain"}
        BY <3>2
      <3>4. written' \in Nat /\ written' >= written
        BY <1>0
      <3> QED BY <1>0, <2>1, <3>1, <3>2, <3>3, <3>4, ClientExecutes
    <2>2. CASE Release(c, r)
      <3>1. ex' = [ex EXCEPT ![c] = Returned(c, r)] /\ inner' = NoOne
        BY <2>2 DEF Release
      <3>2. PICK e : e = Returned(c, r)
        OBVIOUS
      <3>3. ExOK(e) /\ e.stage = "done"
        BY <1>0, <1>1, <3>2, ReturnedEntry, Zenon
      <3>4. e.stage \notin Inside /\ e.stage \notin {"read", "drain"}
        BY <3>3, DoneIsOutside
      <3>5. written' \in Nat /\ written' >= written /\ ex' = [ex EXCEPT ![c] = e]
        BY <1>0, <3>1, <3>2
      <3> QED BY <1>0, <3>1, <3>3, <3>4, <3>5, ClientExecutes
    <2> QED BY <1>2, <2>1, <2>2
  <1>5. SessionTypes'
    BY <1>0, <1>2, <1>3 DEF SessionTypes, Release
  <1> QED BY <1>4, <1>5

\* The mutex is released with an answer.
LEMMA ReleaseTypes ==
    ASSUME ClientTypes, SessionTypes, plan \in Plans, plan' = plan, NEW c \in Clients, inner = c,
           NEW r, HasId(r), Release(c, r), written' \in Nat, written' >= written, cl' = cl
    PROVE  ClientTypes' /\ inner' = NoOne
  <1>1. ex' = [ex EXCEPT ![c] = Returned(c, r)] /\ inner' = NoOne
    BY DEF Release
  <1>2. PICK e : e = Returned(c, r)
    OBVIOUS
  <1>3. ExOK(e) /\ e.stage = "done"
    BY <1>2, ReturnedEntry, Zenon DEF ClientTypes
  <1>4. e.stage \notin Inside /\ e.stage \notin {"read", "drain"}
    BY <1>3, DoneIsOutside
  <1>5. ex' = [ex EXCEPT ![c] = e]
    BY <1>1, <1>2
  <1> QED BY <1>1, <1>3, <1>4, <1>5, ClientExecutes

LEMMA ReadDoneTypes ==
    ASSUME TypeInv, NEW c \in Clients, ReadDone(c), UNCHANGED handlerVars
    PROVE  TypeInv'
  <1>0. /\ plan \in Plans /\ TargetTypes /\ PipeTypes /\ SessionTypes /\ ClientTypes
        /\ Len(plan.names) \in Nat /\ ExOK(ex[c]) /\ ex[c].stage = "read" /\ inner = c
        /\ written \in Nat /\ ex[c].call.n \in 1 .. written
    BY PlanLengths DEF TypeInv, ProcessTypes, TargetTypes, SessionTypes, ClientTypes, ReadDone, Inside
  <1>1. UNCHANGED targetVars /\ UNCHANGED <<opening, written>> /\ cl' = cl
    BY DEF ReadDone, handlerVars
  <1>2. TargetTypes' /\ plan' = plan
    BY <1>0, <1>1, TargetStays
  <1>3. PICK o \in ReadOutcomes(ex[c].call.mode) :
          /\ ReadReturns(ex[c].call.mode, o)
          /\ \/ /\ o.kind = "Fatal"
                /\ state' = "Dead"
                /\ Release(c, Err("fatal"))
                /\ UNCHANGED <<last_event, heard, misread>>
             \/ /\ o.event # NoStop /\ ex[c].call.mode = "Blocking"
                /\ ex' = [ex EXCEPT ![c].stage = "drain", ![c].out = o]
                /\ UNCHANGED <<inner, state, last_event, heard, misread>>
             \/ /\ o.kind # "Fatal"
                /\ o.event = NoStop \/ ex[c].call.mode = "Normal"
                /\ map_outcome(c, o)
    BY DEF ReadDone
  <1>4. PipeTypes'
    BY <1>0, <1>2, <1>3, ReadTypes
  <1>5. SessionTypes' /\ ClientTypes'
    <2>1. CASE state' = "Dead" /\ Release(c, Err("fatal")) /\ UNCHANGED misread
      <3>1. HasId(Err("fatal")) /\ written' \in Nat /\ written' >= written
        BY <1>0, <1>1, ErrIds
      <3>2. ClientTypes' /\ inner' = NoOne
        BY <1>0, <1>1, <1>2, <2>1, <3>1, ReleaseTypes
      <3> QED BY <1>0, <1>1, <2>1, <3>2 DEF SessionTypes, RunStates
    <2>2. CASE /\ ex' = [ex EXCEPT ![c].stage = "drain", ![c].out = o]
               /\ UNCHANGED <<inner, state, misread>>
      <3> DEFINE e == [ex[c] EXCEPT !.stage = "drain", !.out = o]
      <3>1. ex' = [ex EXCEPT ![c] = e]
        BY <2>2, <1>0 DEF ClientTypes, ExOK
      <3>2. ExOK(e) /\ e.stage = "drain" /\ e.call.n \in 1 .. written
        BY <1>0 DEF ExOK, HasId, Inside
      <3> HIDE DEF e
      <3>3. written' \in Nat /\ written' >= written /\ e.call.n \in 1 .. written'
        BY <1>0, <1>1, <3>2
      <3>4. ClientTypes'
        BY <1>0, <1>1, <1>2, <2>2, <3>1, <3>2, <3>3, ClientExecutes
      <3> QED BY <1>0, <1>1, <2>2, <3>4 DEF SessionTypes
    <2>3. CASE map_outcome(c, o)
      BY <1>0, <1>1, <1>2, <2>3, MapTypes
    <2> QED BY <1>3, <2>1, <2>2, <2>3
  <1> QED BY <1>2, <1>4, <1>5 DEF TypeInv, ProcessTypes

LEMMA DrainStepTypes ==
    ASSUME TypeInv, NEW c \in Clients, Drain(c), UNCHANGED handlerVars
    PROVE  TypeInv'
  <1>0. /\ TargetTypes /\ PipeTypes /\ SessionTypes /\ ClientTypes /\ ex[c].stage = "drain"
    BY DEF TypeInv, ProcessTypes, Drain
  <1>1. UNCHANGED targetVars /\ UNCHANGED <<opening, written>> /\ cl' = cl
    BY DEF Drain, handlerVars
  <1>2. TargetTypes' /\ plan' = plan
    BY <1>0, <1>1, TargetStays
  <1>3. \/ DrainTakes /\ UNCHANGED <<inner, state, last_event, ex, heard, misread>>
        \/ DrainEnds  /\ map_outcome(c, ex[c].out)
    BY DEF Drain
  <1>4. PipeTypes'
    BY <1>0, <1>2, <1>3, DrainTypes
  <1>5. SessionTypes' /\ ClientTypes'
    <2>1. CASE UNCHANGED <<inner, state, last_event, ex, heard, misread>>
      <3>1. ClientTypes'
        BY <1>0, <1>1, <1>2, <2>1, ClientsStay
      <3> QED BY <1>0, <1>1, <2>1, <3>1 DEF SessionTypes
    <2>2. CASE map_outcome(c, ex[c].out)
      BY <1>0, <1>1, <1>2, <2>2, MapTypes
    <2> QED BY <1>3, <2>1, <2>2
  <1> QED BY <1>2, <1>4, <1>5 DEF TypeInv, ProcessTypes

-----------------------------------------------------------------------------
(* The queries that complete a banner                                      *)

LEMMA QueryStages ==
    /\ Ask["threads"] = "ask threads" /\ Ask["thread"] = "ask thread" /\ Ask["where"] = "ask where"
    /\ Listen["threads"] = "listen threads" /\ Listen["thread"] = "listen thread"
    /\ Listen["where"] = "listen where"
    /\ \A q \in Queries : Ask[q] \in Asking /\ Listen[q] \in Listens
    /\ \A q \in Queries : q \in JdbVerbs
  BY VerbTypes DEF Ask, Listen, Queries, Asking, Listens

LEMMA QueryInside ==
    ASSUME NEW s \in Asking \cup Listens
    PROVE  s \in Inside /\ s \notin {"read", "drain", "acquire"}
  BY DEF Inside, Asking, Listens

LEMMA RunQueryTypes ==
    ASSUME TypeInv, NEW c \in Clients, NEW q \in Queries, RunQuery(c, q), UNCHANGED handlerVars
    PROVE  TypeInv'
  <1>0. /\ plan \in Plans /\ TargetTypes /\ PipeTypes /\ SessionTypes /\ ClientTypes
        /\ Len(plan.names) \in Nat /\ ExOK(ex[c]) /\ ex[c].stage = Ask[q] /\ written \in Nat
    BY PlanLengths DEF TypeInv, ProcessTypes, TargetTypes, SessionTypes, ClientTypes, RunQuery
  <1>1. inner = c
    <2>1. ex[c].stage \in Inside
      BY <1>0, QueryStages, QueryInside
    <2> QED BY <1>0, <2>1 DEF ClientTypes
  <1>2. /\ UNCHANGED targetVars /\ UNCHANGED <<stdout, closed, opening, state, misread>>
        /\ UNCHANGED readerVars /\ cl' = cl
    BY DEF RunQuery, handlerVars
  <1>3. TargetTypes' /\ plan' = plan
    BY <1>0, <1>2, TargetStays
  <1>4. CASE closed
    <2>1. PICK note : Warn(c, note) /\ UNCHANGED <<written, stdin>>
      BY <1>4 DEF RunQuery
    <2>2. Release(c, append_note(ex[c].ret, note)) /\ HasId(append_note(ex[c].ret, note))
      BY <1>0, <2>1, NoteIds DEF Warn, ExOK
    <2>3. written' \in Nat /\ written' >= written
      BY <1>0, <2>1
    <2>4. ClientTypes' /\ inner' = NoOne
      BY <1>0, <1>1, <1>2, <1>3, <2>2, <2>3, ReleaseTypes
    <2>5. PipeTypes'
      BY <1>0, <1>2, <1>3, <2>1, SamePlan DEF PipeTypes, readerVars
    <2>6. SessionTypes'
      BY <1>0, <1>2, <2>1, <2>4 DEF SessionTypes
    <2> QED BY <1>3, <2>4, <2>5, <2>6 DEF TypeInv, ProcessTypes
  <1>5. CASE ~closed
    <2> DEFINE id == IF q = "thread" THEN ex[c].ret.id ELSE 0
               e  == [ex[c] EXCEPT !.stage = Listen[q]]
    <2>1. Write(q, "", id) /\ ex' = [ex EXCEPT ![c] = e] /\ inner' = inner
      BY <1>0, <1>5 DEF RunQuery, ClientTypes
    <2>2. id \in 0 .. Len(plan.names) /\ (q = "thread" => id # 0)
      <3>1. ex[c].ret.id \in 0 .. Len(plan.names) /\ (ex[c].stage = "ask thread" => ex[c].ret.id # 0)
        BY <1>0 DEF ExOK, HasId
      <3>2. q = "thread" => ex[c].ret.id # 0
        BY <1>0, <3>1, QueryStages
      <3>3. (q = "thread" /\ id = ex[c].ret.id) \/ (q # "thread" /\ id = 0)
        BY Zenon
      <3>4. 0 \in 0 .. Len(plan.names)
        BY <1>0
      <3> HIDE DEF id
      <3> QED BY <3>1, <3>2, <3>3, <3>4
    <2>3. q \in JdbVerbs /\ "" \in Args
      <3>1. "" \in Args
        BY ArgTypes
      <3> QED BY <3>1, QueryStages
    <2>4. stdin' \in Seq(Commands) /\ written' = written + 1
      <3>1. stdin \in Seq(Commands)
        BY <1>0 DEF PipeTypes
      <3> QED BY <1>0, <2>1, <2>2, <2>3, <3>1, WriteTypes
    <2>5. ExOK(e) /\ e.stage = Listen[q] /\ Listen[q] \in Listens
      <3>1. /\ e.stage = Listen[q] /\ e.ret = ex[c].ret
            /\ DOMAIN e = {"stage", "call", "out", "ret"}
        BY <1>0 DEF ExOK
      <3>2. Listen[q] \in Listens
        BY QueryStages
      <3>3. e.stage \in Inside /\ e.stage \notin {"acquire", "read", "drain", "ask thread"}
        BY <3>1, <3>2, QueryInside DEF Listens
      <3>4. HasId(e.ret)
        BY <1>0, <3>1 DEF ExOK
      <3> HIDE DEF e
      <3> QED BY <3>1, <3>2, <3>3, <3>4 DEF ExOK
    <2> HIDE DEF e, id
    <2>6. e.stage \notin {"read", "drain"}
      BY <2>5, QueryInside
    <2>7. written' \in Nat /\ written' >= written
      BY <1>0, <2>4
    <2>8. ClientTypes'
      BY <1>0, <1>1, <1>2, <1>3, <2>1, <2>5, <2>6, <2>7, ClientExecutes
    <2>9. PipeTypes'
      BY <1>0, <1>2, <1>3, <2>4, SamePlan DEF PipeTypes, readerVars
    <2>10. SessionTypes'
      <3>1. misread' \subseteq 1 .. written'
        BY <1>0, <1>2, <2>4 DEF SessionTypes
      <3> QED BY <1>0, <1>2, <2>1, <2>7, <3>1 DEF SessionTypes
    <2> QED BY <1>3, <2>8, <2>9, <2>10 DEF TypeInv, ProcessTypes
  <1> QED BY <1>4, <1>5

\* The line that HitThread picks is about a thread.
LEMMA HitThreadLine ==
    ASSUME NEW out \in Seq(Lines), HitThread(out) # {}
    PROVE  /\ Least(HitThread(out)) \in HitThread(out)
           /\ out[Least(HitThread(out))] \in Lines
           /\ out[Least(HitThread(out))].id \in 0 .. Len(plan.names)
           /\ out[Least(HitThread(out))].id # 0
  <1>1. Len(out) \in Nat /\ DOMAIN out = 1 .. Len(out)
    BY LenProperties
  <1>2. HitThread(out) \in SUBSET Nat /\ HitThread(out) \subseteq DOMAIN out
    BY <1>1 DEF HitThread, Places
  <1>3. PICK i : i = Least(HitThread(out))
    OBVIOUS
  <1>4. i \in HitThread(out)
    BY <1>2, <1>3, LeastNat, Zenon
  <1>5. i \in 1 .. Len(out) /\ out[i].is = "thread"
    BY <1>1, <1>4 DEF HitThread, Places
  <1>6. out[i] \in Lines
    BY <1>5, ElementOfSeq
  <1>7. out[i].id \in 0 .. Len(plan.names) /\ out[i].id # 0
    BY <1>5, <1>6 DEF Lines
  <1> QED BY <1>3, <1>4, <1>6, <1>7

LEMMA QueryAnsweredTypes ==
    ASSUME TypeInv, NEW c \in Clients, NEW q \in Queries, QueryAnswered(c, q), UNCHANGED handlerVars
    PROVE  TypeInv'
  <1>0. /\ plan \in Plans /\ TargetTypes /\ PipeTypes /\ SessionTypes /\ ClientTypes
        /\ Len(plan.names) \in Nat /\ ExOK(ex[c]) /\ ex[c].stage = Listen[q] /\ written \in Nat
    BY PlanLengths DEF TypeInv, ProcessTypes, TargetTypes, SessionTypes, ClientTypes, QueryAnswered
  <1>1. inner = c
    <2>1. ex[c].stage \in Inside
      BY <1>0, QueryStages, QueryInside
    <2> QED BY <1>0, <2>1 DEF ClientTypes
  <1>2. UNCHANGED targetVars /\ UNCHANGED <<opening, state, written, misread>> /\ cl' = cl
    BY DEF QueryAnswered, handlerVars
  <1>3. TargetTypes' /\ plan' = plan
    BY <1>0, <1>2, TargetStays
  <1> DEFINE r == ex[c].ret
  <1>4. PICK o \in ReadOutcomes("Normal") :
          /\ ReadReturns("Normal", o)
          /\ \/ \E note : Warn(c, note)
             \/ /\ HitThread(o.output) # {}
                /\ AskNext(c, "thread", [r EXCEPT !.thread = o.output[Least(HitThread(o.output))].who,
                                                  !.id = o.output[Least(HitThread(o.output))].id])
             \/ AskNext(c, "where", r)
             \/ \E x : Release(c, [r EXCEPT !.at = x, !.frame = x])
    BY Zenon DEF QueryAnswered
  <1>5. PipeTypes'
    BY <1>0, <1>3, <1>4, ReadTypes
  <1>6. HasId(r) /\ written' \in Nat /\ written' >= written
    <2>1. HasId(r)
      BY <1>0 DEF ExOK
    <2>2. written' = written
      BY <1>2
    <2> QED BY <1>0, <2>1, <2>2
  <1>7. ASSUME NEW p \in {"thread", "where"}, NEW s, HasId(s), p = "thread" => s.id # 0,
               AskNext(c, p, s)
        PROVE  ClientTypes' /\ inner' = inner
    <2> DEFINE e == [ex[c] EXCEPT !.stage = Ask[p], !.ret = s]
    <2>1. ex' = [ex EXCEPT ![c] = e] /\ inner' = inner
      BY <1>7, <1>0 DEF AskNext, ClientTypes
    <2>2. ExOK(e) /\ e.stage \in Asking
      <3>1. /\ e.stage = Ask[p] /\ e.ret = s
            /\ DOMAIN e = {"stage", "call", "out", "ret"}
        BY <1>0 DEF ExOK
      <3>2. Ask[p] \in Asking /\ (Ask[p] = "ask thread" => p = "thread")
        BY <1>7, QueryStages DEF Queries
      <3> HIDE DEF e
      <3>3. e.stage \in Inside /\ e.stage \notin {"acquire", "read", "drain"}
        BY <3>1, <3>2, QueryInside
      <3> QED BY <1>7, <3>1, <3>2, <3>3 DEF ExOK
    <2> HIDE DEF e
    <2>3. e.stage \notin {"read", "drain"}
      BY <2>2, QueryInside
    <2> QED BY <1>0, <1>1, <1>2, <1>3, <1>6, <2>1, <2>2, <2>3, ClientExecutes
  <1> HIDE DEF r
  <1>8. ClientTypes' /\ (inner' = NoOne \/ inner' = inner)
    <2>1. ASSUME NEW note, Warn(c, note) PROVE ClientTypes' /\ inner' = NoOne
      <3>1. Release(c, append_note(ex[c].ret, note)) /\ HasId(append_note(ex[c].ret, note))
        BY <1>6, <2>1, NoteIds DEF Warn, r
      <3> QED BY <1>0, <1>1, <1>2, <1>3, <1>6, <3>1, ReleaseTypes
    <2>2. ASSUME NEW x, Release(c, [r EXCEPT !.at = x, !.frame = x])
          PROVE  ClientTypes' /\ inner' = NoOne
      <3>1. HasId([r EXCEPT !.at = x, !.frame = x])
        BY <1>6 DEF HasId
      <3> QED BY <1>0, <1>1, <1>2, <1>3, <1>6, <2>2, <3>1, ReleaseTypes
    <2>3. CASE AskNext(c, "where", r)
      BY <1>6, <1>7, <2>3
    <2>4. CASE /\ HitThread(o.output) # {}
               /\ AskNext(c, "thread", [r EXCEPT !.thread = o.output[Least(HitThread(o.output))].who,
                                                 !.id = o.output[Least(HitThread(o.output))].id])
      <3>1. o.output \in Seq(Lines)
        BY <1>0, OutcomeText DEF PipeTypes
      <3>2. PICK t : t = o.output[Least(HitThread(o.output))]
        OBVIOUS
      <3>3. t.id \in 0 .. Len(plan.names) /\ t.id # 0
        BY <2>4, <3>1, <3>2, HitThreadLine
      <3> DEFINE s == [r EXCEPT !.thread = t.who, !.id = t.id]
      <3>4. HasId(s) /\ s.id # 0
        BY <1>6, <3>3 DEF HasId
      <3>5. AskNext(c, "thread", s)
        BY <2>4, <3>2, Zenon
      <3> HIDE DEF s
      <3> QED BY <1>7, <3>4, <3>5
    <2> QED BY <1>4, <2>1, <2>2, <2>3, <2>4
  <1>9. SessionTypes'
    BY <1>0, <1>2, <1>8 DEF SessionTypes
  <1> QED BY <1>3, <1>5, <1>8, <1>9 DEF TypeInv, ProcessTypes

LEMMA KillTypes ==
    ASSUME TypeInv, NEW c \in Clients, KillAsks(c) \/ KillEnds(c), UNCHANGED handlerVars
    PROVE  TypeInv'
  <1>0. /\ plan \in Plans /\ TargetTypes /\ PipeTypes /\ SessionTypes /\ ClientTypes
        /\ Len(plan.names) \in Nat /\ ExOK(ex[c]) /\ written \in Nat
    BY PlanLengths DEF TypeInv, ProcessTypes, TargetTypes, SessionTypes, ClientTypes
  <1>1. CASE KillAsks(c)
    <2> DEFINE e == [ex[c] EXCEPT !.stage = "killing"]
    <2>1. /\ UNCHANGED targetVars /\ UNCHANGED <<stdout, closed, opening, state, misread>>
          /\ UNCHANGED readerVars /\ cl' = cl
      BY <1>1 DEF KillAsks, handlerVars
    <2>2. inner = NoOne /\ inner' = c /\ ex' = [ex EXCEPT ![c] = e]
      BY <1>0, <1>1 DEF KillAsks, ClientTypes
    <2>3. TargetTypes' /\ plan' = plan
      BY <1>0, <2>1, TargetStays
    <2>4. stdin' \in Seq(Commands) /\ written' \in Nat /\ written' >= written
      <3>1. CASE closed
        <4>1. stdin' = stdin /\ written' = written
          BY <1>1, <3>1 DEF KillAsks
        <4> QED BY <4>1, <1>0 DEF PipeTypes
      <3>2. CASE ~closed
        <4> DEFINE x == [verb |-> "resume", arg |-> "", id |-> 0, n |-> written + 1]
                   y == [verb |-> "quit", arg |-> "", id |-> 0, n |-> written + 2]
        <4>1. stdin' = stdin \o <<x, y>> /\ written' = written + 2
          BY <1>1, <3>2 DEF KillAsks
        <4>2. x \in Commands /\ y \in Commands
          <5>1. "" \in Args /\ "resume" \in JdbVerbs /\ "quit" \in JdbVerbs
            BY ArgTypes, VerbTypes, Zenon
          <5>2. 0 \in 0 .. Len(plan.names) /\ written + 1 \in Nat /\ written + 2 \in Nat
            BY <1>0
          <5> QED BY <5>1, <5>2 DEF Commands
        <4> HIDE DEF x, y
        <4>3. stdin \in Seq(Commands) /\ <<x, y>> \in Seq(Commands)
          BY <1>0, <4>2, SeqOfTwo DEF PipeTypes
        <4>4. stdin' \in Seq(Commands)
          BY <4>1, <4>3, ConcatProperties
        <4> QED BY <1>0, <4>1, <4>4
      <3> QED BY <3>1, <3>2
    <2>5. ExOK(e) /\ e.stage = "killing"
      <3>1. /\ e.stage = "killing" /\ e.ret = ex[c].ret
            /\ DOMAIN e = {"stage", "call", "out", "ret"}
        BY <1>0 DEF ExOK
      <3>2. e.stage \in Inside /\ e.stage \notin {"acquire", "read", "drain", "ask thread"}
        BY <3>1 DEF Inside
      <3> HIDE DEF e
      <3> QED BY <1>0, <3>1, <3>2 DEF ExOK
    <2> HIDE DEF e
    <2>6. e.stage \notin {"read", "drain"}
      BY <2>5
    <2>7. ClientTypes'
      BY <1>0, <2>1, <2>2, <2>3, <2>4, <2>5, <2>6, ClientExecutes
    <2>8. PipeTypes'
      BY <1>0, <2>1, <2>3, <2>4, SamePlan DEF PipeTypes, readerVars
    <2>9. SessionTypes'
      <3>1. misread' \subseteq 1 .. written'
        BY <1>0, <2>1, <2>4 DEF SessionTypes
      <3> QED BY <1>0, <2>1, <2>2, <2>4, <3>1 DEF SessionTypes
    <2> QED BY <2>3, <2>7, <2>8, <2>9 DEF TypeInv, ProcessTypes
  <1>2. CASE KillEnds(c)
    <2>1. /\ plan' = plan /\ raised' = raised /\ late' = late /\ stdout' = stdout
          /\ UNCHANGED readerVars /\ UNCHANGED <<opening, written, misread>> /\ cl' = cl
          /\ closed' = TRUE /\ vm' = "gone" /\ held' = {} /\ cur' = 0 /\ stdin' = <<>>
          /\ state' = "Dead" /\ Release(c, Raw(<<>>)) /\ ex[c].stage = "killing"
      BY <1>2 DEF KillEnds, handlerVars
    <2>2. TargetTypes'
      BY <1>0, <2>1, SamePlan DEF TargetTypes
    <2>3. PipeTypes'
      BY <1>0, <2>1, SamePlan, EmptySeq DEF PipeTypes, readerVars
    <2>4. inner = c
      BY <1>0, <2>1 DEF ClientTypes, Inside
    <2>5. HasId(Raw(<<>>)) /\ written' \in Nat /\ written' >= written
      <3>1. written' = written
        BY <2>1
      <3> QED BY <1>0, <3>1, ErrIds
    <2>6. ClientTypes' /\ inner' = NoOne
      BY <1>0, <2>1, <2>4, <2>5, ReleaseTypes
    <2>7. SessionTypes'
      BY <1>0, <2>1, <2>6 DEF SessionTypes, RunStates
    <2> QED BY <2>2, <2>3, <2>6, <2>7 DEF TypeInv, ProcessTypes
  <1> QED BY <1>1, <1>2

LEMMA ExecuteTypes ==
    ASSUME TypeInv, NEW c \in Clients, Execute(c), UNCHANGED handlerVars
    PROVE  TypeInv'
  <1>1. \A q \in Queries : RunQuery(c, q) \/ QueryAnswered(c, q) => TypeInv'
    BY RunQueryTypes, QueryAnsweredTypes
  <1> QED BY <1>1, QuickTypes, SendTypes, ReadOnTypes, ReadDoneTypes, DrainStepTypes, KillTypes
          DEF Execute, Enrich

-----------------------------------------------------------------------------
(* The handler: between two calls a client only prepares the next.         *)

\* A request a client may make, as the call it becomes.
GoodOp(op, arg) ==
    /\ op \in Ops \ {"Inspect", "ForceReturn", "Status"}
    /\ arg \in Args
    /\ op = "Thread" => ThreadAsked(arg) \in ThreadIds
    /\ op = "Resume" => ~Calm
    /\ op = "Run" => plan.start = "launch"

LEMMA VerbFacts ==
    ASSUME NEW op \in Ops \ {"Inspect", "ForceReturn", "Status"}
    PROVE  /\ JdbVerb(op) \in JdbVerbs
           /\ op \in Blocking <=> JdbVerb(op) \in Waited
           /\ JdbVerb(op) # "quit"
           /\ JdbVerb(op) = "thread" => op = "Thread"
           /\ JdbVerb(op) = "resume" => op = "Resume"
           /\ JdbVerb(op) = "run" => op = "Run"
  <1>1. CASE op = "Print"
    <2>1. JdbVerb(op) = "print"
      BY <1>1 DEF JdbVerb
    <2>2. op \notin Blocking /\ "print" \notin Waited
      BY <1>1 DEF Waited, Blocking
    <2> QED BY <2>1, <2>2, VerbTypes
  <1>2. CASE op # "Print"
    <2>1. op \in DOMAIN Verbs
      BY <1>2, Zenon DEF Ops
    <2>2. JdbVerb(op) = Verbs[op]
      BY <1>2, Zenon DEF JdbVerb
    <2> QED BY <2>1, <2>2, WaitedVerbs, VerbTypes
  <1> QED BY <1>1, <1>2

\* A client that takes the next step of its request, or a next request.
ReqFacts(c) ==
    /\ Req(c).op \in Ops /\ Req(c).arg \in STRING
    /\ Req(c).op = "Thread" => ThreadAsked(Req(c).arg) \in ThreadIds
    /\ Req(c).op = "Resume" => ~Calm
Serving(c) == ClOK(c, cl[c]) /\ cl[c].ip <= Len(plan.prog[c]) /\ ReqFacts(c)

\* Where a client is that stays with its request.
Onward(c, k) ==
    /\ DOMAIN k = {"ip", "at", "resp", "pre", "iter", "settling", "count"}
    /\ k.ip = cl[c].ip /\ k.iter \in 0 .. MaxIterations /\ k.at # "idle"

\* What a client has when it waits for the session, or has nothing to ask.
Fresh(e) ==
    \/ e = Idle
    \/ e = [Idle EXCEPT !.stage = "acquire status"]
    \/ \E op, arg : GoodOp(op, arg) /\ e = [Idle EXCEPT !.stage = "acquire", !.call = CallFor(op, arg)]

Moves(c) ==
    \E e, k : /\ Fresh(e) /\ ClOK(c, k) /\ (k.at = "idle" => e = Idle)
              /\ ex' = [ex EXCEPT ![c] = e] /\ cl' = [cl EXCEPT ![c] = k]

LEMMA RequestFacts ==
    ASSUME plan \in Plans, NEW c \in Clients, ClOK(c, cl[c]), cl[c].ip <= Len(plan.prog[c])
    PROVE  Serving(c)
  <1> DEFINE RS == [op : Ops, arg : STRING, spec : Specs \cup {NoTarget}]
             q  == plan.prog[c]
             i  == cl[c].ip
  <1>1. /\ plan.prog \in [Clients -> Seq(RS)]
        /\ \A d \in Clients : \A j \in DOMAIN plan.prog[d] :
              plan.prog[d][j].op = "Thread" => ThreadAsked(plan.prog[d][j].arg) \in DOMAIN plan.names
        /\ plan.names \in Seq(STRING)
    BY PlansAssumption
  <1> HIDE DEF RS
  <1>2. q \in Seq(RS)
    BY <1>1
  <1>3. i \in Nat \ {0} /\ i <= Len(q)
    BY DEF ClOK
  <1>4. i \in DOMAIN q /\ q[i] \in RS
    BY <1>2, <1>3, LenProperties, ElementOfSeq
  <1>5. Req(c) = q[i]
    BY DEF Req
  <1>6. Req(c).op \in Ops /\ Req(c).arg \in STRING
    BY <1>4, <1>5 DEF RS
  <1>7. DOMAIN plan.names = ThreadIds
    BY <1>1, LenProperties DEF ThreadIds
  <1>8. Req(c).op = "Thread" => ThreadAsked(Req(c).arg) \in ThreadIds
    BY <1>1, <1>4, <1>5, <1>7
  <1>9. Req(c).op = "Resume" => ~Calm
    BY <1>4, <1>5 DEF Calm
  <1> HIDE DEF q, i
  <1> QED BY <1>6, <1>8, <1>9 DEF Serving, ReqFacts

LEMMA CallTypes ==
    ASSUME NEW op, NEW arg, GoodOp(op, arg), plan \in Plans
    PROVE  GoodCall(CallFor(op, arg))
  <1>1. op \in Ops \ {"Inspect", "ForceReturn", "Status"} /\ arg \in Args
        /\ (op = "Thread" => ThreadAsked(arg) \in ThreadIds)
        /\ (op = "Resume" => ~Calm) /\ (op = "Run" => plan.start = "launch")
    BY DEF GoodOp
  <1>2. /\ JdbVerb(op) \in JdbVerbs
        /\ op \in Blocking <=> JdbVerb(op) \in Waited
        /\ JdbVerb(op) # "quit"
        /\ JdbVerb(op) = "thread" => op = "Thread"
        /\ JdbVerb(op) = "resume" => op = "Resume"
        /\ JdbVerb(op) = "run" => op = "Run"
    BY <1>1, VerbFacts
  <1> DEFINE k == CallFor(op, arg)
             i == IF op = "Thread" THEN ThreadAsked(arg) ELSE 0
             v == JdbVerb(op)
             m == IF op \in Blocking THEN "Blocking" ELSE "Normal"
  <1>3. i \in 0 .. Len(plan.names) /\ (op = "Thread" => i # 0)
    <2>1. Len(plan.names) \in Nat /\ ThreadIds = 1 .. Len(plan.names)
      BY PlanFacts
    <2>2. CASE op = "Thread"
      BY <1>1, <2>1, <2>2
    <2>3. CASE op # "Thread"
      BY <2>1, <2>3
    <2> QED BY <2>2, <2>3
  <1>4. k = [NoCall EXCEPT !.verb = v, !.arg = arg, !.id = i, !.hint = Hint(op), !.mode = m]
    BY Zenon DEF CallFor
  <1>5. m \in {"Normal", "Blocking"} /\ (m = "Blocking" <=> op \in Blocking)
    OBVIOUS
  <1> HIDE DEF k, i, v, m
  <1>6. /\ DOMAIN k = {"verb", "arg", "id", "mode", "hint", "n", "since"}
        /\ k.verb = v /\ k.arg = arg /\ k.id = i /\ k.mode = m
    BY <1>4 DEF NoCall
  <1>7. v = JdbVerb(op) /\ k = CallFor(op, arg)
    BY DEF v, k
  <1> HIDE DEF CallFor, JdbVerb
  <1>8. GoodCall(k)
    BY <1>1, <1>2, <1>3, <1>5, <1>6, <1>7 DEF GoodCall
  <1> QED BY <1>7, <1>8

LEMMA FreshTypes ==
    ASSUME NEW e, Fresh(e), plan \in Plans
    PROVE  ExOK(e) /\ e.stage \in {"none", "acquire", "acquire status"}
  <1>1. Len(plan.names) \in Nat
    BY PlanLengths
  <1>2. HasId(NoResponse)
    BY <1>1 DEF NoResponse, Response, HasId
  <1> HIDE DEF NoResponse
  <1>3. CASE e = Idle \/ e = [Idle EXCEPT !.stage = "acquire status"]
    <2>1. Idle.stage = "none" /\ Idle.ret = NoResponse /\ DOMAIN Idle = {"stage", "call", "out", "ret"}
      BY DEF Idle
    <2>2. /\ e.stage \in {"none", "acquire status"} /\ e.ret = NoResponse
          /\ DOMAIN e = {"stage", "call", "out", "ret"}
      BY <1>3, <2>1
    <2> QED BY <1>2, <2>2 DEF ExOK, Outside
  <1>4. ASSUME NEW op, NEW arg, GoodOp(op, arg),
               e = [Idle EXCEPT !.stage = "acquire", !.call = CallFor(op, arg)]
        PROVE  ExOK(e) /\ e.stage \in {"none", "acquire", "acquire status"}
    <2>1. PICK k : k = CallFor(op, arg)
      OBVIOUS
    <2>2. GoodCall(k)
      BY <1>4, <2>1, CallTypes, Zenon
    <2>3. e = [Idle EXCEPT !.stage = "acquire", !.call = k]
      BY <1>4, <2>1
    <2>4. /\ e.stage = "acquire" /\ e.call = k /\ e.ret = NoResponse
          /\ DOMAIN e = {"stage", "call", "out", "ret"}
      BY <2>3 DEF Idle
    <2> QED BY <1>2, <2>2, <2>4 DEF ExOK, Outside
  <1> QED BY <1>3, <1>4 DEF Fresh

LEMMA OnwardTypes ==
    ASSUME NEW c \in Clients, NEW k, Serving(c), Onward(c, k)
    PROVE  ClOK(c, k)
  BY DEF Serving, Onward, ClOK

LEMMA CallMoves ==
    ASSUME NEW c \in Clients, NEW op, NEW arg, NEW to, Serving(c), GoodOp(op, arg),
           Onward(c, to), Call(c, op, arg, to)
    PROVE  Moves(c)
  <1>1. PICK e : e = [Idle EXCEPT !.stage = "acquire", !.call = CallFor(op, arg)]
    OBVIOUS
  <1>2. Fresh(e)
    BY <1>1, Zenon DEF Fresh
  <1>3. ex' = [ex EXCEPT ![c] = e] /\ cl' = [cl EXCEPT ![c] = to]
    BY <1>1 DEF Call
  <1>4. ClOK(c, to) /\ to.at # "idle"
    BY OnwardTypes DEF Onward
  <1> QED BY <1>2, <1>3, <1>4, Zenon DEF Moves

LEMMA ReplyMoves ==
    ASSUME NEW c \in Clients, NEW r, Serving(c), Reply(c, r)
    PROVE  Moves(c)
  <1> DEFINE k == [AtRest EXCEPT !.ip = cl[c].ip + 1]
  <1>1. ex' = [ex EXCEPT ![c] = Idle] /\ cl' = [cl EXCEPT ![c] = k]
    BY DEF Reply
  <1>2. MaxIterations \in Nat
    BY HandlerAssumption
  <1>3. ClOK(c, k)
    BY <1>2 DEF AtRest, Serving, ClOK
  <1> HIDE DEF k
  <1> QED BY <1>1, <1>3, Zenon DEF Moves, Fresh

\* The requests that the handler makes on its own account.
LEMMA OwnOps ==
    ASSUME NEW a \in Args
    PROVE  /\ GoodOp("Print", a) /\ GoodOp("Where", a) /\ GoodOp("Threads", a)
           /\ GoodOp("ListSource", a) /\ GoodOp("Cont", a) /\ GoodOp("Set", a)
  <1>1. {"Print", "Where", "Threads", "ListSource", "Cont", "Set"} \subseteq Ops
    BY VerbsOf DEF Ops
  <1> QED BY <1>1 DEF GoodOp

LEMMA OnwardAt ==
    ASSUME NEW c \in Clients, NEW where, where # "idle", NEW r, Serving(c)
    PROVE  Onward(c, At(c, where, r))
  BY DEF Onward, At, Serving, ClOK

LEMMA MainMoves ==
    ASSUME NEW c \in Clients, NEW pre, Serving(c), Main(c, pre)
    PROVE  Moves(c)
  <1> DEFINE req == Req(c)
             to  == [cl[c] EXCEPT !.at = "main", !.pre = pre, !.settling = FALSE]
  <1>1. req.op \in Ops /\ req.arg \in STRING
    BY DEF Serving, ReqFacts
  <1>2. Onward(c, to) /\ Onward(c, [to EXCEPT !.at = "size"])
    BY DEF Onward, Serving, ClOK
  <1>3. \/ Call(c, "Print", req.arg \o ".size", [to EXCEPT !.at = "size"])
        \/ \E r : Reply(c, r)
        \/ /\ ex' = [ex EXCEPT ![c] = [Idle EXCEPT !.stage = "acquire status"]]
           /\ cl' = [cl EXCEPT ![c] = to]
        \/ Call(c, "Set", "quoted", to) \/ Call(c, "Set", req.arg, to)
        \/ /\ req.op \notin {"Inspect", "ForceReturn", "Status", "Set"}
           /\ ~ (req.op = "Run" /\ plan.start # "launch")
           /\ Call(c, req.op, req.arg, to)
    BY Zenon DEF Main
  <1>4. req.op = "Thread" => ThreadAsked(req.arg) \in ThreadIds
    BY DEF Serving, ReqFacts
  <1>5. req.op = "Resume" => ~Calm
    BY DEF Serving, ReqFacts
  <1> HIDE DEF req, to
  <1>6. /\ GoodOp("Print", req.arg \o ".size") /\ GoodOp("Set", "quoted") /\ GoodOp("Set", req.arg)
    <2>1. req.arg \o ".size" \in Args /\ "quoted" \in Args /\ req.arg \in Args
      BY <1>1, ArgTypes
    <2> QED BY <2>1, OwnOps
  <1>7. CASE Call(c, "Print", req.arg \o ".size", [to EXCEPT !.at = "size"])
    BY <1>2, <1>6, <1>7, CallMoves
  <1>8. CASE Call(c, "Set", "quoted", to) \/ Call(c, "Set", req.arg, to)
    BY <1>2, <1>6, <1>8, CallMoves
  <1>9. CASE /\ ex' = [ex EXCEPT ![c] = [Idle EXCEPT !.stage = "acquire status"]]
             /\ cl' = [cl EXCEPT ![c] = to]
    <2>1. ClOK(c, to) /\ to.at # "idle"
      BY <1>2, OnwardTypes DEF Onward
    <2> QED BY <1>9, <2>1, Zenon DEF Moves, Fresh
  <1>10. CASE /\ req.op \notin {"Inspect", "ForceReturn", "Status", "Set"}
              /\ ~ (req.op = "Run" /\ plan.start # "launch")
              /\ Call(c, req.op, req.arg, to)
    <2>1. req.arg \in Args
      BY <1>1, ArgTypes
    <2>2. GoodOp(req.op, req.arg)
      BY <1>1, <1>4, <1>5, <1>10, <2>1 DEF GoodOp
    <2> QED BY <1>2, <1>10, <2>2, CallMoves
  <1> QED BY <1>3, <1>7, <1>8, <1>9, <1>10, ReplyMoves

LEMMA StoppedMoves ==
    ASSUME NEW c \in Clients, NEW r, Serving(c),
           \/ enrich_stopped(c, r) \/ enrich_source(c, r)
           \/ enrich_thread_id(c, r) \/ check_line_mismatch(c, r)
    PROVE  Moves(c)
  <1>1. check_line_mismatch(c, r) => Moves(c)
    <2>1. check_line_mismatch(c, r) => \E s : Reply(c, s)
      BY Zenon DEF check_line_mismatch
    <2> QED BY <2>1, ReplyMoves
  <1>2. "" \in Args
    BY ArgTypes
  <1>3. ASSUME NEW op \in {"Where", "Threads", "ListSource"}, NEW where, where # "idle",
               Call(c, op, "", At(c, where, r))
        PROVE  Moves(c)
    <2>1. GoodOp(op, "")
      BY <1>2, <1>3, OwnOps
    <2>2. Onward(c, At(c, where, r))
      BY <1>3, OnwardAt
    <2> QED BY <1>3, <2>1, <2>2, CallMoves
  <1>4. \/ check_line_mismatch(c, r)
        \/ Call(c, "Threads", "", At(c, "thread id", r))
        \/ Call(c, "ListSource", "", At(c, "source", r))
        \/ Call(c, "Where", "", At(c, "frame", r))
    BY Zenon DEF enrich_stopped, enrich_source, enrich_thread_id
  <1> QED BY <1>1, <1>3, <1>4

LEMMA AfterLoopMoves ==
    ASSUME NEW c \in Clients, NEW r, Serving(c), AfterLoop(c, r)
    PROVE  Moves(c)
  <1>1. enrich_stopped(c, r) \/ Main(c, r.notes) \/ Reply(c, r)
    BY Zenon DEF AfterLoop
  <1> QED BY <1>1, StoppedMoves, MainMoves, ReplyMoves

LEMMA LoopMoves ==
    ASSUME NEW c \in Clients, NEW r, NEW i \in Nat, NEW settling, Serving(c),
           eval_condition_loop(c, r, i, settling)
    PROVE  Moves(c)
  <1> DEFINE k == [cl[c] EXCEPT !.at = "condition", !.resp = r, !.iter = i, !.settling = settling]
  <1>1. \/ i < MaxIterations /\ Call(c, "Print", "condition", k)
        \/ \E s : AfterLoop(c, s)
    BY Zenon DEF eval_condition_loop
  <1>2. ASSUME i < MaxIterations PROVE Onward(c, k)
    BY <1>2, HandlerAssumption DEF Onward, Serving, ClOK
  <1> HIDE DEF k
  <1>3. GoodOp("Print", "condition")
    BY ArgTypes, OwnOps
  <1> QED BY <1>1, <1>2, <1>3, CallMoves, AfterLoopMoves

LEMMA InspectMoves ==
    ASSUME NEW c \in Clients, NEW r, NEW count, Serving(c), NextElement(c, r, count)
    PROVE  Moves(c)
  <1> DEFINE k == [cl[c] EXCEPT !.at = "get", !.resp = r, !.count = count]
  <1>1. \/ Call(c, "Print", Req(c).arg \o ".get", k)
        \/ \E s : Reply(c, s)
    BY Zenon DEF NextElement, Inspected
  <1>2. Onward(c, k)
    BY DEF Onward, Serving, ClOK
  <1> HIDE DEF k
  <1>3. GoodOp("Print", Req(c).arg \o ".get")
    <2>1. Req(c).arg \in STRING
      BY DEF Serving, ReqFacts
    <2>2. Req(c).arg \o ".get" \in Args
      BY <2>1, ArgTypes
    <2> QED BY <2>2, OwnOps
  <1> QED BY <1>1, <1>2, <1>3, CallMoves, ReplyMoves

LEMMA BusyServes ==
    ASSUME TypeInv, NEW c \in Clients, Busy(c) \/ cl[c].ip <= Len(plan.prog[c])
    PROVE  Serving(c)
  <1>1. plan \in Plans /\ ClOK(c, cl[c])
    BY DEF TypeInv, ProcessTypes, TargetTypes, ClientTypes
  <1>2. cl[c].ip <= Len(plan.prog[c])
    BY <1>1 DEF Busy, ClOK
  <1> QED BY <1>1, <1>2, RequestFacts

LEMMA HandlerMoves ==
    ASSUME TypeInv, NEW c \in Clients, HandlerStep(c)
    PROVE  Moves(c)
  <1>1. Serving(c)
    <2>1. Busy(c) \/ cl[c].ip <= Len(plan.prog[c])
      BY DEF HandlerStep, StartRequest, Settle, Judge, AutoContinued, MainAnswered, Retried,
             GotFrame, GotSource, GotThreadId, GotSize, GotElement, Back, Busy
    <2> QED BY <2>1, BusyServes
  <1>2. \A r : Reply(c, r) => Moves(c)
    BY <1>1, ReplyMoves
  <1>3. \A pre : Main(c, pre) => Moves(c)
    BY <1>1, MainMoves
  <1>4. \A r : AfterLoop(c, r) => Moves(c)
    BY <1>1, AfterLoopMoves
  <1>5. \A r : \A i \in Nat : \A s : eval_condition_loop(c, r, i, s) => Moves(c)
    BY <1>1, LoopMoves
  <1>6. \A r : /\ enrich_source(c, r) => Moves(c)
               /\ enrich_thread_id(c, r) => Moves(c)
               /\ check_line_mismatch(c, r) => Moves(c)
    BY <1>1, StoppedMoves
  <1>7. \A r, n : NextElement(c, r, n) => Moves(c)
    BY <1>1, InspectMoves
  <1>8. ASSUME NEW op \in {"Print", "Where", "Cont", "Set"}, NEW arg \in Args, NEW k,
               Onward(c, k), Call(c, op, arg, k)
        PROVE  Moves(c)
    BY <1>1, <1>8, OwnOps, CallMoves
  <1>9. "" \in Args /\ "quoted" \in Args
    BY ArgTypes
  <1>10. CASE StartRequest(c)
    <2>1. Call(c, "Where", "", At(c, "settle", NoResponse)) \/ Main(c, {})
      BY <1>10, Zenon DEF StartRequest
    <2>2. Onward(c, At(c, "settle", NoResponse))
      BY <1>1, OnwardAt
    <2> QED BY <1>3, <1>8, <1>9, <2>1, <2>2
  <1>11. CASE Settle(c)
    <2>1. (\E r : eval_condition_loop(c, r, 0, TRUE)) \/ (\E pre : Main(c, pre))
      BY <1>11, Zenon DEF Settle
    <2> QED BY <1>3, <1>5, <2>1
  <1>12. CASE Judge(c)
    <2>1. (\E r : AfterLoop(c, r)) \/ Call(c, "Cont", "", [cl[c] EXCEPT !.at = "auto cont"])
      BY <1>12, Zenon DEF Judge
    <2>2. Onward(c, [cl[c] EXCEPT !.at = "auto cont"])
      BY <1>1 DEF Onward, Serving, ClOK
    <2> QED BY <1>4, <1>8, <1>9, <2>1, <2>2
  <1>13. CASE AutoContinued(c)
    <2>1. \/ \E r : AfterLoop(c, r)
          \/ \E r, s : eval_condition_loop(c, r, cl[c].iter + 1, s)
      BY <1>13, Zenon DEF AutoContinued
    <2>2. cl[c].iter + 1 \in Nat
      <3>1. cl[c].iter \in Nat
        BY <1>1, HandlerAssumption DEF Serving, ClOK
      <3> QED BY <3>1
    <2> QED BY <1>4, <1>5, <2>1, <2>2
  <1>14. CASE MainAnswered(c)
    <2>1. \/ \E r : eval_condition_loop(c, r, 0, FALSE)
          \/ \E r : Reply(c, r)
          \/ \E r : Call(c, "Set", "quoted", At(c, "retry", r))
      BY <1>14, Zenon DEF MainAnswered
    <2>2. \A r : Onward(c, At(c, "retry", r))
      BY <1>1, OnwardAt
    <2> QED BY <1>2, <1>5, <1>8, <1>9, <2>1, <2>2
  <1>15. CASE Retried(c)
    <2>1. \E r : Reply(c, r)
      BY <1>15, Zenon DEF Retried
    <2> QED BY <1>2, <2>1
  <1>16. CASE GotFrame(c) \/ GotSource(c) \/ GotThreadId(c)
    <2>1. \E r : enrich_source(c, r) \/ enrich_thread_id(c, r) \/ check_line_mismatch(c, r)
      BY <1>16, Zenon DEF GotFrame, GotSource, GotThreadId
    <2> QED BY <1>6, <2>1
  <1>17. CASE GotSize(c)
    <2>1. \/ \E r, n : NextElement(c, r, n)
          \/ Call(c, "Print", Req(c).arg \o ".length", [cl[c] EXCEPT !.at = "length"])
      BY <1>17, Zenon DEF GotSize
    <2>2. Onward(c, [cl[c] EXCEPT !.at = "length"])
      BY <1>1 DEF Onward, Serving, ClOK
    <2>3. Req(c).arg \in STRING
      BY <1>1 DEF Serving, ReqFacts
    <2>4. Req(c).arg \o ".length" \in Args
      BY <2>3, ArgTypes
    <2> QED BY <1>7, <1>8, <2>1, <2>2, <2>4
  <1>18. CASE GotElement(c)
    <2>1. \/ \E r, n : NextElement(c, r, n)
          \/ Call(c, "Print", Req(c).arg \o ".index", [cl[c] EXCEPT !.at = "index"])
          \/ \E r : Reply(c, r)
      BY <1>18, Zenon DEF GotElement, Inspected
    <2>2. Onward(c, [cl[c] EXCEPT !.at = "index"])
      BY <1>1 DEF Onward, Serving, ClOK
    <2>3. Req(c).arg \in STRING
      BY <1>1 DEF Serving, ReqFacts
    <2>4. Req(c).arg \o ".index" \in Args
      BY <2>3, ArgTypes
    <2> QED BY <1>2, <1>7, <1>8, <2>1, <2>2, <2>4
  <1> QED BY <1>10, <1>11, <1>12, <1>13, <1>14, <1>15, <1>16, <1>17, <1>18 DEF HandlerStep

LEMMA HandlerTypes ==
    ASSUME TypeInv, NEW c \in Clients, HandlerStep(c)
    PROVE  TypeInv'
  <1>0. /\ plan \in Plans /\ TargetTypes /\ PipeTypes /\ SessionTypes /\ ClientTypes
        /\ written \in Nat
    BY DEF TypeInv, ProcessTypes, TargetTypes, SessionTypes
  <1>1. UNCHANGED processVars /\ UNCHANGED <<opening, inner, state, written, misread>>
    BY DEF HandlerStep
  <1>2. TargetTypes' /\ plan' = plan
    BY <1>0, <1>1, TargetStays DEF processVars
  <1>3. PipeTypes'
    BY <1>0, <1>1, <1>2, SamePlan DEF PipeTypes, processVars, pipeVars, readerVars
  <1>4. SessionTypes'
    BY <1>0, <1>1 DEF SessionTypes
  <1>5. PICK e, k : /\ Fresh(e) /\ ClOK(c, k)
                    /\ ex' = [ex EXCEPT ![c] = e] /\ cl' = [cl EXCEPT ![c] = k]
    BY HandlerMoves DEF Moves
  <1>6. ExOK(e) /\ e.stage \notin Inside /\ e.stage \notin {"read", "drain"}
    BY <1>0, <1>5, FreshTypes, DoneIsOutside
  <1>7. written' \in Nat /\ written' >= written
    BY <1>0, <1>1
  <1>8. ClientTypes'
    BY <1>0, <1>1, <1>2, <1>5, <1>6, <1>7, ClientMoves
  <1> QED BY <1>2, <1>3, <1>4, <1>8 DEF TypeInv, ProcessTypes

-----------------------------------------------------------------------------
(* Every run                                                               *)

LEMMA InitTypes == Init => TypeInv
  <1> SUFFICES ASSUME Init PROVE TypeInv
    OBVIOUS
  <1>1. plan \in Plans /\ Len(plan.names) \in Nat /\ Len(plan.hits) \in Nat
    BY PlanLengths DEF Init, SessionInit, ProcessInit
  <1>2. Text({"VM Started"}, 0) \in Lines /\ Bare \in Lines
    <2>1. {"VM Started"} \in SUBSET Words
      BY DEF Words
    <2> QED BY <1>1, <2>1, TextBareTypes
  <1>3. Line("fatal", 0, "", 0, {}, 0) \in Lines
    BY <1>1, PlainKinds, PlainLine
  <1>4. TargetTypes
    <2>1. late = [when |-> "soon", lines |-> <<Text({"VM Started"}, 0), Bare>>] \/ late = NoneLate
      BY Zenon DEF Init, SessionInit, ProcessInit
    <2>2. <<Text({"VM Started"}, 0), Bare>> \in Seq(Lines)
      BY <1>2, SeqOfTwo
    <2>3. late \in [when : {"none", "soon", "later", "stall"}, lines : Seq(Lines)]
      <3>1. PICK both : both = <<Text({"VM Started"}, 0), Bare>>
        OBVIOUS
      <3>2. late = [when |-> "soon", lines |-> both] \/ late = [when |-> "none", lines |-> <<>>]
        BY <2>1, <3>1, Zenon DEF NoneLate
      <3>3. both \in Seq(Lines)
        BY <2>2, <3>1
      <3>4. <<>> \in Seq(Lines)
        BY EmptySeq
      <3>5. ASSUME late = [when |-> "none", lines |-> <<>>]
            PROVE  late \in [when : {"none", "soon", "later", "stall"}, lines : Seq(Lines)]
        BY <3>4, <3>5
      <3>6. ASSUME late = [when |-> "soon", lines |-> both]
            PROVE  late \in [when : {"none", "soon", "later", "stall"}, lines : Seq(Lines)]
        BY <3>3, <3>6
      <3> QED BY <3>2, <3>5, <3>6
    <2>4. vm \in {"unstarted", "running", "stopped", "gone"}
      BY DEF Init, SessionInit, ProcessInit
    <2>5. held = {} /\ cur = 0 /\ raised = 0
      BY DEF Init, SessionInit, ProcessInit
    <2> QED BY <1>1, <2>3, <2>4, <2>5 DEF TargetTypes
  <1>5. PipeTypes
    <2>1. stdout \in {<<Line("fatal", 0, "", 0, {}, 0)>>, <<>>, <<Bare>>}
      BY Zenon DEF Init, SessionInit, ProcessInit, Greeting
    <2>2. stdout \in Seq(Lines)
      BY <1>2, <1>3, <2>1, SeqOfOne, EmptySeq
    <2>3. /\ stdin = <<>> /\ buf = <<>> /\ patience = FALSE /\ eof = FALSE
          /\ closed = (plan.start \in {"refused", "dies"})
      BY DEF Init, SessionInit, ProcessInit
    <2>4. <<>> \in Seq(Commands) /\ <<>> \in Seq(Lines) /\ closed \in BOOLEAN
      BY <2>3, EmptySeq
    <2> QED BY <2>2, <2>3, <2>4, Zenon DEF PipeTypes
  <1>6. SessionTypes
    <2>1. /\ opening \in {"launch", "handshake"} /\ inner = NoOne /\ state = "Loaded"
          /\ written = 0 /\ misread = {}
      BY DEF Init, SessionInit
    <2> QED BY <2>1 DEF SessionTypes, RunStates
  <1>7. ClientTypes
    <2>1. ex = [c \in Clients |-> Idle] /\ cl = [c \in Clients |-> AtRest]
      BY DEF Init, SessionInit
    <2>2. ExOK(Idle) /\ Idle.stage = "none"
      <3>1. Fresh(Idle) /\ Idle.stage = "none"
        BY DEF Fresh, Idle
      <3> QED BY <1>1, <3>1, FreshTypes
    <2>3. \A c \in Clients : ClOK(c, AtRest)
      BY HandlerAssumption DEF ClOK, AtRest
    <2>4. "none" \notin Inside \cup {"read", "drain"}
      BY DoneIsOutside
    <2> HIDE DEF Idle, AtRest
    <2> QED BY <2>1, <2>2, <2>3, <2>4, Zenon DEF ClientTypes
  <1> QED BY <1>4, <1>5, <1>6, <1>7 DEF TypeInv, ProcessTypes

LEMMA StillTypes ==
    ASSUME TypeInv, UNCHANGED vars
    PROVE  TypeInv'
  <1>0. /\ plan \in Plans /\ TargetTypes /\ PipeTypes /\ SessionTypes /\ ClientTypes
    BY DEF TypeInv, ProcessTypes, TargetTypes
  <1>1. UNCHANGED <<targetVars, pipeVars, readerVars, sessionVars, handlerVars>>
    BY DEF vars, jdbVars, processVars
  <1>2. TargetTypes' /\ plan' = plan
    BY <1>0, <1>1, TargetStays
  <1>3. PipeTypes'
    BY <1>0, <1>1, <1>2, SamePlan DEF PipeTypes, pipeVars, readerVars
  <1>4. SessionTypes' /\ ClientTypes'
    BY <1>0, <1>1, <1>2, ClientsStay DEF SessionTypes, sessionVars, handlerVars
  <1> QED BY <1>2, <1>3, <1>4 DEF TypeInv, ProcessTypes

LEMMA NextTypes == TypeInv /\ [Next]_vars => TypeInv'
  <1>1. ASSUME TypeInv, NEW c \in Clients, ClientStep(c) PROVE TypeInv'
    BY <1>1, HandlerTypes, ExecuteTypes DEF ClientStep
  <1>2. ASSUME TypeInv, Next PROVE TypeInv'
    <2>1. \/ (OpenerStep \/ JdbProcessStep) /\ UNCHANGED handlerVars
          \/ \E c \in Clients : ClientStep(c)
      BY <1>2, Zenon DEF Next
    <2> QED BY <1>1, <1>2, <2>1, OpenTypes
  <1> QED BY <1>2, StillTypes

LEMMA TypeInvOK == TypeInv => TypeOK
  <1> SUFFICES ASSUME TypeInv PROVE TypeOK
    OBVIOUS
  <1>1. ASSUME NEW c \in Clients
        PROVE  /\ cl[c].iter \in 0 .. MaxIterations
               /\ ex[c].stage \notin {"none", "acquire", "acquire status", "done"} => inner = c
    <2>1. ExOK(ex[c]) /\ ClOK(c, cl[c]) /\ (ex[c].stage \in Inside => inner = c)
      BY DEF TypeInv, ClientTypes
    <2> QED BY <2>1 DEF ExOK, ClOK, Outside
  <1>2. TargetTypes /\ PipeTypes /\ SessionTypes
    BY DEF TypeInv, ProcessTypes
  <1> QED BY <1>1, <1>2 DEF TypeOK, TargetTypes, PipeTypes, SessionTypes

-----------------------------------------------------------------------------
(* What jdb's output looks like while a command is answered                *)

\* What jdb has printed and no command has taken.
Output == buf \o stdout

Enders == {"prompt", "bare"}
Tame   == {"text", "group", "thread", "frame", "owner", "assign", "field", "source"}

Bares(q) == \A i \in 1 .. Len(q) : q[i].is = "bare"

\* The answer to command n, whole.
Replied(q, n) ==
    /\ q # <<>> /\ q[Len(q)].is \in Enders
    /\ \A i \in 1 .. (Len(q) - 1) : q[i].is \in Tame /\ q[i].cmd = n

\* The answer to a resuming command n that did not resume the target.
Refused(q, n) ==
    \E b \in 0 .. Len(q) :
        /\ Len(q) = b + 2
        /\ \A i \in 1 .. b : q[i].is = "bare"
        /\ q[b + 1].is \in {"text", "nothing"} /\ q[b + 1].cmd = n
        /\ q[b + 2].is \in Enders

\* What is left to read when jdb is gone.
Ended(q) ==
    \A i \in 1 .. Len(q) : q[i].is = "bare" \/ (i = Len(q) /\ q[i].is \in {"exit", "fatal"})

\* The banner of hit h begins at b, its prompt is at p, and what follows is the
\* rest that was late.
BannerAt(q, h, b, p) ==
    /\ \A i \in 1 .. (b - 1) : q[i].is = "bare"
    /\ q[b].of = h
    /\ \/ q[b].is = "head" /\ p = b + 2 /\ q[b + 1].is = "loc" /\ q[b + 1].of = h
       \/ q[b].is \in {"exception", "watch"} /\ p = b + 1
    /\ q[p].is = "prompt"
    /\ \A i \in (p + 1) .. Len(q) :
          \/ q[i].is \in {"text", "prompt"}
          \/ q[i].is = "bare" /\ q[b].is = "head"
    /\ q[Len(q)].is \in Enders

-----------------------------------------------------------------------------
(* Reading it                                                              *)

\* t is what has been received of q.
PrefixOf(t, q) == Len(t) <= Len(q) /\ \A i \in 1 .. Len(t) : t[i] = q[i]

LEMMA TextFacts ==
    ASSUME NEW t \in Seq(Lines)
    PROVE  /\ Len(t) \in Nat /\ DOMAIN t = 1 .. Len(t)
           /\ \A k : Has(t, k) <=> \E i \in 1 .. Len(t) : t[i].is = k
           /\ \A k : EndsWith(t, k) <=> Len(t) > 0 /\ t[Len(t)].is = k
           /\ t # <<>> <=> Len(t) > 0
  <1>1. Len(t) \in Nat /\ DOMAIN t = 1 .. Len(t) /\ (t # <<>> <=> Len(t) > 0)
    BY LenProperties, EmptySeq
  <1>2. \A k : Has(t, k) <=> \E i \in 1 .. Len(t) : t[i].is = k
    BY <1>1 DEF Has, Places
  <1>3. \A k : EndsWith(t, k) <=> Len(t) > 0 /\ t[Len(t)].is = k
    <2>1. CASE t = <<>>
      BY <1>1, <2>1 DEF EndsWith
    <2>2. CASE t # <<>>
      <3>1. Last(t) = t[Len(t)]
        BY <2>2, FrontLast
      <3> QED BY <1>1, <2>2, <3>1 DEF EndsWith
    <2> QED BY <2>1, <2>2
  <1> QED BY <1>1, <1>2, <1>3

\* The alternatives of try_match.
LEMMA MatchCases ==
    ASSUME NEW t, NEW mode
    PROVE  /\ Has(t, "fatal") => try_match(t, mode) = Outcome("Fatal", <<>>, NoStop)
           /\ ~Has(t, "fatal") /\ Has(t, "exit") => try_match(t, mode) = Outcome("VmExit", t, NoStop)
           /\ ~Has(t, "fatal") /\ ~Has(t, "exit") =>
                 /\ EndsWith(t, "prompt") \/ (EndsWith(t, "bare") /\ mode = "Normal")
                       => try_match(t, mode) =
                             Outcome("Prompt", Front(t), detect_event(Front(t), Last(t).who))
                 /\ ~EndsWith(t, "prompt") /\ mode # "Normal" /\ EndsWith(t, "bare") =>
                       /\ FullBanners(t) # {} =>
                             try_match(t, mode) = PartialStop(t[Least(FullBanners(t))], Front(t))
                       /\ FullBanners(t) = {} /\ Has(t, "nothing") =>
                             try_match(t, mode) = Outcome("Prompt", Front(t), NoStop)
                       /\ FullBanners(t) = {} /\ ~Has(t, "nothing") => try_match(t, mode) = NoOutcome
                 /\ ~EndsWith(t, "prompt") /\ ~EndsWith(t, "bare") => try_match(t, mode) = NoOutcome
  BY Zenon DEF try_match

LEMMA OutcomeFields ==
    ASSUME NEW k, NEW t, NEW e
    PROVE  /\ Outcome(k, t, e).kind = k /\ Outcome(k, t, e).output = t /\ Outcome(k, t, e).event = e
           /\ NoOutcome.kind = "none" /\ NoOutcome.event = NoStop
           /\ k # "none" => Outcome(k, t, e) # NoOutcome
  BY DEF Outcome, NoOutcome

\* Without a banner there is no event.
LEMMA NoBannerNoEvent ==
    ASSUME NEW t \in Seq(Lines), NEW who,
           \A i \in 1 .. Len(t) : t[i].is \notin {"head", "exception", "watch"}
    PROVE  detect_event(t, who) = NoStop /\ FullBanners(t) = {}
  <1>1. Len(t) \in Nat /\ DOMAIN t = 1 .. Len(t)
    BY TextFacts
  <1>2. FullBanners(t) = {}
    BY <1>1 DEF FullBanners
  <1>3. Places(t, "exception") = {} /\ Places(t, "watch") = {}
    BY <1>1 DEF Places
  <1> QED BY <1>2, <1>3, Zenon DEF detect_event

LEMMA FrontFacts ==
    ASSUME NEW t \in Seq(Lines), Len(t) > 0
    PROVE  /\ Front(t) \in Seq(Lines) /\ Len(Front(t)) = Len(t) - 1
           /\ \A i \in 1 .. (Len(t) - 1) : Front(t)[i] = t[i]
           /\ Last(t) = t[Len(t)] /\ Last(t) \in Lines
  <1>1. t # <<>>
    BY TextFacts
  <1> QED BY <1>1, FrontLast

\* A command that does not resume the target is answered at its prompt.
LEMMA ReadsReply ==
    ASSUME NEW q \in Seq(Lines), NEW n, Replied(q, n), NEW t \in Seq(Lines), PrefixOf(t, q)
    PROVE  /\ Len(t) < Len(q) => try_match(t, "Normal") = NoOutcome
           /\ Len(t) = Len(q) => /\ try_match(t, "Normal").kind = "Prompt"
                                 /\ try_match(t, "Normal").event = NoStop
                                 /\ \A i \in DOMAIN try_match(t, "Normal").output :
                                       try_match(t, "Normal").output[i].cmd = n
  <1>1. /\ Len(q) \in Nat /\ Len(t) \in Nat /\ Len(q) > 0
        /\ \A i \in 1 .. Len(t) : t[i] = q[i] /\ Len(t) <= Len(q)
    BY TextFacts DEF PrefixOf, Replied
  <1>2. \A i \in 1 .. (Len(q) - 1) : q[i].is \in Tame /\ q[i].cmd = n
    BY DEF Replied
  <1>3. q[Len(q)].is \in Enders
    BY DEF Replied
  <1>4. ~Has(t, "fatal") /\ ~Has(t, "exit")
    <2>1. \A i \in 1 .. Len(t) : t[i].is \in Tame \cup Enders
      BY <1>1, <1>2, <1>3
    <2>2. "fatal" \notin Tame \cup Enders /\ "exit" \notin Tame \cup Enders
      BY DEF Tame, Enders
    <2> QED BY <2>1, <2>2, TextFacts
  <1>5. CASE Len(t) < Len(q)
    <2>1. ~EndsWith(t, "prompt") /\ ~EndsWith(t, "bare")
      BY <1>1, <1>2, <1>5, TextFacts DEF Tame
    <2> QED BY <1>4, <1>5, <1>1, <2>1, MatchCases
  <1>6. CASE Len(t) = Len(q)
    <2>1. EndsWith(t, "prompt") \/ EndsWith(t, "bare")
      BY <1>1, <1>3, <1>6, TextFacts DEF Enders
    <2>2. try_match(t, "Normal") = Outcome("Prompt", Front(t), detect_event(Front(t), Last(t).who))
      BY <1>4, <2>1, MatchCases
    <2>3. /\ Front(t) \in Seq(Lines) /\ Len(Front(t)) = Len(t) - 1
          /\ \A i \in 1 .. (Len(t) - 1) : Front(t)[i] = t[i]
      BY <1>1, <1>6, FrontFacts
    <2>4. \A i \in 1 .. Len(Front(t)) : Front(t)[i].is \in Tame /\ Front(t)[i].cmd = n
      BY <1>1, <1>2, <1>6, <2>3
    <2>5. detect_event(Front(t), Last(t).who) = NoStop
      BY <2>3, <2>4, NoBannerNoEvent DEF Tame
    <2>6. DOMAIN Front(t) = 1 .. Len(Front(t))
      BY <2>3, TextFacts
    <2>7. try_match(t, "Normal") = Outcome("Prompt", Front(t), NoStop)
      BY <2>2, <2>5
    <2>8. /\ try_match(t, "Normal").kind = "Prompt" /\ try_match(t, "Normal").event = NoStop
          /\ try_match(t, "Normal").output = Front(t)
      BY <2>7, OutcomeFields
    <2> QED BY <1>6, <2>4, <2>6, <2>8
  <1> QED BY <1>1, <1>5, <1>6

\* A resuming command waits through bare prompts.
LEMMA ReadsBares ==
    ASSUME NEW t \in Seq(Lines), Bares(t)
    PROVE  try_match(t, "Blocking") = NoOutcome /\ ~tail_is_partial_banner(t)
  <1>1. Len(t) \in Nat /\ \A i \in 1 .. Len(t) : t[i].is = "bare"
    BY TextFacts DEF Bares
  <1>2. ~Has(t, "fatal") /\ ~Has(t, "exit") /\ ~Has(t, "nothing")
    BY <1>1, TextFacts
  <1>3. ~EndsWith(t, "prompt") /\ ~EndsWith(t, "head")
    BY <1>1, TextFacts
  <1>4. FullBanners(t) = {}
    BY <1>1, NoBannerNoEvent
  <1>5. try_match(t, "Blocking") = NoOutcome
    BY <1>2, <1>3, <1>4, MatchCases
  <1> QED BY <1>3, <1>5 DEF tail_is_partial_banner

\* A resuming command that is declined is answered at the prompt, or not at all
\* when that is bare and jdb said anything else than "Nothing suspended".
LEMMA ReadsRefusal ==
    ASSUME NEW q \in Seq(Lines), NEW n, Refused(q, n), NEW t \in Seq(Lines), PrefixOf(t, q)
    PROVE  LET o == try_match(t, "Blocking")
           IN  /\ o # NoOutcome => /\ Len(t) = Len(q) /\ o.kind = "Prompt" /\ o.event = NoStop
                                   /\ \A i \in DOMAIN o.output :
                                         o.output[i].is = "bare" \/ o.output[i].cmd = n
               /\ Len(t) = Len(q) /\ q[Len(q)].is = "prompt" => o # NoOutcome
               /\ ~tail_is_partial_banner(t)
  <1> DEFINE o == try_match(t, "Blocking")
  <1>1. PICK b \in 0 .. Len(q) :
           /\ Len(q) = b + 2
           /\ \A i \in 1 .. b : q[i].is = "bare"
           /\ q[b + 1].is \in {"text", "nothing"} /\ q[b + 1].cmd = n
           /\ q[b + 2].is \in Enders
    BY DEF Refused
  <1>2. Len(q) \in Nat /\ Len(t) \in Nat /\ Len(t) <= Len(q) /\ \A i \in 1 .. Len(t) : t[i] = q[i]
    BY TextFacts DEF PrefixOf
  <1>3. \A i \in 1 .. Len(t) : t[i].is \in {"bare", "text", "nothing", "prompt"}
    <2>1. ASSUME NEW i \in 1 .. Len(t) PROVE t[i].is \in {"bare", "text", "nothing", "prompt"}
      <3>1. t[i] = q[i] /\ (i \in 1 .. b \/ i = b + 1 \/ i = b + 2)
        BY <1>1, <1>2
      <3> QED BY <1>1, <3>1 DEF Enders
    <2> QED BY <2>1
  <1>4. ~Has(t, "fatal") /\ ~Has(t, "exit") /\ ~EndsWith(t, "head")
    <2>1. ~Has(t, "fatal") /\ ~Has(t, "exit")
      BY <1>3, TextFacts
    <2>2. ~EndsWith(t, "head")
      BY <1>2, <1>3, TextFacts
    <2> QED BY <2>1, <2>2
  <1>5. FullBanners(t) = {}
    BY <1>3, NoBannerNoEvent
  <1>6. CASE EndsWith(t, "prompt")
    <2>1. Len(t) > 0 /\ t[Len(t)].is = "prompt"
      BY <1>6, TextFacts
    <2>2. Len(t) = Len(q)
      <3>1. Len(t) \notin 1 .. b /\ Len(t) # b + 1
        BY <1>1, <1>2, <2>1
      <3> QED BY <1>1, <1>2, <2>1, <3>1
    <2>3. o = Outcome("Prompt", Front(t), detect_event(Front(t), Last(t).who))
      BY <1>4, <1>6, MatchCases
    <2>4. /\ Front(t) \in Seq(Lines) /\ Len(Front(t)) = Len(t) - 1
          /\ \A i \in 1 .. (Len(t) - 1) : Front(t)[i] = t[i]
      BY <2>1, FrontFacts
    <2>5. \A i \in 1 .. Len(Front(t)) : Front(t)[i].is \in {"bare", "text", "nothing", "prompt"}
      BY <1>2, <1>3, <2>4
    <2>6. detect_event(Front(t), Last(t).who) = NoStop
      BY <2>4, <2>5, NoBannerNoEvent
    <2>7. \A i \in DOMAIN Front(t) : Front(t)[i].is = "bare" \/ Front(t)[i].cmd = n
      <3>1. DOMAIN Front(t) = 1 .. (Len(t) - 1)
        BY <2>4, TextFacts
      <3> QED BY <1>1, <1>2, <2>2, <2>4, <3>1
    <2>8. o.kind = "Prompt" /\ o.event = NoStop /\ o.output = Front(t) /\ o # NoOutcome
      BY <2>3, <2>6, OutcomeFields
    <2> HIDE DEF o
    <2>9. o.kind = "Prompt" /\ o.event = NoStop /\ o # NoOutcome
          /\ (\A i \in DOMAIN o.output : o.output[i].is = "bare" \/ o.output[i].cmd = n)
      BY <2>7, <2>8
    <2> QED BY <1>4, <2>2, <2>9 DEF o, tail_is_partial_banner
  <1>7. CASE ~EndsWith(t, "prompt")
    <2>1. o # NoOutcome => EndsWith(t, "bare") /\ Has(t, "nothing") /\ o = Outcome("Prompt", Front(t), NoStop)
      BY <1>4, <1>5, <1>7, MatchCases
    <2>2. ASSUME EndsWith(t, "bare"), Has(t, "nothing")
          PROVE  Len(t) = Len(q)
      <3>1. PICK i \in 1 .. Len(t) : t[i].is = "nothing"
        BY <2>2, TextFacts
      <3>2. i \notin 1 .. b /\ t[Len(t)].is = "bare"
        BY <1>1, <1>2, <2>2, <3>1, TextFacts
      <3>3. Len(t) # b + 1
        BY <1>1, <1>2, <3>1, <3>2
      <3> QED BY <1>1, <1>2, <3>1, <3>2, <3>3
    <2>3. ASSUME o # NoOutcome
          PROVE  /\ Len(t) = Len(q) /\ o.kind = "Prompt" /\ o.event = NoStop
                 /\ \A i \in DOMAIN o.output : o.output[i].is = "bare" \/ o.output[i].cmd = n
      <3>1. Len(t) = Len(q) /\ Len(t) > 0
        BY <1>1, <1>2, <2>1, <2>2, <2>3
      <3>2. /\ Front(t) \in Seq(Lines) /\ Len(Front(t)) = Len(t) - 1
            /\ \A i \in 1 .. (Len(t) - 1) : Front(t)[i] = t[i]
        BY <3>1, FrontFacts
      <3>3. DOMAIN Front(t) = 1 .. (Len(t) - 1)
        BY <3>2, TextFacts
      <3>4. \A i \in DOMAIN Front(t) : Front(t)[i].is = "bare" \/ Front(t)[i].cmd = n
        BY <1>1, <1>2, <3>1, <3>2, <3>3
      <3>5. o.kind = "Prompt" /\ o.event = NoStop /\ o.output = Front(t)
        BY <2>1, <2>3, OutcomeFields
      <3> HIDE DEF o
      <3> QED BY <3>1, <3>4, <3>5
    <2>4. Len(t) = Len(q) => q[Len(q)].is # "prompt"
      BY <1>1, <1>2, <1>7, TextFacts
    <2> QED BY <1>4, <2>3, <2>4 DEF tail_is_partial_banner
  <1> QED BY <1>6, <1>7

\* At the end of the stream a command learns that, or that the target is gone.
LEMMA ReadsEnd ==
    ASSUME NEW q \in Seq(Lines), Ended(q), NEW t \in Seq(Lines), PrefixOf(t, q)
    PROVE  /\ \/ try_match(t, "Blocking") = NoOutcome
              \/ /\ try_match(t, "Blocking").kind \in {"Fatal", "VmExit"}
                 /\ try_match(t, "Blocking").event = NoStop
           /\ ~tail_is_partial_banner(t)
  <1>1. Len(q) \in Nat /\ Len(t) \in Nat /\ Len(t) <= Len(q) /\ \A i \in 1 .. Len(t) : t[i] = q[i]
    BY TextFacts DEF PrefixOf
  <1>2. \A i \in 1 .. Len(t) : t[i].is \in {"bare", "exit", "fatal"}
    BY <1>1 DEF Ended
  <1>3. ~Has(t, "nothing") /\ ~EndsWith(t, "prompt") /\ ~EndsWith(t, "head")
    BY <1>1, <1>2, TextFacts
  <1>4. FullBanners(t) = {}
    BY <1>2, NoBannerNoEvent
  <1>5. CASE Has(t, "fatal")
    <2>1. try_match(t, "Blocking") = Outcome("Fatal", <<>>, NoStop)
      BY <1>5, MatchCases
    <2> QED BY <1>3, <2>1, OutcomeFields DEF tail_is_partial_banner
  <1>6. CASE ~Has(t, "fatal") /\ Has(t, "exit")
    <2>1. try_match(t, "Blocking") = Outcome("VmExit", t, NoStop)
      BY <1>6, MatchCases
    <2> QED BY <1>3, <2>1, OutcomeFields DEF tail_is_partial_banner
  <1>7. CASE ~Has(t, "fatal") /\ ~Has(t, "exit")
    <2>1. try_match(t, "Blocking") = NoOutcome
      BY <1>3, <1>4, <1>7, MatchCases
    <2> QED BY <1>3, <2>1 DEF tail_is_partial_banner
  <1> QED BY <1>5, <1>6, <1>7

LEMMA LeastOfOne ==
    ASSUME NEW b
    PROVE  Least({b}) = b
  BY DEF Least

LEMMA EventFacts ==
    ASSUME NEW kind, NEW at, NEW who, NEW h, h # 0
    PROVE  /\ Event(kind, at, who, h) # NoStop /\ Event(kind, at, who, h).hit = h
           /\ is_partial_stopped(event_to_result(Event(kind, at, who, h))) =>
                 kind # "Exception" /\ at = 0
  <1> DEFINE e == Event(kind, at, who, h)
  <1>1. e.hit = h /\ e.kind = kind /\ e.at = at /\ NoStop.hit = 0
    BY DEF Event, NoStop
  <1>2. e # NoStop
    BY <1>1
  <1> HIDE DEF e
  <1>3. event_to_result(e).at = e.at
    BY DEF event_to_result, Response
  <1>4. event_to_result(e).kind = IF e.kind = "Exception" THEN "ExceptionCaught" ELSE "Stopped"
    BY DEF event_to_result, Response
  <1>5. is_partial_stopped(event_to_result(e)) => kind # "Exception" /\ at = 0
    BY <1>1, <1>3, <1>4 DEF is_partial_stopped
  <1> QED BY <1>1, <1>2, <1>5 DEF e

\* Where a banner is, and where prompts are.
LEMMA BannerShape ==
    ASSUME NEW q \in Seq(Lines), NEW h, NEW b \in 1 .. Len(q), NEW p \in 1 .. Len(q),
           BannerAt(q, h, b, p)
    PROVE  /\ b < p /\ \A i \in 1 .. (b - 1) : q[i].is = "bare"
           /\ \/ q[b].is = "head" /\ p = b + 2 /\ q[b + 1].is = "loc" /\ q[b + 1].of = h
              \/ q[b].is \in {"exception", "watch"} /\ p = b + 1
           /\ \A i \in p .. Len(q) : q[i].is \in {"text", "prompt", "bare"}
           /\ \A i \in b .. p : q[i].is # "bare" /\ q[i].is \notin {"fatal", "exit", "nothing"}
           /\ \A i \in 1 .. (p - 1) : q[i].is # "prompt"
           /\ \A i \in 1 .. Len(q) : /\ i # b => q[i].is \notin {"head", "exception", "watch"}
                                     /\ q[i].is \notin {"fatal", "exit", "nothing"}
  <1>0. Len(q) \in Nat
    BY TextFacts
  <1>1. /\ \A i \in 1 .. (b - 1) : q[i].is = "bare"
        /\ \A i \in (p + 1) .. Len(q) : q[i].is \in {"text", "prompt", "bare"}
        /\ q[p].is = "prompt"
    BY DEF BannerAt
  <1>2. \/ q[b].is = "head" /\ p = b + 2 /\ q[b + 1].is = "loc" /\ q[b + 1].of = h
        \/ q[b].is \in {"exception", "watch"} /\ p = b + 1
    BY DEF BannerAt
  <1>3. b < p
    BY <1>2
  <1>4. \A i \in p .. Len(q) : q[i].is \in {"text", "prompt", "bare"}
    <2>1. \A i \in p .. Len(q) : i = p \/ i \in (p + 1) .. Len(q)
      BY <1>0
    <2> QED BY <1>1, <2>1
  <1>5. \A i \in b .. p : i = b \/ i = p \/ (q[b].is = "head" /\ i = b + 1)
    BY <1>2
  <1>6. \A i \in b .. p : q[i].is \in {"head", "exception", "watch", "loc", "prompt"}
    BY <1>1, <1>2, <1>5
  <1>7. \A i \in b .. p : i # b => q[i].is \in {"loc", "prompt"}
    BY <1>1, <1>2, <1>5
  <1>8. \A i \in b .. p : i # p => q[i].is # "prompt"
    BY <1>2, <1>5
  <1>9. \A i \in 1 .. Len(q) : i \in 1 .. (b - 1) \/ i \in b .. p \/ i \in p .. Len(q)
    BY <1>0, <1>3
  <1>10. \A i \in 1 .. (p - 1) : q[i].is # "prompt"
    <2>1. \A i \in 1 .. (p - 1) : i \in 1 .. (b - 1) \/ (i \in b .. p /\ i # p)
      BY <1>0, <1>3
    <2> QED BY <1>1, <1>8, <2>1
  <1>11. \A i \in b .. p : q[i].is # "bare" /\ q[i].is \notin {"fatal", "exit", "nothing"}
    BY <1>6
  <1>12. \A i \in 1 .. Len(q) : /\ i # b => q[i].is \notin {"head", "exception", "watch"}
                                /\ q[i].is \notin {"fatal", "exit", "nothing"}
    <2>1. ASSUME NEW i \in 1 .. Len(q)
          PROVE  /\ i # b => q[i].is \notin {"head", "exception", "watch"}
                 /\ q[i].is \notin {"fatal", "exit", "nothing"}
      <3>1. CASE i \in 1 .. (b - 1)
        <4>1. q[i].is = "bare"
          BY <1>1, <3>1
        <4> QED BY <4>1
      <3>2. CASE i \in b .. p
        BY <1>6, <1>7, <3>2
      <3>3. CASE i \in p .. Len(q)
        <4>1. q[i].is \in {"text", "prompt", "bare"}
          BY <1>4, <3>3
        <4> QED BY <4>1
      <3> QED BY <1>9, <3>1, <3>2, <3>3
    <2> QED BY <2>1
  <1> QED BY <1>1, <1>2, <1>3, <1>4, <1>10, <1>11, <1>12

\* The event that a whole banner announces.
LEMMA BannerEvent ==
    ASSUME NEW q \in Seq(Lines), NEW h, h # 0, NEW b \in 1 .. Len(q), NEW p \in 1 .. Len(q),
           BannerAt(q, h, b, p), NEW t \in Seq(Lines), PrefixOf(t, q), p <= Len(t) + 1, NEW who
    PROVE  \E kind, at, w : /\ detect_event(t, who) = Event(kind, at, w, h)
                            /\ kind = "Exception" \/ at # 0
  <1>1. Len(q) \in Nat /\ Len(t) \in Nat /\ Len(t) <= Len(q) /\ \A i \in 1 .. Len(t) : t[i] = q[i]
    BY TextFacts DEF PrefixOf
  <1>2. /\ b < p
        /\ \/ q[b].is = "head" /\ p = b + 2 /\ q[b + 1].is = "loc" /\ q[b + 1].of = h
           \/ q[b].is \in {"exception", "watch"} /\ p = b + 1
        /\ \A i \in 1 .. Len(q) : i # b => q[i].is \notin {"head", "exception", "watch"}
    BY BannerShape
  <1>3. q[b].of = h
    BY DEF BannerAt
  <1>4. b \in 1 .. Len(t) /\ t[b] = q[b]
    BY <1>1, <1>2
  <1>5. \A i \in 1 .. Len(t) : i # b => t[i].is \notin {"head", "exception", "watch"}
    BY <1>1, <1>2
  <1>6. DOMAIN t = 1 .. Len(t)
    BY TextFacts
  <1>7. CASE q[b].is = "head" /\ p = b + 2 /\ q[b + 1].is = "loc" /\ q[b + 1].of = h
    <2>1. b + 1 \in 1 .. Len(t) /\ t[b + 1] = q[b + 1]
      BY <1>1, <1>7
    <2>2. FullBanners(t) = {b}
      BY <1>1, <1>4, <1>5, <1>7, <2>1 DEF FullBanners
    <2>3. FullBanners(t) # {} /\ Least(FullBanners(t)) = b
      BY <2>2, LeastOfOne
    <2>4. detect_event(t, who) = Event(BannerKind(t[b]), t[b + 1].of, t[b + 1].who, t[b + 1].of)
      BY <2>3, Zenon DEF detect_event
    <2>5. t[b + 1].of = h
      BY <1>7, <2>1
    <2> QED BY <2>4, <2>5
  <1>8. CASE q[b].is = "exception"
    <2>1. FullBanners(t) = {}
      BY <1>4, <1>5, <1>8 DEF FullBanners
    <2>2. Places(t, "exception") = {b}
      BY <1>4, <1>5, <1>6, <1>8 DEF Places
    <2>3. Places(t, "exception") # {} /\ Least(Places(t, "exception")) = b
      BY <2>2, LeastOfOne
    <2>4. detect_event(t, who) = Event("Exception", 0, who, t[b].of)
      BY <2>1, <2>3, Zenon DEF detect_event
    <2> QED BY <1>3, <1>4, <2>4
  <1>9. CASE q[b].is = "watch"
    <2>1. FullBanners(t) = {}
      BY <1>4, <1>5, <1>9 DEF FullBanners
    <2>2. Places(t, "watch") = {b} /\ Places(t, "exception") = {}
      BY <1>4, <1>5, <1>6, <1>9 DEF Places
    <2>3. Places(t, "watch") # {} /\ Least(Places(t, "watch")) = b
      BY <2>2, LeastOfOne
    <2>4. detect_event(t, who) = Event("FieldWatch", t[b].of, t[b].who, t[b].of)
      BY <2>1, <2>2, <2>3, Zenon DEF detect_event
    <2> QED BY <1>3, <1>4, <2>4
  <1> QED BY <1>2, <1>7, <1>8, <1>9

\* A resuming command is answered by the banner of the stop it led to; the stop
\* is told as a partial one only if the late bare prompt has been read, too.
LEMMA ReadsBanner ==
    ASSUME NEW q \in Seq(Lines), NEW h, h # 0, NEW b \in 1 .. Len(q), NEW p \in 1 .. Len(q),
           BannerAt(q, h, b, p), NEW t \in Seq(Lines), PrefixOf(t, q)
    PROVE  LET o == try_match(t, "Blocking")
           IN  /\ o # NoOutcome =>
                     /\ o.kind = "Prompt" /\ o.event # NoStop /\ o.event.hit = h
                     /\ is_partial_stopped(event_to_result(o.event)) => p < Len(t)
               /\ Len(t) = Len(q) => o # NoOutcome /\ ~tail_is_partial_banner(t)
  <1> DEFINE o == try_match(t, "Blocking")
  <1>1. Len(q) \in Nat /\ Len(t) \in Nat /\ Len(t) <= Len(q) /\ \A i \in 1 .. Len(t) : t[i] = q[i]
    BY TextFacts DEF PrefixOf
  <1>2. /\ b < p /\ \A i \in 1 .. (b - 1) : q[i].is = "bare"
        /\ \/ q[b].is = "head" /\ p = b + 2 /\ q[b + 1].is = "loc" /\ q[b + 1].of = h
           \/ q[b].is \in {"exception", "watch"} /\ p = b + 1
        /\ \A i \in p .. Len(q) : q[i].is \in {"text", "prompt", "bare"}
        /\ \A i \in b .. p : q[i].is # "bare"
        /\ \A i \in 1 .. (p - 1) : q[i].is # "prompt"
    <2>1. /\ b < p /\ \A i \in 1 .. (b - 1) : q[i].is = "bare"
          /\ \/ q[b].is = "head" /\ p = b + 2 /\ q[b + 1].is = "loc" /\ q[b + 1].of = h
             \/ q[b].is \in {"exception", "watch"} /\ p = b + 1
          /\ \A i \in p .. Len(q) : q[i].is \in {"text", "prompt", "bare"}
          /\ \A i \in b .. p : q[i].is # "bare" /\ q[i].is \notin {"fatal", "exit", "nothing"}
          /\ \A i \in 1 .. (p - 1) : q[i].is # "prompt"
      BY BannerShape
    <2> QED BY <2>1
  <1>3. \A i \in 1 .. Len(q) : /\ i # b => q[i].is \notin {"head", "exception", "watch"}
                               /\ q[i].is \notin {"fatal", "exit", "nothing"}
    BY BannerShape
  <1>4. ~Has(t, "fatal") /\ ~Has(t, "exit") /\ ~Has(t, "nothing")
    <2>1. \A i \in 1 .. Len(t) : t[i].is \notin {"fatal", "exit", "nothing"}
      BY <1>1, <1>3
    <2> QED BY <2>1, TextFacts
  <1>5. q[b].of = h /\ q[Len(q)].is \in Enders
    BY DEF BannerAt
  <1>6. \A i \in FullBanners(t) : i = b
    <2>1. \A i \in FullBanners(t) : i \in 1 .. Len(t) /\ t[i].is = "head"
      BY <1>1 DEF FullBanners
    <2> QED BY <1>1, <1>3, <2>1
  <1>7. CASE EndsWith(t, "prompt")
    <2>1. Len(t) > 0 /\ t[Len(t)].is = "prompt"
      BY <1>7, TextFacts
    <2>2. p <= Len(t)
      <3>1. Len(t) \notin 1 .. (p - 1)
        BY <1>1, <1>2, <2>1
      <3> QED BY <1>1, <2>1, <3>1
    <2>3. o = Outcome("Prompt", Front(t), detect_event(Front(t), Last(t).who))
      BY <1>4, <1>7, MatchCases
    <2>4. /\ Front(t) \in Seq(Lines) /\ Len(Front(t)) = Len(t) - 1
          /\ \A i \in 1 .. (Len(t) - 1) : Front(t)[i] = t[i]
      BY <2>1, FrontFacts
    <2>5. PrefixOf(Front(t), q) /\ p <= Len(Front(t)) + 1
      BY <1>1, <2>2, <2>4 DEF PrefixOf
    <2>6. PICK kind, at, w : /\ detect_event(Front(t), Last(t).who) = Event(kind, at, w, h)
                             /\ kind = "Exception" \/ at # 0
      <3>1. PICK who : who = Last(t).who
        OBVIOUS
      <3>2. PICK f \in Seq(Lines) : f = Front(t)
        BY <2>4
      <3>3. PrefixOf(f, q) /\ p <= Len(f) + 1
        BY <2>5, <3>2
      <3>4. \E kind, at, w : /\ detect_event(f, who) = Event(kind, at, w, h)
                             /\ kind = "Exception" \/ at # 0
        BY <3>3, BannerEvent
      <3> QED BY <3>1, <3>2, <3>4
    <2>7. o.kind = "Prompt" /\ o.event = Event(kind, at, w, h) /\ o # NoOutcome
      BY <2>3, <2>6, OutcomeFields
    <2>8. /\ Event(kind, at, w, h) # NoStop /\ Event(kind, at, w, h).hit = h
          /\ ~is_partial_stopped(event_to_result(Event(kind, at, w, h)))
      BY <2>6, EventFacts
    <2>9. ~EndsWith(t, "head")
      BY <1>7, TextFacts
    <2> HIDE DEF o
    <2>10. o.event # NoStop /\ o.event.hit = h /\ ~is_partial_stopped(event_to_result(o.event))
      BY <2>7, <2>8, Zenon
    <2> QED BY <2>7, <2>9, <2>10 DEF o, tail_is_partial_banner
  <1>8. CASE ~EndsWith(t, "prompt") /\ EndsWith(t, "bare")
    <2>1. Len(t) > 0 /\ t[Len(t)].is = "bare"
      BY <1>8, TextFacts
    <2>2. CASE FullBanners(t) # {}
      <3>1. FullBanners(t) = {b}
        BY <1>6, <2>2
      <3>2. b \in FullBanners(t)
        BY <3>1
      <3>3. b + 1 <= Len(t) /\ t[b].is = "head"
        BY <1>1, <3>2 DEF FullBanners
      <3>4. p < Len(t)
        <4>1. Len(t) \notin b .. p
          BY <1>1, <1>2, <2>1
        <4> QED BY <1>1, <3>3, <4>1
      <3>5. o = PartialStop(t[b], Front(t))
        <4>1. o = PartialStop(t[Least(FullBanners(t))], Front(t))
          BY <1>4, <1>8, <2>2, MatchCases
        <4> QED BY <3>1, <4>1, LeastOfOne
      <3>6. t[b].of = h
        BY <1>1, <1>5, <3>3
      <3>7. PICK kind, e : o = Outcome("Prompt", Front(t), e) /\ e = Event(kind, 0, "", h)
        BY <3>5, <3>6, Zenon DEF PartialStop
      <3>8. o.kind = "Prompt" /\ o.event = e /\ o # NoOutcome
        <4>1. /\ Outcome("Prompt", Front(t), e).kind = "Prompt"
              /\ Outcome("Prompt", Front(t), e).event = e
              /\ Outcome("Prompt", Front(t), e) # NoOutcome
          BY OutcomeFields
        <4> QED BY <3>7, <4>1, Zenon
      <3>9. e # NoStop /\ e.hit = h
        <4>1. Event(kind, 0, "", h) # NoStop /\ Event(kind, 0, "", h).hit = h
          <5>1. PICK w : w = ""
            OBVIOUS
          <5>2. Event(kind, 0, w, h) # NoStop /\ Event(kind, 0, w, h).hit = h
            BY EventFacts
          <5> QED BY <5>1, <5>2, Zenon
        <4> QED BY <3>7, <4>1, Zenon
      <3>10. ~EndsWith(t, "head")
        BY <2>1, TextFacts
      <3> HIDE DEF o
      <3> QED BY <3>4, <3>8, <3>9, <3>10 DEF o, tail_is_partial_banner
    <2>3. CASE FullBanners(t) = {}
      <3>1. o = NoOutcome
        BY <1>4, <1>8, <2>3, MatchCases
      <3>2. ASSUME Len(t) = Len(q) PROVE FALSE
        <4>1. q[Len(q)].is = "bare" /\ p <= Len(q)
          BY <1>1, <2>1, <3>2
        <4>2. p < Len(q)
          <5>1. p \in b .. p
            BY <1>2
          <5>2. q[p].is # "bare"
            BY <1>2, <5>1
          <5> QED BY <1>1, <4>1, <5>2
        <4>3. q[b].is = "head"
          <5>1. \A i \in (p + 1) .. Len(q) :
                   \/ q[i].is \in {"text", "prompt"}
                   \/ q[i].is = "bare" /\ q[b].is = "head"
            BY DEF BannerAt
          <5>2. Len(q) \in (p + 1) .. Len(q)
            BY <1>1, <4>2
          <5> QED BY <4>1, <5>1, <5>2
        <4>4. p = b + 2 /\ q[b + 1].is = "loc"
          BY <1>2, <4>3
        <4>5. b \in 1 .. Len(t) - 1 /\ t[b].is = "head" /\ t[b + 1].is = "loc"
          BY <1>1, <3>2, <4>2, <4>3, <4>4
        <4>6. b \in FullBanners(t)
          BY <4>5 DEF FullBanners
        <4> QED BY <2>3, <4>6
      <3> QED BY <3>1, <3>2
    <2> QED BY <2>2, <2>3
  <1>9. CASE ~EndsWith(t, "prompt") /\ ~EndsWith(t, "bare")
    <2>1. o = NoOutcome
      BY <1>4, <1>9, MatchCases
    <2>2. Len(t) # Len(q)
      BY <1>1, <1>5, <1>9, TextFacts DEF Enders
    <2> QED BY <2>1, <2>2
  <1> QED BY <1>7, <1>8, <1>9

-----------------------------------------------------------------------------
(* Printing it                                                             *)

LEMMA Joined ==
    ASSUME NEW q \in Seq(Lines), NEW l \in Seq(Lines)
    PROVE  /\ q \o l \in Seq(Lines) /\ Len(q) \in Nat /\ Len(l) \in Nat
           /\ Len(q \o l) = Len(q) + Len(l)
           /\ \A i \in 1 .. Len(q) : (q \o l)[i] = q[i]
           /\ \A i \in 1 .. Len(l) : (q \o l)[Len(q) + i] = l[i]
           /\ \A i \in 1 .. Len(q \o l) :
                 i \in 1 .. Len(q) \/ \E j \in 1 .. Len(l) : i = Len(q) + j
  <1>1. Len(q) \in Nat /\ Len(l) \in Nat
    BY LenProperties
  <1>2. /\ q \o l \in Seq(Lines) /\ Len(q \o l) = Len(q) + Len(l)
        /\ \A i \in 1 .. Len(q) + Len(l) :
              (q \o l)[i] = IF i <= Len(q) THEN q[i] ELSE l[i - Len(q)]
    BY ConcatProperties
  <1>3. \A i \in 1 .. Len(q) : (q \o l)[i] = q[i]
    BY <1>1, <1>2
  <1>4. \A i \in 1 .. Len(l) : (q \o l)[Len(q) + i] = l[i]
    BY <1>1, <1>2
  <1>5. ASSUME NEW i \in 1 .. Len(q \o l)
        PROVE  i \in 1 .. Len(q) \/ \E j \in 1 .. Len(l) : i = Len(q) + j
    <2>1. CASE i <= Len(q)
      BY <1>1, <1>2, <2>1
    <2>2. CASE ~ (i <= Len(q))
      <3>1. i - Len(q) \in 1 .. Len(l) /\ i = Len(q) + (i - Len(q))
        BY <1>1, <1>2, <2>2
      <3> QED BY <3>1
    <2> QED BY <2>1, <2>2
  <1> QED BY <1>1, <1>2, <1>3, <1>4, <1>5

LEMMA OutputFacts ==
    ASSUME PipeTypes
    PROVE  /\ Output \in Seq(Lines) /\ PrefixOf(buf, Output)
           /\ Len(Output) = Len(buf) + Len(stdout) /\ Len(buf) \in Nat /\ Len(stdout) \in Nat
           /\ stdout = <<>> <=> Len(buf) = Len(Output)
           /\ stdout = <<>> => Output = buf
           /\ buf = <<>> => Output = stdout
           /\ \A i \in 1 .. Len(stdout) : Output[Len(buf) + i] = stdout[i]
  <1>1. buf \in Seq(Lines) /\ stdout \in Seq(Lines)
    BY DEF PipeTypes
  <1>2. stdout = <<>> <=> Len(stdout) = 0
    BY <1>1, EmptySeq
  <1>3. stdout = <<>> => Output = buf
    BY <1>1, ConcatEmptySeq DEF Output
  <1>4. buf = <<>> => Output = stdout
    BY <1>1, ConcatEmptySeq DEF Output
  <1>5. /\ Output \in Seq(Lines) /\ Len(buf) \in Nat /\ Len(stdout) \in Nat
        /\ Len(Output) = Len(buf) + Len(stdout)
        /\ \A i \in 1 .. Len(buf) : Output[i] = buf[i]
        /\ \A i \in 1 .. Len(stdout) : Output[Len(buf) + i] = stdout[i]
    BY <1>1, Joined DEF Output
  <1>6. PrefixOf(buf, Output)
    BY <1>5 DEF PrefixOf
  <1> QED BY <1>2, <1>3, <1>4, <1>5, <1>6

LEMMA EmitGrows ==
    ASSUME PipeTypes, NEW lines \in Seq(Lines), Emit(lines), buf' = buf
    PROVE  Output' = Output \o lines
  <1>1. buf \in Seq(Lines) /\ stdout \in Seq(Lines)
    BY DEF PipeTypes
  <1>2. (buf \o stdout) \o lines = buf \o (stdout \o lines)
    BY <1>1, ConcatAssociative
  <1> QED BY <1>2 DEF Emit, Output

LEMMA Regrouped ==
    ASSUME NEW b \in Seq(Lines), NEW a \in Seq(Lines), NEW z \in Seq(Lines)
    PROVE  (b \o a) \o z = b \o (a \o z)
  BY ConcatAssociative

LEMMA ReadingKeeps ==
    ASSUME PipeTypes, NEW mode, ReadContinues(mode)
    PROVE  Output' = Output
  <1>1. buf \in Seq(Lines) /\ stdout \in Seq(Lines)
    BY DEF PipeTypes
  <1>2. CASE ReadChunk(mode)
    <2>1. PICK n \in 1 .. Len(stdout) : /\ buf' = buf \o SubSeq(stdout, 1, n)
                                        /\ stdout' = SubSeq(stdout, n + 1, Len(stdout))
      BY <1>2 DEF ReadChunk
    <2>2. Len(stdout) \in Nat /\ \A i \in 1 .. Len(stdout) : stdout[i] \in Lines
      BY <1>1, LenProperties, ElementOfSeq
    <2>3. 1 \in Int /\ n \in Int /\ \A i \in 1 .. n : stdout[i] \in Lines
      BY <2>2
    <2>4. SubSeq(stdout, 1, n) \in Seq(Lines)
      BY <2>3, SubSeqProperties
    <2>5. n + 1 \in Int /\ Len(stdout) \in Int /\ \A i \in n + 1 .. Len(stdout) : stdout[i] \in Lines
      BY <2>2
    <2>6. SubSeq(stdout, n + 1, Len(stdout)) \in Seq(Lines)
      BY <2>5, SubSeqProperties
    <2>7. SubSeq(stdout, 1, n) \o SubSeq(stdout, n + 1, Len(stdout)) = SubSeq(stdout, 1, Len(stdout))
      <3>1. 1 \in 1 .. Len(stdout) + 1 /\ n \in 1 - 1 .. Len(stdout) /\ Len(stdout) \in n .. Len(stdout)
        BY <2>2
      <3> QED BY <1>1, <3>1, ConcatAdjacentSubSeq
    <2>8. SubSeq(stdout, 1, Len(stdout)) = stdout
      BY <1>1, SubSeqFull
    <2>9. (buf \o SubSeq(stdout, 1, n)) \o SubSeq(stdout, n + 1, Len(stdout))
             = buf \o (SubSeq(stdout, 1, n) \o SubSeq(stdout, n + 1, Len(stdout)))
      <3>1. ASSUME NEW a \in Seq(Lines), NEW z \in Seq(Lines)
            PROVE  (buf \o a) \o z = buf \o (a \o z)
        BY <1>1, Regrouped
      <3> QED BY <2>4, <2>6, <3>1, Zenon
    <2>10. (buf \o SubSeq(stdout, 1, n)) \o SubSeq(stdout, n + 1, Len(stdout)) = buf \o stdout
      BY <2>7, <2>8, <2>9, Zenon
    <2> QED BY <2>1, <2>10, Zenon DEF Output
  <1>3. CASE ReadPatience(mode) \/ ReadClosed(mode)
    BY <1>3 DEF ReadPatience, ReadClosed, pipeVars, Output
  <1> QED BY <1>2, <1>3 DEF ReadContinues

LEMMA BareIs == Bare.is = "bare" /\ \A w, n : Text(w, n).is = "text" /\ Text(w, n).cmd = n
  BY DEF Bare, Text, Line

LEMMA LineIs ==
    ASSUME NEW is, NEW of, NEW who, NEW id, NEW says, NEW cmd
    PROVE  /\ Line(is, of, who, id, says, cmd).is = is /\ Line(is, of, who, id, says, cmd).of = of
           /\ Line(is, of, who, id, says, cmd).cmd = cmd
  BY DEF Line

LEMMA BaresGrow ==
    ASSUME NEW q \in Seq(Lines), NEW l \in Seq(Lines), Bares(q), Bares(l)
    PROVE  Bares(q \o l)
  <1>1. ASSUME NEW i \in 1 .. Len(q \o l) PROVE (q \o l)[i].is = "bare"
    BY <1>1, Joined DEF Bares
  <1> QED BY <1>1 DEF Bares

LEMMA RefusalGrows ==
    ASSUME NEW q \in Seq(Lines), Bares(q), NEW x \in Lines, NEW y \in Lines, NEW n,
           x.is \in {"text", "nothing"}, x.cmd = n, y.is \in Enders
    PROVE  Refused(q \o <<x, y>>, n) /\ (q \o <<x, y>>)[Len(q \o <<x, y>>)] = y
  <1>1. PICK l \in Seq(Lines) : l = <<x, y>> /\ Len(l) = 2 /\ l[1] = x /\ l[2] = y
    <2>1. <<x, y>> \in Seq(Lines)
      BY SeqOfTwo
    <2> QED BY <2>1
  <1>2. Len(q) \in Nat /\ Len(q \o l) = Len(q) + 2
    BY <1>1, Joined
  <1>3. \A i \in 1 .. Len(q) : (q \o l)[i].is = "bare"
    BY Joined DEF Bares
  <1>4. (q \o l)[Len(q) + 1] = x /\ (q \o l)[Len(q) + 2] = y
    <2>1. 1 \in 1 .. Len(l) /\ 2 \in 1 .. Len(l)
      BY <1>1
    <2>2. (q \o l)[Len(q) + 1] = l[1] /\ (q \o l)[Len(q) + 2] = l[2]
      BY <2>1, Joined
    <2> QED BY <1>1, <2>2
  <1>5. Len(q) \in 0 .. Len(q \o l)
    BY <1>2
  <1>6. Refused(q \o l, n)
    BY <1>2, <1>3, <1>4, <1>5 DEF Refused
  <1> QED BY <1>1, <1>2, <1>4, <1>6

LEMMA EndGrows ==
    ASSUME NEW q \in Seq(Lines), Bares(q)
    PROVE  /\ Ended(q)
           /\ \A x \in Lines : x.is \in {"exit", "fatal"} => Ended(q \o <<x>>)
  <1>1. Ended(q)
    BY DEF Ended, Bares
  <1>2. ASSUME NEW x \in Lines, x.is \in {"exit", "fatal"}
        PROVE  Ended(q \o <<x>>)
    <2>1. PICK l \in Seq(Lines) : l = <<x>> /\ Len(l) = 1 /\ l[1] = x
      <3>1. <<x>> \in Seq(Lines)
        BY SeqOfOne
      <3> QED BY <3>1
    <2>2. Len(q \o l) = Len(q) + 1 /\ Len(q) \in Nat
      BY <2>1, Joined
    <2>3. (q \o l)[Len(q) + 1] = x
      <3>1. (q \o l)[Len(q) + 1] = l[1]
        BY <2>1, Joined
      <3> QED BY <2>1, <3>1
    <2>4. ASSUME NEW i \in 1 .. Len(q \o l)
          PROVE  \/ (q \o l)[i].is = "bare"
                 \/ i = Len(q \o l) /\ (q \o l)[i].is \in {"exit", "fatal"}
      <3>1. CASE i \in 1 .. Len(q)
        BY <3>1, Joined DEF Bares
      <3>2. CASE i = Len(q) + 1
        BY <1>2, <2>2, <2>3, <3>2
      <3> QED BY <2>2, <3>1, <3>2
    <2>5. Ended(q \o l)
      BY <2>4 DEF Ended
    <2> QED BY <2>1, <2>5
  <1> QED BY <1>1, <1>2

\* A banner of hit h, printed as a whole, behind bare prompts.
LEMMA BannerGrows ==
    ASSUME NEW q \in Seq(Lines), Bares(q), NEW l \in Seq(Lines), NEW h,
           l[1].of = h, l[Len(l)].is = "prompt",
           \/ Len(l) = 3 /\ l[1].is = "head" /\ l[2].is = "loc" /\ l[2].of = h
           \/ Len(l) = 2 /\ l[1].is \in {"exception", "watch"}
    PROVE  \E b, p \in 1 .. Len(q \o l) :
              /\ BannerAt(q \o l, h, b, p) /\ p = Len(q \o l)
              /\ Len(l) = 3 => (q \o l)[b].is = "head"
  <1>0. PICK m \in {2, 3} :
           /\ m = Len(l) /\ l[m].is = "prompt"
           /\ \/ m = 3 /\ l[1].is = "head" /\ l[2].is = "loc" /\ l[2].of = h
              \/ m = 2 /\ l[1].is \in {"exception", "watch"}
    OBVIOUS
  <1>1. Len(q) \in Nat /\ Len(q \o l) = Len(q) + m
    BY <1>0, Joined
  <1>2. \A i \in 1 .. Len(q) : (q \o l)[i].is = "bare"
    BY Joined DEF Bares
  <1>3. \A i \in 1 .. m : (q \o l)[Len(q) + i] = l[i]
    BY <1>0, Joined
  <1>4. (q \o l)[Len(q) + 1] = l[1] /\ (q \o l)[Len(q) + m] = l[m] /\ (q \o l)[Len(q) + 2] = l[2]
    BY <1>0, <1>3
  <1> DEFINE w == q \o l
             b == Len(q) + 1
             p == Len(q) + m
  <1>5. /\ w[b] = l[1] /\ w[p] = l[m] /\ w[b + 1] = l[2] /\ Len(w) = p
        /\ \A i \in 1 .. b - 1 : w[i].is = "bare"
        /\ b \in 1 .. Len(w) /\ p \in 1 .. Len(w) /\ p = b + (m - 1)
    BY <1>1, <1>2, <1>4
  <1> HIDE DEF w, b, p
  <1>6. BannerAt(w, h, b, p)
    <2>1. /\ w[b].of = h /\ w[p].is = "prompt" /\ w[Len(w)] = w[p]
          /\ \A i \in (p + 1) .. Len(w) : FALSE
      BY <1>0, <1>5
    <2>2. \/ w[b].is = "head" /\ p = b + 2 /\ w[b + 1].is = "loc" /\ w[b + 1].of = h
          \/ w[b].is \in {"exception", "watch"} /\ p = b + 1
      <3>1. m = 3 => p = b + 2
        BY <1>5
      <3>2. m = 2 => p = b + 1
        BY <1>5
      <3>3. w[b] = l[1] /\ w[b + 1] = l[2]
        BY <1>5
      <3> QED BY <1>0, <3>1, <3>2, <3>3
    <2> QED BY <1>5, <2>1, <2>2 DEF BannerAt, Enders
  <1>7. Len(l) = 3 => w[b].is = "head"
    BY <1>5
  <1> QED BY <1>5, <1>6, <1>7 DEF w

\* What is late of it.
LEMMA LateGrows ==
    ASSUME NEW q \in Seq(Lines), NEW h, NEW b \in 1 .. Len(q), NEW p \in 1 .. Len(q),
           BannerAt(q, h, b, p), p = Len(q), NEW l \in Seq(Lines),
           \/ Len(l) = 1 /\ l[1].is = "bare" /\ q[b].is = "head"
           \/ Len(l) = 2 /\ l[1].is = "text" /\ l[2].is = "prompt"
    PROVE  /\ BannerAt(q \o l, h, b, p) /\ b \in 1 .. Len(q \o l) /\ p \in 1 .. Len(q \o l)
           /\ (q \o l)[b] = q[b]
  <1>1. /\ Len(q) \in Nat /\ Len(l) \in {1, 2} /\ Len(q \o l) = Len(q) + Len(l)
        /\ \A i \in 1 .. Len(q) : (q \o l)[i] = q[i]
        /\ \A i \in 1 .. Len(l) : (q \o l)[Len(q) + i] = l[i]
    BY Joined
  <1>2. b < p
    BY BannerShape
  <1> DEFINE w == q \o l
  <1>3. \A i \in 1 .. p : w[i] = q[i]
    BY <1>1
  <1>4. b + 1 \in 1 .. p
    BY <1>1, <1>2
  <1>5. w[b] = q[b] /\ w[b + 1] = q[b + 1] /\ w[p] = q[p]
    BY <1>1, <1>3, <1>4
  <1>6. \A i \in (p + 1) .. Len(w) : \E j \in 1 .. Len(l) : w[i] = l[j]
    <2>1. ASSUME NEW i \in (p + 1) .. Len(w) PROVE \E j \in 1 .. Len(l) : w[i] = l[j]
      <3>1. i - Len(q) \in 1 .. Len(l) /\ i = Len(q) + (i - Len(q))
        BY <1>1, <2>1
      <3> QED BY <1>1, <3>1
    <2> QED BY <2>1
  <1>7. w[Len(w)] = l[Len(l)]
    BY <1>1
  <1>8. p <= Len(w) /\ Len(w) \in Nat
    BY <1>1
  <1> HIDE DEF w
  <1>9. w[Len(w)].is \in Enders
    BY <1>7 DEF Enders
  <1>10. \A i \in (p + 1) .. Len(w) :
            \/ w[i].is \in {"text", "prompt"}
            \/ w[i].is = "bare" /\ w[b].is = "head"
    <2>1. \A j \in 1 .. Len(l) : l[j].is \in {"text", "prompt"} \/ (l[j].is = "bare" /\ w[b].is = "head")
      BY <1>1, <1>5
    <2> QED BY <1>6, <2>1
  <1>11. \A i \in 1 .. (b - 1) : w[i].is = "bare"
    BY <1>1, <1>2, <1>3 DEF BannerAt
  <1>12. BannerAt(w, h, b, p)
    BY <1>5, <1>9, <1>10, <1>11 DEF BannerAt
  <1>13. b \in 1 .. Len(w) /\ p \in 1 .. Len(w)
    BY <1>1, <1>2, <1>8
  <1> QED BY <1>5, <1>12, <1>13 DEF w

\* An answer has the number of its command in every line.
TameLines(q, n) == \A i \in 1 .. Len(q) : q[i].is \in Tame /\ q[i].cmd = n

LEMMA TameTuples ==
    ASSUME NEW n, NEW x, x.is \in Tame, x.cmd = n, NEW y, y.is \in Tame, y.cmd = n
    PROVE  TameLines(<<x>>, n) /\ TameLines(<<x, y>>, n)
  <1>1. Len(<<x>>) = 1 /\ <<x>>[1] = x
    OBVIOUS
  <1>2. Len(<<x, y>>) = 2 /\ <<x, y>>[1] = x /\ <<x, y>>[2] = y
    OBVIOUS
  <1>3. TameLines(<<x>>, n)
    BY <1>1 DEF TameLines
  <1>4. TameLines(<<x, y>>, n)
    BY <1>2 DEF TameLines
  <1> QED BY <1>3, <1>4

LEMMA TameJoined ==
    ASSUME NEW n, NEW q \in Seq(Lines), NEW l \in Seq(Lines), TameLines(q, n), TameLines(l, n)
    PROVE  TameLines(q \o l, n)
  <1>1. ASSUME NEW i \in 1 .. Len(q \o l) PROVE (q \o l)[i].is \in Tame /\ (q \o l)[i].cmd = n
    <2>1. CASE i \in 1 .. Len(q)
      BY <2>1, Joined DEF TameLines
    <2>2. ASSUME NEW j \in 1 .. Len(l), i = Len(q) + j
          PROVE  (q \o l)[i].is \in Tame /\ (q \o l)[i].cmd = n
      BY <2>2, Joined DEF TameLines
    <2> QED BY <2>1, <2>2, Joined
  <1> QED BY <1>1 DEF TameLines

LEMMA ReplyGrows ==
    ASSUME NEW q \in Seq(Lines), NEW n, TameLines(q, n), NEW y \in Lines, y.is \in Enders
    PROVE  Replied(Append(q, y), n)
  <1>1. /\ Append(q, y) # <<>> /\ Len(Append(q, y)) = Len(q) + 1 /\ Len(q) \in Nat
        /\ \A i \in 1 .. Len(q) : Append(q, y)[i] = q[i]
        /\ Append(q, y)[Len(q) + 1] = y
    BY AppendProperties, LenProperties
  <1> QED BY <1>1 DEF Replied, TameLines

LEMMA AnswerTame ==
    ASSUME TargetTypes, NEW verb, NEW arg, NEW n \in Nat
    PROVE  TameLines(Answer(verb, arg, n), n)
  <1> DEFINE here    == IF cur # 0 /\ Suspended(cur) THEN FrameOf(cur) ELSE 0
             L(is, of, says) == Line(is, of, "", 0, says, n)
             dots    == [t \in ThreadIds |-> Line("thread", BreakpointOf(t), Name(t), t, {}, n)]
             value   == CASE arg = "condition" /\ here \in Hits /\ Hit(here).cond \in {"true", "false"}
                               -> <<L("assign", 0, {Hit(here).cond})>>
                          [] arg \in {"list.size", "list.get", "array.length", "array.index"}
                               -> <<L("assign", 0, {"2"})>>
                          [] arg = "value" -> <<L("assign", 0, {"value"})>>
                          [] OTHER -> <<L("text", 0, {"ParseException"})>>
  <1>0. plan \in Plans /\ Len(plan.names) \in Nat
    BY PlanLengths DEF TargetTypes
  <1>1. \/ Answer(verb, arg, n) = <<L("group", 0, {})>> \o dots
        \/ Answer(verb, arg, n) =
             (IF verb = "where all" THEN <<L("owner", 0, {})>> ELSE <<>>) \o <<L("frame", here, {})>>
        \/ Answer(verb, arg, n) = <<L("assign", 0, {"local"})>>
        \/ Answer(verb, arg, n) = value
        \/ Answer(verb, arg, n) = <<L("assign", 0, {}), L("field", 0, {})>>
        \/ Answer(verb, arg, n) = <<L("source", 0, {})>>
        \/ Answer(verb, arg, n) = <<L("text", 0, {"Name unknown"})>>
        \/ Answer(verb, arg, n) = <<L("text", 0, {})>>
    BY Zenon DEF Answer
  <1>2. \/ value = <<L("assign", 0, {Hit(here).cond})>>
        \/ value = <<L("assign", 0, {"2"})>> \/ value = <<L("assign", 0, {"value"})>>
        \/ value = <<L("text", 0, {"ParseException"})>>
    BY Zenon
  <1>3. \A is \in Tame : \A of, says : L(is, of, says).is \in Tame /\ L(is, of, says).cmd = n
    BY DEF Line
  <1>4. /\ DOMAIN dots = 1 .. Len(plan.names)
        /\ \A t \in 1 .. Len(plan.names) : dots[t].is = "thread" /\ dots[t].cmd = n
    BY LineIs DEF ThreadIds
  <1>5. {"text", "group", "thread", "frame", "owner", "assign", "field", "source"} \subseteq Tame
    BY DEF Tame
  <1>6. dots \in Seq(Lines)
    <2>1. ThreadIds = 1 .. Len(plan.names)
      BY DEF ThreadIds
    <2>2. ASSUME NEW t \in ThreadIds PROVE Line("thread", BreakpointOf(t), Name(t), t, {}, n) \in Lines
      <3>1. BreakpointOf(t) \in Nat
        BY PlaceTypes
      <3>2. "thread" \in LineKinds
        BY DEF LineKinds
      <3>3. t \in 0 .. Len(plan.names) /\ t # 0
        BY <2>1, <2>2, <1>0
      <3>4. Name(t) \in Who
        BY <1>0, <2>2, NameType
      <3>5. {} \in SUBSET Words
        OBVIOUS
      <3> QED BY <3>1, <3>2, <3>3, <3>4, <3>5, LineType
    <2>3. dots \in [1 .. Len(plan.names) -> Lines]
      BY <2>1, <2>2
    <2> HIDE DEF dots
    <2> QED BY <1>0, <2>3, SeqDef, Zenon
  <1>7. here \in Nat
    <2>1. FrameOf(cur) \in Nat
      BY PlaceTypes
    <2>2. here = FrameOf(cur) \/ here = 0
      BY Zenon
    <2> QED BY <2>1, <2>2
  <1>8. L("group", 0, {}) \in Lines /\ L("owner", 0, {}) \in Lines /\ L("frame", here, {}) \in Lines
    BY <1>0, <1>7, PlainLine, PlainKinds
  <1> HIDE DEF here, L, dots, value
  <1>9. TameLines(dots, n)
    <2>1. Len(dots) = Len(plan.names)
      BY <1>0, <1>4, <1>6, LenProperties
    <2> QED BY <1>4, <1>5, <2>1 DEF TameLines
  <1>10. \A is \in Tame : \A of, says : TameLines(<<L(is, of, says)>>, n)
    BY <1>3, TameTuples
  <1>11. TameLines(<<L("group", 0, {})>> \o dots, n)
    <2>1. <<L("group", 0, {})>> \in Seq(Lines)
      BY <1>8, SeqOfOne, Zenon
    <2>2. TameLines(<<L("group", 0, {})>>, n)
      BY <1>5, <1>10
    <2> QED BY <1>6, <1>9, <2>1, <2>2, TameJoined
  <1>12. TameLines((IF verb = "where all" THEN <<L("owner", 0, {})>> ELSE <<>>) \o <<L("frame", here, {})>>, n)
    <2>1. <<L("frame", here, {})>> \in Seq(Lines) /\ <<L("owner", 0, {})>> \in Seq(Lines) /\ <<>> \in Seq(Lines)
      BY <1>8, SeqOfOne, EmptySeq, Zenon
    <2>2. TameLines(<<L("frame", here, {})>>, n) /\ TameLines(<<L("owner", 0, {})>>, n)
      BY <1>5, <1>10
    <2>3. TameLines(<<>>, n)
      BY DEF TameLines
    <2>4. PICK q : q = (IF verb = "where all" THEN <<L("owner", 0, {})>> ELSE <<>>)
      OBVIOUS
    <2>5. q \in Seq(Lines) /\ TameLines(q, n)
      BY <2>1, <2>2, <2>3, <2>4, Zenon
    <2>6. TameLines(q \o <<L("frame", here, {})>>, n)
      BY <2>1, <2>2, <2>5, TameJoined
    <2> QED BY <2>4, <2>6, Zenon
  <1>13. TameLines(<<L("assign", 0, {}), L("field", 0, {})>>, n)
    <2>1. /\ L("assign", 0, {}).is \in Tame /\ L("assign", 0, {}).cmd = n
          /\ L("field", 0, {}).is \in Tame /\ L("field", 0, {}).cmd = n
      BY <1>3, <1>5
    <2> QED BY <2>1, TameTuples
  <1>14. /\ \A says : TameLines(<<L("assign", 0, says)>>, n)
         /\ \A says : TameLines(<<L("text", 0, says)>>, n)
         /\ TameLines(<<L("source", 0, {})>>, n)
    BY <1>5, <1>10
  <1>15. TameLines(value, n)
    BY <1>2, <1>14, Zenon
  <1> QED BY <1>1, <1>11, <1>12, <1>13, <1>14, <1>15, Zenon

-----------------------------------------------------------------------------
(* The invariant.  In calm circumstances a session is being opened, or it  *)
(* is free, or a client has it; each has its own shape of what the target  *)
(* does, of what is written and of what is printed.                        *)

\* What belongs to the last hit and is not yet printed.
LateShape ==
    \/ late = NoneLate
    \/ late.when = "later" /\ Len(late.lines) = 1 /\ late.lines[1].is = "bare"
    \/ /\ late.when = "soon" /\ Len(late.lines) = 2 /\ late.lines[1].is = "text"
       /\ late.lines[2].is = IF raised = 0 THEN "bare" ELSE "prompt"

Common ==
    /\ vm # "stopped" => held = {}
    /\ vm = "gone" <=> closed
    /\ eof => closed
    /\ vm = "stopped" /\ plan.start = "launch" => cur # 0
    /\ heard \in Seq(Nat) /\ \A i \in 1 .. Len(heard) : heard[i] = i
    /\ misread = {}
    /\ LateShape

\* A client without a request asks nothing, nor does any while jdb starts.
Waits ==
    /\ \A c \in Clients : cl[c].at = "idle" => ex[c].stage = "none"
    /\ ~Ready => \A c \in Clients : cl[c].at = "idle"

\* The target does nothing unless it is told to, and the session knows that.
Settled ==
    /\ state \notin {"Exited", "Dead"}
    /\ \/ vm \in {"unstarted", "stopped"}
       \/ vm = "running" /\ raised = Len(plan.hits) /\ plan.end = "loop"
    /\ state = "Suspended" <=> vm = "stopped"
    /\ Len(heard) = raised

Over ==
    /\ state \in {"Exited", "Dead"} /\ vm = "gone"
    /\ state = "Exited" => Len(heard) = raised

Free ==
    \/ Over
    \/ Settled /\ stdin = <<>> /\ buf = <<>> /\ Bares(stdout) /\ late.when # "soon"

\* The mutex is held, and nothing is asked.
AtAsk == Settled /\ late = NoneLate /\ stdin = <<>> /\ buf = <<>> /\ stdout = <<>>

\* Command n, which does not resume the target, is unread or answered.
Pending(n) == Len(stdin) = 1 /\ stdin[1].n = n
Asked(n) ==
    /\ Settled /\ late = NoneLate
    /\ \/ Pending(n) /\ stdin[1].verb \notin Resuming \cup {"quit"} /\ Output = <<>>
       \/ stdin = <<>> /\ Replied(Output, n)

\* Command n resumes the target, which has run into s hits: it is unread; the
\* target runs; jdb did not resume it; it stopped at the next hit; it is gone.
Posed(n, s) ==
    /\ Settled /\ late = NoneLate /\ raised = s
    /\ Pending(n) /\ stdin[1].verb \in Resuming \ {"resume"}
    /\ stdin[1].verb = "run" => plan.start = "launch"
    /\ Bares(Output)
Runs(s) ==
    /\ vm = "running" /\ late = NoneLate /\ raised = s /\ Len(heard) = s
    /\ stdin = <<>> /\ Bares(Output)
Declined(n, s) ==
    /\ Settled /\ late = NoneLate /\ raised = s
    /\ stdin = <<>> /\ Refused(Output, n)
    /\ vm = "stopped" => Output[Len(Output)].is = "prompt"
Announced(q, h) ==
    \E b, p \in 1 .. Len(q) :
        /\ BannerAt(q, h, b, p)
        /\ late # NoneLate => p = Len(q)
        /\ late.when = "later" => q[b].is = "head"
Stops(s) ==
    /\ vm = "stopped" /\ raised = s + 1 /\ Len(heard) = s
    /\ stdin = <<>> /\ Announced(Output, raised)
Gone(s) ==
    /\ vm = "gone" /\ late = NoneLate /\ raised = s /\ Len(heard) = s /\ Ended(Output)
Waiting(n, s) == Posed(n, s) \/ Runs(s) \/ Declined(n, s) \/ Stops(s) \/ Gone(s)

\* The stop has been read, and what jdb prints late is read away.
Draining(s, o) ==
    /\ vm = "stopped" /\ raised = s + 1 /\ Len(heard) = s /\ stdin = <<>>
    /\ o.kind = "Prompt" /\ o.event # NoStop /\ o.event.hit = raised
    /\ is_partial_stopped(event_to_result(o.event)) => late = NoneLate

Reads(c) ==
    \E n \in 0 .. written, s \in 0 .. raised :
        /\ n = ex[c].call.n /\ s = ex[c].call.since
        /\ ex[c].call.mode = "Normal"   => Asked(n)
        /\ ex[c].call.mode = "Blocking" => Waiting(n, s)
Drains(c) ==
    \E s \in 0 .. raised :
        /\ s = ex[c].call.since /\ ex[c].call.mode = "Blocking"
        /\ Draining(s, ex[c].out)
Hears == \E n \in 0 .. written : Asked(n)

Owns(c) ==
    /\ ex[c].stage \in Inside
    /\ ex[c].stage = "read"    => Reads(c)
    /\ ex[c].stage = "drain"   => Drains(c)
    /\ ex[c].stage \in Asking  => AtAsk
    /\ ex[c].stage \in Listens => Hears

\* Launch reads a bare prompt; attach reads a greeting that comes in pieces.
Opening ==
    /\ stdin = <<>> /\ raised = 0 /\ heard = <<>> /\ state = "Loaded"
    /\ \/ opening = "launch" /\ vm = "unstarted" /\ late = NoneLate /\ Bares(Output)
       \/ /\ opening = "handshake" /\ vm = "stopped"
          /\ \/ late.when = "soon" /\ Len(Output) = 1 /\ Output[1].is = "bare"
             \/ /\ late = NoneLate /\ Len(Output) = 3 /\ Output[1].is = "bare"
                /\ Output[2].is = "text" /\ Output[3].is = "bare"
       \/ /\ opening = "extra1" /\ vm = "stopped"
          /\ \/ late.when = "soon" /\ Output = <<>>
             \/ late = NoneLate /\ Output = <<>>
             \/ late = NoneLate /\ Len(Output) = 2 /\ Output[1].is = "text" /\ Output[2].is = "bare"
       \/ opening = "extra2" /\ vm = "stopped" /\ late = NoneLate /\ Output = <<>>

Stand ==
    \/ ~Ready /\ inner = NoOne /\ Opening
    \/ Ready /\ inner = NoOne /\ Free
    \/ Ready /\ \E c \in Clients : inner = c /\ Owns(c)

CalmInv == Calm => Common /\ Waits /\ Stand

-----------------------------------------------------------------------------
(* Steps of jdb and its target                                             *)

LEMMA CalmFacts ==
    ASSUME TypeInv, Calm
    PROVE  /\ plan \in Plans /\ TargetTypes /\ PipeTypes /\ SessionTypes /\ ClientTypes
           /\ ~plan.hasty /\ ~plan.slow /\ plan.start \in {"launch", "attach"}
           /\ \A h \in Hits : /\ Hit(h).policy = "all" /\ Hit(h).late # "stall"
                              /\ Hit(h).late = "later" => Hit(h).kind \in {"Breakpoint", "Step"}
           /\ raised \in Nat /\ Len(plan.hits) \in Nat /\ raised <= Len(plan.hits)
           /\ cur \in Nat /\ Len(plan.names) \in Nat /\ written \in Nat
           /\ closed \in BOOLEAN /\ eof \in BOOLEAN /\ patience \in BOOLEAN
           /\ stdin \in Seq(Commands) /\ stdout \in Seq(Lines) /\ buf \in Seq(Lines)
           /\ late.lines \in Seq(Lines)
  <1>1. plan \in Plans /\ TargetTypes /\ PipeTypes /\ SessionTypes /\ ClientTypes
    BY DEF TypeInv, ProcessTypes, TargetTypes
  <1>2. Len(plan.hits) \in Nat /\ Len(plan.names) \in Nat
    BY <1>1, PlanLengths
  <1>3. /\ ~plan.hasty /\ ~plan.slow /\ plan.start \in {"launch", "attach"}
        /\ \A h \in Hits : /\ Hit(h).policy = "all" /\ Hit(h).late # "stall"
                           /\ Hit(h).late = "later" => Hit(h).kind \in {"Breakpoint", "Step"}
    BY DEF Calm
  <1>4. raised \in Nat /\ raised <= Len(plan.hits) /\ cur \in Nat /\ written \in Nat
    BY <1>1, <1>2 DEF TargetTypes, SessionTypes
  <1>5. late.lines \in Seq(Lines)
    BY <1>1 DEF TargetTypes
  <1>6. /\ closed \in BOOLEAN /\ eof \in BOOLEAN /\ patience \in BOOLEAN
        /\ stdin \in Seq(Commands) /\ stdout \in Seq(Lines) /\ buf \in Seq(Lines)
    BY <1>1 DEF PipeTypes
  <1> QED BY <1>1, <1>2, <1>3, <1>4, <1>5, <1>6

\* What is late says when.
LEMMA LateFacts ==
    ASSUME LateShape
    PROVE  /\ late.when \in {"none", "soon", "later"}
           /\ late = NoneLate <=> late.when = "none"
           /\ late.lines # <<>> <=> late # NoneLate
           /\ late = NoneLate => late.lines = <<>>
  <1>1. NoneLate.when = "none" /\ NoneLate.lines = <<>>
    BY DEF NoneLate
  <1>2. Len(<<>>) = 0
    OBVIOUS
  <1> QED BY <1>1, <1>2 DEF LateShape

\* The next hit: what is printed of it at once and what is late.
LEMMA CalmHit ==
    ASSUME TypeInv, Calm, TargetHits
    PROVE  \E m \in {2, 3}, whole \in Seq(Lines), prompt \in Lines :
              /\ vm = "running" /\ raised < Len(plan.hits) /\ late.lines = <<>>
              /\ raised' = raised + 1 /\ vm' = "stopped" /\ cur' \in Nat \ {0}
              /\ plan' = plan /\ stdin' = stdin /\ closed' = closed
              /\ buf' = buf /\ patience' = patience /\ eof' = eof
              /\ Emit(whole) /\ Len(whole) = m /\ whole[m] = prompt /\ prompt.is = "prompt"
              /\ whole[1].of = raised + 1
              /\ \/ m = 3 /\ whole[1].is = "head" /\ whole[2].is = "loc" /\ whole[2].of = raised + 1
                 \/ m = 2 /\ whole[1].is \in {"exception", "watch"}
              /\ \/ late' = NoneLate
                 \/ late' = [when |-> "soon", lines |-> <<Text({}, 0), prompt>>]
                 \/ late' = [when |-> "later", lines |-> <<Bare>>] /\ m = 3
  <1> DEFINE h      == raised + 1
             all    == Hit(h).policy = "all"
             name   == Name(Hit(h).thread)
             says   == IF Hit(h).kind = "Step" THEN {"step"} ELSE {}
             p      == Line("prompt", 0, name, 0, {}, 0)
             prompt == IF all THEN p ELSE Bare
             whole  == Append(Banner(h), prompt)
  <1>0. /\ plan \in Plans /\ TargetTypes /\ raised \in Nat /\ Len(plan.hits) \in Nat
        /\ raised <= Len(plan.hits) /\ Len(plan.names) \in Nat
        /\ \A k \in Hits : /\ Hit(k).policy = "all" /\ Hit(k).late # "stall"
                           /\ Hit(k).late = "later" => Hit(k).kind \in {"Breakpoint", "Step"}
    BY CalmFacts
  <1>1. vm = "running" /\ raised < Len(plan.hits) /\ late.lines = <<>>
    BY DEF TargetHits
  <1>2. h \in Hits
    BY <1>0, <1>1 DEF Hits
  <1>3. /\ Hit(h).policy = "all" /\ Hit(h).late # "stall"
        /\ Hit(h).late = "later" => Hit(h).kind \in {"Breakpoint", "Step"}
    BY <1>0, <1>2
  <1>4. Hit(h).thread \in ThreadIds /\ Hit(h).kind \in {"Breakpoint", "Step", "Exception", "FieldWatch"}
    BY <1>0, <1>2, PlanFacts
  <1>5. /\ raised' = h /\ vm' = "stopped" /\ cur' = Hit(h).thread
        /\ plan' = plan /\ stdin' = stdin /\ closed' = closed
        /\ buf' = buf /\ patience' = patience /\ eof' = eof
    BY <1>3 DEF TargetHits, readerVars
  <1>6. prompt = p
    BY <1>3
  <1>7. /\ Emit(whole)
        /\ \/ late' = NoneLate
           \/ late' = [when |-> "soon", lines |-> <<Text({}, 0), prompt>>]
           \/ late' = [when |-> "later", lines |-> <<Bare>>] /\ Hit(h).late = "later"
    <2>1. \/ Hit(h).policy = "jdk8" \/ Hit(h).late = "stall"
          \/ Emit(whole) /\ late' = [when |-> "soon", lines |-> <<Text({}, 0), prompt>>]
          \/ Emit(whole) /\ late' = [when |-> "later", lines |-> <<Bare>>] /\ Hit(h).late = "later"
          \/ Emit(whole) /\ late' = NoneLate
      BY Zenon DEF TargetHits
    <2>2. Hit(h).policy # "jdk8" /\ Hit(h).late # "stall"
      BY <1>3
    <2> HIDE DEF h, prompt, whole
    <2> QED BY <2>1, <2>2
  <1>8. cur' \in Nat \ {0}
    BY <1>0, <1>4, <1>5 DEF ThreadIds
  <1>9. \/ /\ Hit(h).kind = "Exception" /\ Banner(h) = <<Line("exception", h, "", 0, {}, 0)>>
        \/ /\ Hit(h).kind = "FieldWatch" /\ Banner(h) = <<Line("watch", h, name, 0, {}, 0)>>
        \/ /\ Banner(h) = <<Line("head", h, "", 0, says, 0), Line("loc", h, name, 0, {}, 0)>>
           /\ Hit(h).kind \notin {"Exception", "FieldWatch"}
    BY Zenon DEF Banner
  <1>10. Banner(h) \in Seq(Lines) /\ p \in Lines
    BY <1>0, <1>2, BannerTypes
  <1>11. /\ Line("exception", h, "", 0, {}, 0).is = "exception" /\ Line("exception", h, "", 0, {}, 0).of = h
         /\ Line("watch", h, name, 0, {}, 0).is = "watch" /\ Line("watch", h, name, 0, {}, 0).of = h
         /\ Line("head", h, "", 0, says, 0).is = "head" /\ Line("head", h, "", 0, says, 0).of = h
         /\ Line("loc", h, name, 0, {}, 0).is = "loc" /\ Line("loc", h, name, 0, {}, 0).of = h
         /\ p.is = "prompt"
    BY DEF Line
  <1> HIDE DEF h, all, name, says, p, prompt
  <1>12. \E m \in {2, 3} : /\ Len(whole) = m /\ whole[m] = p /\ whole[1].of = h
                           /\ \/ m = 3 /\ whole[1].is = "head" /\ whole[2].is = "loc" /\ whole[2].of = h
                              \/ m = 2 /\ whole[1].is \in {"exception", "watch"}
                           /\ Hit(h).kind \in {"Breakpoint", "Step"} => m = 3
    <2>1. ASSUME NEW x, x.is \in {"exception", "watch"}, x.of = h, Banner(h) = <<x>>,
                 Hit(h).kind \in {"Exception", "FieldWatch"}
          PROVE  /\ Len(whole) = 2 /\ whole[2] = p /\ whole[1].of = h
                 /\ whole[1].is \in {"exception", "watch"}
      BY <1>6, <2>1
    <2>2. ASSUME NEW x, NEW y, x.is = "head", x.of = h, y.is = "loc", y.of = h, Banner(h) = <<x, y>>
          PROVE  /\ Len(whole) = 3 /\ whole[3] = p /\ whole[1].of = h
                 /\ whole[1].is = "head" /\ whole[2].is = "loc" /\ whole[2].of = h
      BY <1>6, <2>2
    <2>3. CASE Hit(h).kind \in {"Exception", "FieldWatch"}
      <3>1. \E x : /\ x.is \in {"exception", "watch"} /\ x.of = h /\ Banner(h) = <<x>>
        BY <1>9, <1>11, <2>3
      <3>2. /\ Len(whole) = 2 /\ whole[2] = p /\ whole[1].of = h
            /\ whole[1].is \in {"exception", "watch"}
        BY <2>1, <2>3, <3>1
      <3> HIDE DEF whole
      <3> QED BY <2>3, <3>2
    <2>4. CASE Hit(h).kind \notin {"Exception", "FieldWatch"}
      <3>1. \E x, y : x.is = "head" /\ x.of = h /\ y.is = "loc" /\ y.of = h /\ Banner(h) = <<x, y>>
        BY <1>9, <1>11, <2>4
      <3>2. /\ Len(whole) = 3 /\ whole[3] = p /\ whole[1].of = h
            /\ whole[1].is = "head" /\ whole[2].is = "loc" /\ whole[2].of = h
        BY <2>2, <3>1
      <3> HIDE DEF whole
      <3> QED BY <3>2
    <2> QED BY <2>3, <2>4
  <1>13. whole \in Seq(Lines)
    BY <1>6, <1>10, AppendProperties
  <1> HIDE DEF whole
  <1>14. h = raised + 1
    BY DEF h
  <1> QED BY <1>1, <1>3, <1>5, <1>6, <1>7, <1>8, <1>10, <1>11, <1>12, <1>13, <1>14

\* A command is executed: the target is gone, runs, or stays as it was.
LEMMA Executed ==
    ASSUME JdbExecutes
    PROVE  /\ stdin # <<>> /\ ~closed
           /\ plan' = plan /\ raised' = raised /\ late' = late
           /\ buf' = buf /\ patience' = patience /\ eof' = eof
           /\ stdin' = <<>> \/ stdin' = Tail(stdin)
           /\ \/ vm' = "gone" /\ held' = {} /\ cur' = 0 /\ closed' = TRUE
              \/ vm' = "running" /\ held' = {} /\ cur' = 0 /\ closed' = closed
              \/ vm' = vm /\ held' = held /\ closed' = closed /\ cur' = cur
              \/ /\ vm' = vm /\ held' = held /\ closed' = closed
                 /\ Head(stdin).verb = "thread" /\ cur' = Head(stdin).id
  <1>1. /\ stdin # <<>> /\ ~closed /\ plan' = plan /\ raised' = raised /\ late' = late
        /\ buf' = buf /\ patience' = patience /\ eof' = eof
    BY DEF JdbExecutes, readerVars
  <1>2. stdin' = <<>> \/ stdin' = Tail(stdin)
    BY Zenon DEF JdbExecutes
  <1>3. \/ JdbExits
        \/ \E lines : JdbResumes(lines)
        \/ \E lines : JdbAnswers(lines) /\ cur' = cur
        \/ \E lines : /\ JdbAnswers(lines) /\ Head(stdin).verb = "thread"
                      /\ cur' = Head(stdin).id
    BY Zenon DEF JdbExecutes
  <1>4. \/ vm' = "gone" /\ held' = {} /\ cur' = 0 /\ closed' = TRUE
        \/ vm' = "running" /\ held' = {} /\ cur' = 0 /\ closed' = closed
        \/ vm' = vm /\ held' = held /\ closed' = closed /\ cur' = cur
        \/ /\ vm' = vm /\ held' = held /\ closed' = closed
           /\ Head(stdin).verb = "thread" /\ cur' = Head(stdin).id
    BY <1>3, Zenon DEF JdbExits, JdbResumes, JdbAnswers
  <1> QED BY <1>1, <1>2, <1>4

LEMMA ProcessCommon ==
    ASSUME TypeInv, Calm, Common, JdbStep, heard' = heard, misread' = misread
    PROVE  Common'
  <1>1. /\ plan \in Plans /\ plan.start \in {"launch", "attach"} /\ raised \in Nat
        /\ stdin \in Seq(Commands)
    BY CalmFacts
  <1>2. /\ vm # "stopped" => held = {}
        /\ vm = "gone" <=> closed
        /\ eof => closed
        /\ vm = "stopped" /\ plan.start = "launch" => cur # 0
        /\ heard \in Seq(Nat) /\ \A i \in 1 .. Len(heard) : heard[i] = i
        /\ misread = {}
    BY DEF Common
  <1>3. LateShape /\ late.when \in {"none", "soon", "later"}
    BY LateFacts DEF Common
  <1>4. CASE TargetHits
    <2>1. PICK m \in {2, 3}, whole \in Seq(Lines), prompt \in Lines :
              /\ vm = "running" /\ raised < Len(plan.hits) /\ late.lines = <<>>
              /\ raised' = raised + 1 /\ vm' = "stopped" /\ cur' \in Nat \ {0}
              /\ plan' = plan /\ stdin' = stdin /\ closed' = closed
              /\ buf' = buf /\ patience' = patience /\ eof' = eof
              /\ Emit(whole) /\ Len(whole) = m /\ whole[m] = prompt /\ prompt.is = "prompt"
              /\ whole[1].of = raised + 1
              /\ \/ m = 3 /\ whole[1].is = "head" /\ whole[2].is = "loc" /\ whole[2].of = raised + 1
                 \/ m = 2 /\ whole[1].is \in {"exception", "watch"}
              /\ \/ late' = NoneLate
                 \/ late' = [when |-> "soon", lines |-> <<Text({}, 0), prompt>>]
                 \/ late' = [when |-> "later", lines |-> <<Bare>>] /\ m = 3
      BY <1>4, CalmHit
    <2>2. LateShape'
      <3>1. ASSUME late' = [when |-> "soon", lines |-> <<Text({}, 0), prompt>>] PROVE LateShape'
        <4>1. raised' # 0 /\ Text({}, 0).is = "text"
          BY <1>1, <2>1, BareIs
        <4>2. PICK x : x = Text({}, 0)
          OBVIOUS
        <4>3. late'.when = "soon" /\ Len(late'.lines) = 2 /\ late'.lines[1] = x /\ late'.lines[2] = prompt
          BY <3>1, <4>2
        <4> QED BY <2>1, <4>1, <4>2, <4>3 DEF LateShape
      <3>2. ASSUME late' = [when |-> "later", lines |-> <<Bare>>] PROVE LateShape'
        <4>1. PICK x : x = Bare
          OBVIOUS
        <4>2. late'.when = "later" /\ Len(late'.lines) = 1 /\ late'.lines[1] = x
          BY <3>2, <4>1
        <4> QED BY <4>1, <4>2, BareIs DEF LateShape
      <3>3. ASSUME late' = NoneLate PROVE LateShape'
        BY <3>3 DEF LateShape, NoneLate
      <3> QED BY <2>1, <3>1, <3>2, <3>3
    <2>3. /\ vm' = "stopped" /\ closed' = closed /\ eof' = eof /\ cur' # 0 /\ vm = "running"
      BY <2>1
    <2> QED BY <1>2, <2>2, <2>3 DEF Common
  <1>5. CASE LateOutput
    <2>1. /\ late' = NoneLate /\ vm' = vm /\ held' = held /\ cur' = cur /\ closed' = closed
          /\ eof' = eof /\ plan' = plan
      BY <1>5 DEF LateOutput, readerVars
    <2>2. LateShape'
      BY <2>1 DEF LateShape, NoneLate
    <2> QED BY <1>2, <2>1, <2>2 DEF Common
  <1>6. CASE TargetEnds
    <2>1. /\ late' = late /\ vm' = "gone" /\ held' = {} /\ closed' = TRUE
          /\ eof' = eof /\ plan' = plan /\ raised' = raised
      BY <1>6 DEF TargetEnds, readerVars
    <2>2. LateShape'
      BY <1>3, <2>1 DEF LateShape, NoneLate
    <2> QED BY <1>2, <2>1, <2>2 DEF Common
  <1>7. CASE JdbExecutes
    <2>1. /\ stdin # <<>> /\ ~closed
          /\ plan' = plan /\ raised' = raised /\ late' = late
          /\ buf' = buf /\ patience' = patience /\ eof' = eof
          /\ stdin' = <<>> \/ stdin' = Tail(stdin)
          /\ \/ vm' = "gone" /\ held' = {} /\ cur' = 0 /\ closed' = TRUE
             \/ vm' = "running" /\ held' = {} /\ cur' = 0 /\ closed' = closed
             \/ vm' = vm /\ held' = held /\ closed' = closed /\ cur' = cur
             \/ /\ vm' = vm /\ held' = held /\ closed' = closed
                /\ Head(stdin).verb = "thread" /\ cur' = Head(stdin).id
      BY <1>7, Executed
    <2>2. Head(stdin).verb = "thread" => Head(stdin).id # 0
      <3>1. Head(stdin) \in Commands
        BY <1>1, <2>1, HeadTailProperties
      <3> QED BY <3>1 DEF Commands
    <2>3. LateShape'
      BY <1>3, <2>1 DEF LateShape, NoneLate
    <2>4. /\ vm' # "stopped" => held' = {}
          /\ vm' = "gone" <=> closed'
          /\ eof' => closed'
          /\ vm' = "stopped" /\ plan'.start = "launch" => cur' # 0
      BY <1>2, <2>1, <2>2
    <2> QED BY <1>2, <2>3, <2>4 DEF Common
  <1> QED BY <1>4, <1>5, <1>6, <1>7 DEF JdbStep

\* What jdb does depends on where the target is.
LEMMA StillTarget ==
    ASSUME TypeInv, Calm, Common, JdbStep
    PROVE  /\ vm # "running" => LateOutput \/ JdbExecutes
           /\ late = NoneLate => ~LateOutput
           /\ stdin = <<>> \/ vm = "gone" => ~JdbExecutes
           /\ Settled => ~TargetHits /\ ~TargetEnds
  <1>1. late = NoneLate => ~LateOutput
    BY DEF LateOutput, NoneLate
  <1>2. stdin = <<>> \/ vm = "gone" => ~JdbExecutes
    BY DEF JdbExecutes, Common
  <1>3. vm # "running" => LateOutput \/ JdbExecutes
    BY DEF JdbStep, TargetHits, TargetEnds
  <1>4. Settled => ~TargetHits /\ ~TargetEnds
    <2>1. raised \in Nat /\ Len(plan.hits) \in Nat
      BY CalmFacts
    <2>2. /\ TargetHits => vm = "running" /\ raised < Len(plan.hits)
          /\ TargetEnds => vm = "running" /\ plan.end # "loop"
      BY DEF TargetHits, TargetEnds
    <2> QED BY <2>1, <2>2 DEF Settled
  <1> QED BY <1>1, <1>2, <1>3, <1>4

\* What is late is printed.
LEMMA LatePrinted ==
    ASSUME TypeInv, LateOutput
    PROVE  /\ late.lines \in Seq(Lines) /\ late.lines # <<>> /\ Emit(late.lines) /\ late' = NoneLate
           /\ vm' = vm /\ raised' = raised /\ stdin' = stdin /\ plan' = plan /\ buf' = buf
           /\ Output' = Output \o late.lines /\ stdout' = stdout \o late.lines
  <1>1. PipeTypes /\ late.lines \in Seq(Lines)
    BY DEF TypeInv, ProcessTypes, TargetTypes
  <1>2. /\ late.lines # <<>> /\ Emit(late.lines) /\ late' = NoneLate
        /\ vm' = vm /\ raised' = raised /\ stdin' = stdin /\ plan' = plan /\ buf' = buf
    BY DEF LateOutput, readerVars
  <1>3. Output' = Output \o late.lines
    BY <1>1, <1>2, EmitGrows
  <1> QED BY <1>1, <1>2, <1>3 DEF Emit

LEMMA OverKept ==
    ASSUME TypeInv, Calm, Common, JdbStep, Over, state' = state, heard' = heard
    PROVE  Over'
  <1>1. LateOutput
    BY StillTarget DEF Over
  <1> QED BY <1>1 DEF Over, LateOutput

LEMMA SettledKept ==
    ASSUME Settled, vm' = vm, raised' = raised, plan' = plan, state' = state, heard' = heard
    PROVE  Settled'
  BY DEF Settled

LEMMA FreeKept ==
    ASSUME TypeInv, Calm, Common, JdbStep, Free, state' = state, heard' = heard
    PROVE  Free'
  <1>1. CASE Over
    BY <1>1, OverKept DEF Free
  <1>2. CASE Settled /\ stdin = <<>> /\ buf = <<>> /\ Bares(stdout) /\ late.when # "soon"
    <2>1. LateOutput /\ late # NoneLate
      BY <1>2, StillTarget DEF JdbStep
    <2>2. Len(late.lines) = 1 /\ late.lines[1].is = "bare"
      BY <1>2, <2>1 DEF Common, LateShape
    <2>3. Bares(late.lines)
      BY <2>2 DEF Bares
    <2>4. stdout \in Seq(Lines) /\ late.lines \in Seq(Lines)
      BY CalmFacts
    <2>5. /\ late' = NoneLate /\ vm' = vm /\ raised' = raised /\ stdin' = stdin /\ plan' = plan
          /\ buf' = buf /\ stdout' = stdout \o late.lines
      BY <2>1, LatePrinted
    <2>6. Bares(stdout \o late.lines)
      BY <1>2, <2>3, <2>4, BaresGrow
    <2>7. Bares(stdout')
      BY <2>5, <2>6
    <2>8. Settled'
      BY <1>2, <2>5, SettledKept
    <2>9. late'.when # "soon"
      BY <2>5 DEF NoneLate
    <2> QED BY <1>2, <2>5, <2>7, <2>8, <2>9 DEF Free, Bares
  <1> QED BY <1>1, <1>2 DEF Free

\* While a query is prepared, or when nothing can be told to the target, jdb is
\* still.
LEMMA NothingHappens ==
    ASSUME TypeInv, Calm, Common, JdbStep, late = NoneLate
    PROVE  /\ Settled => stdin # <<>> /\ JdbExecutes
           /\ vm # "gone"
  <1>1. Settled => stdin # <<>> /\ JdbExecutes
    BY StillTarget DEF JdbStep
  <1>2. vm # "gone"
    BY StillTarget
  <1> QED BY <1>1, <1>2

\* One command is read from stdin.
LEMMA OneRead ==
    ASSUME TypeInv, Calm, Common, JdbExecutes, NEW n, Pending(n)
    PROVE  /\ Head(stdin) = stdin[1] /\ stdin[1].n = n /\ stdin' = <<>>
           /\ stdin[1] \in Commands /\ n \in Nat
           /\ plan' = plan /\ raised' = raised /\ late' = late /\ buf' = buf
  <1>1. stdin \in Seq(Commands) /\ stdin # <<>> /\ Len(stdin) = 1 /\ stdin[1].n = n
    BY CalmFacts DEF JdbExecutes, Pending
  <1>2. Head(stdin) = stdin[1] /\ stdin[1] \in Commands /\ Tail(stdin) \in Seq(Commands) /\ Len(Tail(stdin)) = 0
    BY <1>1, Tailed
  <1>3. Tail(stdin) = <<>>
    BY <1>2, EmptySeq
  <1>4. /\ plan' = plan /\ raised' = raised /\ late' = late /\ buf' = buf
        /\ stdin' = <<>> \/ stdin' = Tail(stdin)
    BY Executed
  <1>5. n \in Nat
    BY <1>1, <1>2 DEF Commands
  <1> QED BY <1>1, <1>2, <1>3, <1>4, <1>5

\* A prompt ends a line of text, and an answer.
LEMMA PromptIs ==
    ASSUME TargetTypes
    PROVE  /\ Prompt \in Lines /\ Prompt.is \in Enders
           /\ cur # 0 => Prompt.is = "prompt"
           /\ \A t : Line("prompt", 0, Name(t), 0, {}, 0).is \in Enders
  <1>1. Prompt \in Lines
    BY PromptType
  <1>2. \A t : Line("prompt", 0, Name(t), 0, {}, 0).is = "prompt"
    BY DEF Line
  <1>3. Prompt = Bare \/ Prompt = Line("prompt", 0, Name(cur), 0, {}, 0)
    BY Zenon DEF Prompt
  <1>4. cur # 0 => Prompt = Line("prompt", 0, Name(cur), 0, {}, 0)
    BY Zenon DEF Prompt
  <1> QED BY <1>1, <1>2, <1>3, <1>4, BareIs DEF Enders

LEMMA AnswerPrinted ==
    ASSUME TypeInv, NEW lines \in Seq(Lines), JdbAnswers(lines), buf' = buf
    PROVE  Output' = Output \o lines /\ (Output = <<>> => Output' = lines) /\ vm' = vm /\ held' = held
  <1>1. PipeTypes /\ Emit(lines) /\ vm' = vm /\ held' = held
    BY DEF TypeInv, ProcessTypes, JdbAnswers
  <1>2. Output' = Output \o lines
    BY <1>1, EmitGrows
  <1>3. <<>> \o lines = lines
    BY ConcatEmptySeq
  <1> QED BY <1>1, <1>2, <1>3

LEMMA AskedKept ==
    ASSUME TypeInv, Calm, Common, JdbStep, NEW n, Asked(n), state' = state, heard' = heard
    PROVE  Asked(n)'
  <1>0. TargetTypes /\ PipeTypes
    BY CalmFacts
  <1>1. Settled /\ late = NoneLate /\ JdbExecutes /\ stdin # <<>>
    BY NothingHappens DEF Asked
  <1>2. Pending(n) /\ stdin[1].verb \notin Resuming \cup {"quit"} /\ Output = <<>>
    BY <1>1 DEF Asked
  <1>3. /\ Head(stdin) = stdin[1] /\ stdin[1].n = n /\ stdin' = <<>>
        /\ stdin[1] \in Commands /\ n \in Nat
        /\ plan' = plan /\ raised' = raised /\ late' = late /\ buf' = buf
    BY <1>1, <1>2, OneRead
  <1>4. PICK c : c = Head(stdin)
    OBVIOUS
  <1>5. c.verb # "quit" /\ c.verb # "run" /\ c.verb \notin Resuming \ {"run"} /\ c.n = n
    BY <1>2, <1>3, <1>4 DEF Resuming
  <1>6. \/ /\ c.verb = "thread"
           /\ JdbAnswers(<<Text({}, c.n), Line("prompt", 0, Name(c.id), 0, {}, 0)>>)
        \/ JdbAnswers(Append(Answer(c.verb, c.arg, c.n), Prompt))
    BY <1>1, <1>4, <1>5, Zenon DEF JdbExecutes
  <1>7. ASSUME NEW lines \in Seq(Lines), JdbAnswers(lines), Replied(lines, n)
        PROVE  Asked(n)'
    <2>1. Output' = lines /\ vm' = vm
      BY <1>2, <1>3, <1>7, AnswerPrinted
    <2>2. Settled'
      BY <1>1, <1>3, <2>1, SettledKept
    <2>3. Replied(Output', n)
      BY <1>7, <2>1
    <2> QED BY <1>1, <1>3, <2>2, <2>3 DEF Asked, Replied, NoneLate
  <1>8. CASE /\ c.verb = "thread"
             /\ JdbAnswers(<<Text({}, c.n), Line("prompt", 0, Name(c.id), 0, {}, 0)>>)
    <2>1. PICK x : x = Text({}, n)
      OBVIOUS
    <2>2. PICK y : y = Line("prompt", 0, Name(c.id), 0, {}, 0)
      OBVIOUS
    <2>3. x \in Lines /\ x.is \in Tame /\ x.cmd = n
      <3>1. Text({}, n) \in Lines /\ Text({}, n).is = "text" /\ Text({}, n).cmd = n
        BY <1>0, <1>3, TextBareTypes, PlainKinds, BareIs DEF TargetTypes
      <3> QED BY <2>1, <3>1 DEF Tame
    <2>4. y \in Lines /\ y.is \in Enders
      <3>1. c.id \in ThreadIds
        BY <1>3, <1>4, <1>8, CalmFacts DEF Commands, ThreadIds
      <3>2. Name(c.id) \in Who /\ plan \in Plans
        BY <1>0, <3>1, NameType DEF TargetTypes
      <3>3. Line("prompt", 0, Name(c.id), 0, {}, 0) \in Lines
        BY <3>2, PlainLine, PlainKinds
      <3>4. Line("prompt", 0, Name(c.id), 0, {}, 0).is \in Enders
        BY <1>0, PromptIs
      <3> QED BY <2>2, <3>3, <3>4
    <2>5. <<x, y>> # <<>> /\ Len(<<x, y>>) = 2 /\ <<x, y>>[1] = x /\ <<x, y>>[2] = y
      OBVIOUS
    <2>6. Replied(<<x, y>>, n)
      <3>1. PICK q : q = <<x, y>>
        OBVIOUS
      <3>2. q # <<>> /\ Len(q) = 2 /\ q[1] = x /\ q[2] = y
        BY <2>5, <3>1
      <3>3. Replied(q, n)
        BY <2>3, <2>4, <3>2 DEF Replied
      <3> QED BY <3>1, <3>3
    <2>7. <<x, y>> \in Seq(Lines)
      BY <2>3, <2>4, SeqOfTwo
    <2>8. JdbAnswers(<<x, y>>)
      BY <1>5, <1>8, <2>1, <2>2
    <2> QED BY <1>7, <2>6, <2>7, <2>8
  <1>9. CASE JdbAnswers(Append(Answer(c.verb, c.arg, c.n), Prompt))
    <2>1. PICK q : q = Answer(c.verb, c.arg, n)
      OBVIOUS
    <2>2. q \in Seq(Lines) /\ TameLines(q, n)
      BY <1>0, <1>3, <2>1, AnswerTypes, AnswerTame
    <2>3. Prompt \in Lines /\ Prompt.is \in Enders
      BY <1>0, PromptIs
    <2>4. Replied(Append(q, Prompt), n)
      BY <2>2, <2>3, ReplyGrows
    <2>5. Append(q, Prompt) \in Seq(Lines)
      BY <2>2, <2>3, AppendProperties
    <2>6. JdbAnswers(Append(q, Prompt))
      BY <1>5, <1>9, <2>1
    <2> QED BY <1>7, <2>4, <2>5, <2>6
  <1> QED BY <1>6, <1>8, <1>9

\* A resuming command is executed.
LEMMA PosedKept ==
    ASSUME TypeInv, Calm, Common, JdbStep, NEW n, NEW s, Posed(n, s), state' = state, heard' = heard
    PROVE  Runs(s)' \/ Declined(n, s)'
  <1>0. TargetTypes /\ PipeTypes /\ plan \in Plans
    BY CalmFacts
  <1>1. Settled /\ late = NoneLate /\ raised = s /\ Pending(n) /\ Bares(Output) /\ Len(heard) = s
    BY DEF Posed, Settled
  <1>2. JdbExecutes /\ stdin # <<>>
    BY <1>1, NothingHappens
  <1>3. /\ Head(stdin) = stdin[1] /\ stdin[1].n = n /\ stdin' = <<>>
        /\ stdin[1] \in Commands /\ n \in Nat
        /\ plan' = plan /\ raised' = raised /\ late' = late /\ buf' = buf
    BY <1>1, <1>2, OneRead
  <1>4. PICK c : c = Head(stdin)
    OBVIOUS
  <1>5. /\ c.verb # "quit" /\ c.verb # "resume" /\ c.verb # "thread" /\ c.verb \in Resuming
        /\ c.n = n
        /\ c.verb = "run" => plan.start = "launch"
    BY <1>3, <1>4 DEF Posed, Resuming
  <1>6. \/ JdbResumes(<<Bare>>) \/ JdbResumes(<<>>)
        \/ JdbAnswers(<<Text({}, c.n), Prompt>>) /\ c.verb = "run"
        \/ JdbAnswers(<<Text({}, c.n), Bare>>) /\ vm = "unstarted"
        \/ JdbAnswers(<<Line("nothing", 0, "", 0, {}, c.n), Bare>>) /\ vm # "stopped"
    BY <1>2, <1>4, <1>5, Zenon DEF JdbExecutes
  <1>7. Output \in Seq(Lines) /\ Bare \in Lines /\ Bare.is = "bare" /\ Bare.is \in Enders
    BY <1>0, OutputFacts, TextBareTypes, PlainKinds, BareIs DEF Enders
  <1>8. ASSUME NEW lines \in Seq(Lines), JdbResumes(lines), Bares(lines)
        PROVE  Runs(s)'
    <2>1. vm' = "running" /\ Emit(lines)
      BY <1>8 DEF JdbResumes
    <2>2. Output' = Output \o lines
      BY <1>0, <1>3, <2>1, EmitGrows
    <2>3. Bares(Output \o lines)
      BY <1>1, <1>7, <1>8, BaresGrow
    <2>4. Bares(Output')
      BY <2>2, <2>3
    <2> QED BY <1>1, <1>3, <2>1, <2>4 DEF Runs, Bares, NoneLate
  <1>9. ASSUME NEW x \in Lines, x.is \in {"text", "nothing"}, x.cmd = n,
               NEW y \in Lines, y.is \in Enders, vm = "stopped" => y.is = "prompt",
               JdbAnswers(<<x, y>>)
        PROVE  Declined(n, s)'
    <2>1. PICK l \in Seq(Lines) : l = <<x, y>>
      <3>1. <<x, y>> \in Seq(Lines)
        BY SeqOfTwo
      <3> QED BY <3>1
    <2>2. JdbAnswers(l)
      BY <1>9, <2>1
    <2>3. Output' = Output \o l /\ vm' = vm
      BY <1>3, <2>2, AnswerPrinted
    <2>4. Refused(Output \o <<x, y>>, n) /\ (Output \o <<x, y>>)[Len(Output \o <<x, y>>)] = y
      BY <1>1, <1>7, <1>9, RefusalGrows
    <2>5. Refused(Output', n) /\ Output'[Len(Output')] = y
      BY <2>1, <2>3, <2>4
    <2>6. Settled'
      BY <1>1, <1>3, <2>3, SettledKept
    <2> QED BY <1>1, <1>3, <1>9, <2>3, <2>5, <2>6 DEF Declined, Refused, NoneLate
  <1>10. CASE JdbResumes(<<Bare>>)
    <2>1. <<Bare>> \in Seq(Lines)
      BY <1>7, SeqOfOne
    <2>2. PICK b : b = Bare
      OBVIOUS
    <2>3. Len(<<b>>) = 1 /\ <<b>>[1].is = "bare"
      BY <1>7, <2>2
    <2>4. Bares(<<b>>)
      BY <2>3 DEF Bares
    <2>5. Bares(<<Bare>>)
      BY <2>2, <2>4
    <2> QED BY <1>8, <1>10, <2>1, <2>5
  <1>11. CASE JdbResumes(<<>>)
    <2>1. <<>> \in Seq(Lines)
      BY EmptySeq
    <2>2. Bares(<<>>)
      BY DEF Bares
    <2> QED BY <1>8, <1>11, <2>1, <2>2
  <1>12. PICK x : x = Text({}, n)
    OBVIOUS
  <1>13. x \in Lines /\ x.is = "text" /\ x.cmd = n
    BY <1>0, <1>3, <1>12, TextBareTypes, PlainKinds, BareIs
  <1>14. CASE JdbAnswers(<<Text({}, c.n), Prompt>>) /\ c.verb = "run"
    <2>1. Prompt \in Lines /\ Prompt.is \in Enders /\ (cur # 0 => Prompt.is = "prompt")
      BY <1>0, PromptIs
    <2>2. vm = "stopped" => cur # 0
      BY <1>5, <1>14 DEF Common
    <2>3. PICK y : y = Prompt
      OBVIOUS
    <2>4. JdbAnswers(<<x, y>>)
      BY <1>5, <1>12, <1>14, <2>3
    <2>5. y \in Lines /\ y.is \in Enders /\ (vm = "stopped" => y.is = "prompt")
      BY <2>1, <2>2, <2>3
    <2> QED BY <1>9, <1>13, <2>4, <2>5
  <1>15. CASE JdbAnswers(<<Text({}, c.n), Bare>>) /\ vm = "unstarted"
    <2>1. PICK y : y = Bare
      OBVIOUS
    <2>2. JdbAnswers(<<x, y>>)
      BY <1>5, <1>12, <1>15, <2>1
    <2>3. y \in Lines /\ y.is \in Enders
      BY <1>7, <2>1
    <2> QED BY <1>9, <1>13, <1>15, <2>2, <2>3
  <1>16. CASE JdbAnswers(<<Line("nothing", 0, "", 0, {}, c.n), Bare>>) /\ vm # "stopped"
    <2>1. PICK y : y = Bare
      OBVIOUS
    <2>2. PICK z : z = Line("nothing", 0, "", 0, {}, n)
      OBVIOUS
    <2>3. z \in Lines
      BY <1>0, <1>3, <2>2, PlainLine, PlainKinds
    <2>4. z.is = "nothing" /\ z.cmd = n
      BY <2>2 DEF Line
    <2>5. JdbAnswers(<<z, y>>)
      BY <1>5, <1>16, <2>1, <2>2
    <2>6. y \in Lines /\ y.is \in Enders
      BY <1>7, <2>1
    <2> QED BY <1>9, <1>16, <2>3, <2>4, <2>5, <2>6
  <1> QED BY <1>6, <1>10, <1>11, <1>14, <1>15, <1>16

\* The target stops at its next hit, or ends.
LEMMA RunsKept ==
    ASSUME TypeInv, Calm, Common, JdbStep, NEW s, Runs(s), state' = state, heard' = heard
    PROVE  Stops(s)' \/ Gone(s)'
  <1>0. TargetTypes /\ PipeTypes /\ plan \in Plans /\ raised \in Nat
    BY CalmFacts
  <1>1. /\ vm = "running" /\ late = NoneLate /\ raised = s /\ Len(heard) = s
        /\ stdin = <<>> /\ Bares(Output)
    BY DEF Runs
  <1>2. TargetHits \/ TargetEnds
    BY <1>1, StillTarget DEF JdbStep
  <1>3. Output \in Seq(Lines)
    BY <1>0, OutputFacts
  <1>4. CASE TargetHits
    <2>1. PICK m \in {2, 3}, whole \in Seq(Lines), prompt \in Lines :
              /\ vm = "running" /\ raised < Len(plan.hits) /\ late.lines = <<>>
              /\ raised' = raised + 1 /\ vm' = "stopped" /\ cur' \in Nat \ {0}
              /\ plan' = plan /\ stdin' = stdin /\ closed' = closed
              /\ buf' = buf /\ patience' = patience /\ eof' = eof
              /\ Emit(whole) /\ Len(whole) = m /\ whole[m] = prompt /\ prompt.is = "prompt"
              /\ whole[1].of = raised + 1
              /\ \/ m = 3 /\ whole[1].is = "head" /\ whole[2].is = "loc" /\ whole[2].of = raised + 1
                 \/ m = 2 /\ whole[1].is \in {"exception", "watch"}
              /\ \/ late' = NoneLate
                 \/ late' = [when |-> "soon", lines |-> <<Text({}, 0), prompt>>]
                 \/ late' = [when |-> "later", lines |-> <<Bare>>] /\ m = 3
      BY <1>4, CalmHit
    <2>2. Output' = Output \o whole
      BY <1>0, <2>1, EmitGrows
    <2>3. PICK h : h = raised + 1
      OBVIOUS
    <2>4. /\ Len(whole) = m /\ whole[1].of = h /\ whole[m].is = "prompt"
          /\ \/ m = 3 /\ whole[1].is = "head" /\ whole[2].is = "loc" /\ whole[2].of = h
             \/ m = 2 /\ whole[1].is \in {"exception", "watch"}
      BY <2>1, <2>3
    <2>5. \E b, p \in 1 .. Len(Output \o whole) :
              /\ BannerAt(Output \o whole, h, b, p) /\ p = Len(Output \o whole)
              /\ m = 3 => (Output \o whole)[b].is = "head"
      <3>1. PICK q \in Seq(Lines) : q = Output /\ Bares(q)
        BY <1>1, <1>3
      <3>2. \E b, p \in 1 .. Len(q \o whole) :
                /\ BannerAt(q \o whole, h, b, p) /\ p = Len(q \o whole)
                /\ Len(whole) = 3 => (q \o whole)[b].is = "head"
        <4>1. Len(whole) = m /\ whole[1].of = h /\ whole[Len(whole)].is = "prompt"
          BY <2>4
        <4>2. \/ Len(whole) = 3 /\ whole[1].is = "head" /\ whole[2].is = "loc" /\ whole[2].of = h
              \/ Len(whole) = 2 /\ whole[1].is \in {"exception", "watch"}
          BY <2>4
        <4> QED BY <3>1, <4>1, <4>2, BannerGrows
      <3> QED BY <2>4, <3>1, <3>2
    <2>6. late'.when = "later" => m = 3
      BY <2>1 DEF NoneLate
    <2>7. Announced(Output, raised)'
      <3>1. PICK q : q = Output \o whole
        OBVIOUS
      <3>2. \E b, p \in 1 .. Len(q) : BannerAt(q, h, b, p) /\ p = Len(q) /\ (m = 3 => q[b].is = "head")
        BY <2>5, <3>1
      <3>3. Output' = q /\ raised' = h
        BY <2>1, <2>2, <2>3, <3>1
      <3> QED BY <2>6, <3>2, <3>3 DEF Announced
    <2> QED BY <1>1, <2>1, <2>7 DEF Stops
  <1>5. CASE TargetEnds
    <2>1. /\ vm' = "gone" /\ late' = late /\ raised' = raised /\ buf' = buf
      BY <1>5 DEF TargetEnds, readerVars
    <2>2. \/ Emit(<<Line("exit", 0, "", 0, {}, 0)>>)
          \/ Emit(<<Line("fatal", 0, "", 0, {}, 0)>>) \/ Emit(<<>>)
      BY <1>5, Zenon DEF TargetEnds
    <2>3. Ended(Output')
      <3>1. ASSUME NEW x \in Lines, x.is \in {"exit", "fatal"}, Emit(<<x>>) PROVE Ended(Output')
        <4>1. PICK l : l = <<x>>
          OBVIOUS
        <4>2. l \in Seq(Lines)
          BY <4>1, SeqOfOne
        <4>3. Output' = Output \o l
          BY <1>0, <2>1, <3>1, <4>1, <4>2, EmitGrows
        <4>4. Ended(Output \o <<x>>)
          BY <1>1, <1>3, <3>1, EndGrows
        <4> QED BY <4>1, <4>3, <4>4
      <3>2. ASSUME Emit(<<>>) PROVE Ended(Output')
        <4>1. <<>> \in Seq(Lines) /\ Output \o <<>> = Output
          BY <1>3, ConcatEmptySeq, EmptySeq
        <4>2. Output' = Output
          BY <1>0, <2>1, <3>2, <4>1, EmitGrows
        <4>3. Ended(Output)
          BY <1>1, <1>3, EndGrows
        <4> QED BY <4>2, <4>3
      <3>3. PICK x, y : x = Line("exit", 0, "", 0, {}, 0) /\ y = Line("fatal", 0, "", 0, {}, 0)
        OBVIOUS
      <3>4. x \in Lines /\ y \in Lines
        BY <1>0, <3>3, PlainLine, PlainKinds
      <3>5. x.is = "exit" /\ y.is = "fatal"
        BY <3>3 DEF Line
      <3>6. Emit(<<x>>) \/ Emit(<<y>>) \/ Emit(<<>>)
        BY <2>2, <3>3
      <3> QED BY <3>1, <3>2, <3>4, <3>5, <3>6
    <2> QED BY <1>1, <2>1, <2>3 DEF Gone, Ended, NoneLate
  <1> QED BY <1>2, <1>4, <1>5

\* The stop has been announced; the rest of it may be late.
LEMMA StopsKept ==
    ASSUME TypeInv, Calm, Common, JdbStep, NEW s \in Nat, Stops(s), state' = state, heard' = heard
    PROVE  Stops(s)'
  <1>1. /\ vm = "stopped" /\ raised = s + 1 /\ Len(heard) = s /\ stdin = <<>>
        /\ Announced(Output, raised)
    BY DEF Stops
  <1>2. LateOutput /\ late # NoneLate /\ LateShape
    BY <1>1, StillTarget DEF Common
  <1>3. /\ late.lines \in Seq(Lines) /\ late' = NoneLate
        /\ vm' = vm /\ raised' = raised /\ stdin' = stdin /\ Output' = Output \o late.lines
    BY <1>2, LatePrinted
  <1>4. PICK q \in Seq(Lines) : q = Output
    BY CalmFacts, OutputFacts
  <1>5. PICK b \in 1 .. Len(q), p \in 1 .. Len(q) :
           BannerAt(q, raised, b, p) /\ p = Len(q) /\ (late.when = "later" => q[b].is = "head")
    BY <1>1, <1>2, <1>4 DEF Announced
  <1>6. PICK l \in Seq(Lines) : l = late.lines
    BY <1>3
  <1>7. \/ Len(l) = 1 /\ l[1].is = "bare" /\ q[b].is = "head"
        \/ Len(l) = 2 /\ l[1].is = "text" /\ l[2].is = "prompt"
    BY <1>1, <1>2, <1>5, <1>6 DEF LateShape
  <1>8. PICK h : h = raised
    OBVIOUS
  <1>9. /\ BannerAt(q \o l, h, b, p) /\ b \in 1 .. Len(q \o l) /\ p \in 1 .. Len(q \o l)
    BY <1>5, <1>7, <1>8, LateGrows
  <1>10. PICK w : w = q \o l
    OBVIOUS
  <1>11. Output' = w /\ raised' = h /\ late' = NoneLate /\ NoneLate.when # "later"
    BY <1>3, <1>4, <1>6, <1>8, <1>10 DEF NoneLate
  <1>12. BannerAt(w, h, b, p) /\ b \in 1 .. Len(w) /\ p \in 1 .. Len(w)
    BY <1>9, <1>10
  <1>13. Announced(Output, raised)'
    BY <1>11, <1>12 DEF Announced
  <1> QED BY <1>1, <1>3, <1>13 DEF Stops

LEMMA WaitingKept ==
    ASSUME TypeInv, Calm, Common, JdbStep, NEW n, NEW s \in Nat, Waiting(n, s),
           state' = state, heard' = heard
    PROVE  Waiting(n, s)'
  <1>1. CASE Posed(n, s)
    BY <1>1, PosedKept DEF Waiting
  <1>2. CASE Runs(s)
    BY <1>2, RunsKept DEF Waiting
  <1>3. ~Declined(n, s)
    BY NothingHappens DEF Declined
  <1>4. CASE Stops(s)
    BY <1>4, StopsKept DEF Waiting
  <1>5. ~Gone(s)
    BY NothingHappens DEF Gone
  <1> QED BY <1>1, <1>2, <1>3, <1>4, <1>5 DEF Waiting

LEMMA DrainingKept ==
    ASSUME TypeInv, Calm, Common, JdbStep, NEW s, NEW o, Draining(s, o), heard' = heard
    PROVE  /\ vm' = "stopped" /\ raised' = s + 1 /\ raised' = raised /\ Len(heard') = s
           /\ stdin' = <<>> /\ late' = NoneLate
  <1>1. vm = "stopped" /\ stdin = <<>> /\ raised = s + 1 /\ Len(heard) = s
    BY DEF Draining
  <1>2. LateOutput
    BY <1>1, StillTarget
  <1> QED BY <1>1, <1>2, LatePrinted

LEMMA OpeningKept ==
    ASSUME TypeInv, Calm, Common, JdbStep, Opening, UNCHANGED sessionVars
    PROVE  Opening'
  <1>1. /\ stdin = <<>> /\ raised = 0 /\ heard = <<>> /\ state = "Loaded"
        /\ opening' = opening /\ heard' = heard /\ state' = state
    BY DEF Opening, sessionVars
  <1>2. vm \in {"unstarted", "stopped"}
    BY DEF Opening
  <1>3. LateOutput /\ late # NoneLate
    BY <1>1, <1>2, StillTarget
  <1>4. /\ late.lines \in Seq(Lines) /\ late' = NoneLate
        /\ vm' = vm /\ raised' = raised /\ stdin' = stdin /\ Output' = Output \o late.lines
    BY <1>3, LatePrinted
  <1>5. Output \in Seq(Lines)
    BY CalmFacts, OutputFacts
  <1>6. PICK l \in Seq(Lines) : l = late.lines
    BY <1>4
  <1>7. late.when = "soon" => Len(l) = 2 /\ l[1].is = "text" /\ l[2].is = "bare"
    BY <1>1, <1>3, <1>6, LateFacts DEF Common, LateShape
  <1>8. CASE opening = "handshake" /\ late.when = "soon" /\ Len(Output) = 1 /\ Output[1].is = "bare"
    <2>1. PICK q \in Seq(Lines) : q = Output
      BY <1>5
    <2>2. /\ Len(q \o l) = Len(q) + Len(l)
          /\ \A i \in 1 .. Len(q) : (q \o l)[i] = q[i]
          /\ \A i \in 1 .. Len(l) : (q \o l)[Len(q) + i] = l[i]
      BY Joined
    <2>3. Len(q) = 1 /\ q[1].is = "bare" /\ Len(l) = 2 /\ l[1].is = "text" /\ l[2].is = "bare"
      BY <1>7, <1>8, <2>1
    <2>4. /\ Len(q \o l) = 3 /\ (q \o l)[1] = q[1] /\ (q \o l)[1 + 1] = l[1]
          /\ (q \o l)[1 + 2] = l[2]
      BY <2>2, <2>3
    <2>5. /\ Len(Output') = 3 /\ Output'[1].is = "bare" /\ Output'[2].is = "text"
          /\ Output'[3].is = "bare"
      BY <1>4, <1>6, <2>1, <2>3, <2>4
    <2> QED BY <1>1, <1>4, <1>8, <2>5 DEF Opening
  <1>9. CASE opening = "extra1" /\ late.when = "soon" /\ Output = <<>>
    <2>1. Output' = l
      BY <1>4, <1>6, <1>9, ConcatEmptySeq
    <2> QED BY <1>1, <1>4, <1>7, <1>9, <2>1 DEF Opening
  <1> QED BY <1>3, <1>8, <1>9 DEF Opening

LEMMA RaisedGrows ==
    ASSUME TypeInv, Calm, JdbStep
    PROVE  raised' \in Nat /\ raised \in Nat /\ raised <= raised'
  <1>1. raised \in Nat
    BY CalmFacts
  <1>2. raised' = raised \/ raised' = raised + 1
    BY CalmHit, Executed DEF JdbStep, LateOutput, TargetEnds
  <1> QED BY <1>1, <1>2

\* jdb and its target keep what the session relies on.
LEMMA ProcessStand ==
    ASSUME TypeInv, Calm, Common, Stand, JdbStep, UNCHANGED sessionVars
    PROVE  Stand'
  <1>1. /\ opening' = opening /\ inner' = inner /\ state' = state /\ ex' = ex
        /\ written' = written /\ heard' = heard
    BY DEF sessionVars
  <1>2. Ready' <=> Ready
    BY <1>1 DEF Ready
  <1>3. CASE ~Ready /\ inner = NoOne /\ Opening
    BY <1>1, <1>2, <1>3, OpeningKept DEF Stand
  <1>4. CASE Ready /\ inner = NoOne /\ Free
    BY <1>1, <1>2, <1>4, FreeKept DEF Stand
  <1>5. ASSUME Ready, NEW c \in Clients, inner = c, Owns(c)
        PROVE  Stand'
    <2>1. ex[c].stage \in Inside /\ ex'[c] = ex[c]
      BY <1>1, <1>5 DEF Owns
    <2>2. raised' \in Nat /\ raised \in Nat /\ raised <= raised' /\ written \in Nat
      BY RaisedGrows, CalmFacts
    <2>3. ASSUME ex[c].stage = "read" PROVE Reads(c)'
      <3>1. PICK n \in 0 .. written, s \in 0 .. raised :
               /\ n = ex[c].call.n /\ s = ex[c].call.since
               /\ ex[c].call.mode = "Normal"   => Asked(n)
               /\ ex[c].call.mode = "Blocking" => Waiting(n, s)
        BY <1>5, <2>3 DEF Owns, Reads
      <3>2. ex[c].call.mode = "Normal" => Asked(n)'
        BY <1>1, <3>1, AskedKept
      <3>3. ex[c].call.mode = "Blocking" => Waiting(n, s)'
        <4>1. s \in Nat
          BY <2>2, <3>1
        <4> QED BY <1>1, <3>1, <4>1, WaitingKept
      <3>4. n \in 0 .. written' /\ s \in 0 .. raised'
        BY <1>1, <2>2, <3>1
      <3> QED BY <2>1, <3>1, <3>2, <3>3, <3>4 DEF Reads
    <2>4. ASSUME ex[c].stage = "drain" PROVE Drains(c)'
      <3>1. PICK s \in 0 .. raised : /\ s = ex[c].call.since /\ ex[c].call.mode = "Blocking"
                                     /\ Draining(s, ex[c].out)
        BY <1>5, <2>4 DEF Owns, Drains
      <3>2. /\ vm' = "stopped" /\ raised' = s + 1 /\ raised' = raised /\ Len(heard') = s
            /\ stdin' = <<>> /\ late' = NoneLate
        BY <1>1, <3>1, DrainingKept
      <3>3. Draining(s, ex[c].out)'
        BY <2>1, <3>1, <3>2 DEF Draining
      <3>4. s \in 0 .. raised'
        BY <3>1, <3>2
      <3> QED BY <2>1, <3>1, <3>3, <3>4 DEF Drains
    <2>5. ex[c].stage \notin Asking
      BY <1>5, NothingHappens DEF Owns, AtAsk
    <2>6. ASSUME ex[c].stage \in Listens PROVE Hears'
      <3>1. PICK n \in 0 .. written : Asked(n)
        BY <1>5, <2>6 DEF Owns, Hears
      <3>2. Asked(n)'
        BY <1>1, <3>1, AskedKept
      <3> QED BY <1>1, <3>2 DEF Hears
    <2>7. Owns(c)'
      BY <2>1, <2>3, <2>4, <2>5, <2>6 DEF Owns
    <2> QED BY <1>1, <1>2, <1>5, <2>7 DEF Stand
  <1> QED BY <1>3, <1>4, <1>5 DEF Stand

-----------------------------------------------------------------------------
(* What a command gets to read                                             *)

\* When all is quiet there is nothing more to come.
LEMMA QuietFacts ==
    ASSUME TypeInv, Calm, Common, JdbQuiet, ~closed
    PROVE  /\ stdin = <<>> /\ late = NoneLate
           /\ vm = "running" => raised = Len(plan.hits) /\ plan.end = "loop"
  <1>1. stdin = <<>> /\ late.lines = <<>>
    BY DEF JdbQuiet
  <1>2. late = NoneLate
    BY <1>1, LateFacts DEF Common
  <1>3. ASSUME vm = "running" PROVE raised = Len(plan.hits) /\ plan.end = "loop"
    <2>1. held = {}
      BY <1>3 DEF Common
    <2>2. \A t : HeldAt(t) = 0
      BY <2>1, Zenon DEF HeldAt
    <2>3. ~(raised < Len(plan.hits)) /\ ~(raised = Len(plan.hits) /\ plan.end # "loop")
      BY <1>3, <2>1, <2>2 DEF JdbQuiet
    <2>4. raised \in Nat /\ Len(plan.hits) \in Nat /\ raised <= Len(plan.hits)
      BY CalmFacts
    <2> QED BY <2>3, <2>4
  <1> QED BY <1>1, <1>2, <1>3

\* The four ways in which a read ends.
LEMMA ReadEnds ==
    ASSUME TypeInv, Calm, Common, NEW mode, NEW o, ReadReturns(mode, o)
    PROVE  /\ stdin' = stdin /\ stdout' = stdout /\ closed' = closed /\ eof' = eof /\ buf' = <<>>
           /\ \/ o = try_match(buf, mode) /\ o # NoOutcome
              \/ /\ try_match(buf, mode) = NoOutcome
                 /\ \/ mode = "Blocking" /\ tail_is_partial_banner(buf) /\ stdout = <<>>
                    \/ o.kind = "Eof" /\ o.event = NoStop /\ closed
                    \/ /\ o.kind = "Timeout" /\ o.event = NoStop
                       /\ JdbQuiet /\ ~closed /\ stdout = <<>>
  <1>1. /\ stdin' = stdin /\ stdout' = stdout /\ closed' = closed /\ eof' = eof /\ buf' = <<>>
    BY DEF ReadReturns, ReadMatches, emit_partial_stop, ReadEof, ReadTimeout, take_text, pipeVars
  <1>2. CASE ReadMatches(mode, o)
    BY <1>1, <1>2 DEF ReadMatches
  <1>3. CASE emit_partial_stop(mode, o)
    BY <1>1, <1>3 DEF emit_partial_stop, PatienceSettled, Unmatched
  <1>4. CASE ReadEof(mode, o)
    BY <1>1, <1>4, OutcomeFields DEF ReadEof, PatienceSettled, Unmatched, Common
  <1>5. CASE ReadTimeout(mode, o)
    <2>1. ~plan.hasty
      BY CalmFacts
    <2> QED BY <1>1, <1>5, <2>1, OutcomeFields DEF ReadTimeout, PatienceSettled, Unmatched
  <1> QED BY <1>2, <1>3, <1>4, <1>5 DEF ReadReturns

LEMMA EmptyUnmatched ==
    try_match(<<>>, "Normal") = NoOutcome
  <1>1. PICK t \in Seq(Lines) : t = <<>> /\ Len(t) = 0
    BY EmptySeq
  <1>2. ~Has(t, "fatal") /\ ~Has(t, "exit") /\ ~EndsWith(t, "prompt") /\ ~EndsWith(t, "bare")
    <2>1. ~(Len(t) > 0) /\ ~(\E i \in 1 .. Len(t) : TRUE)
      BY <1>1
    <2> QED BY <2>1, TextFacts
  <1>3. try_match(t, "Normal") = NoOutcome
    BY <1>2, MatchCases
  <1> QED BY <1>1, <1>3

\* A command that does not resume the target gets its own answer, whole.
LEMMA AskedReturns ==
    ASSUME TypeInv, Calm, Common, NEW n, Asked(n), NEW o, ReadReturns("Normal", o)
    PROVE  /\ o.kind = "Prompt" /\ o.event = NoStop
           /\ \A i \in DOMAIN o.output : o.output[i].cmd = n
           /\ stdin = <<>> /\ stdout = <<>>
  <1>1. /\ Output \in Seq(Lines) /\ PrefixOf(buf, Output) /\ buf \in Seq(Lines)
        /\ stdout = <<>> <=> Len(buf) = Len(Output)
        /\ Len(Output) = Len(buf) + Len(stdout) /\ Len(buf) \in Nat /\ Len(stdout) \in Nat
    BY CalmFacts, OutputFacts
  <1>2. ~closed
    BY DEF Asked, Settled, Common
  <1>3. \/ o = try_match(buf, "Normal") /\ o # NoOutcome
        \/ try_match(buf, "Normal") = NoOutcome /\ JdbQuiet /\ stdout = <<>>
    BY <1>2, ReadEnds
  <1>4. JdbQuiet => stdin = <<>>
    BY <1>2, QuietFacts
  <1>5. CASE Pending(n) /\ Output = <<>>
    <2>1. stdin # <<>>
      <3>1. Len(<<>>) = 0
        OBVIOUS
      <3> QED BY <1>5, <3>1 DEF Pending
    <2>2. Len(Output) = 0
      BY <1>1, <1>5, EmptySeq
    <2>3. Len(buf) = 0
      <3>1. PICK a, b, d : a = Len(Output) /\ b = Len(buf) /\ d = Len(stdout)
        OBVIOUS
      <3>2. a = 0 /\ a = b + d /\ b \in Nat /\ d \in Nat
        BY <1>1, <2>2, <3>1, Zenon
      <3> QED BY <3>1, <3>2
    <2>4. buf = <<>>
      BY <1>1, <2>3, EmptySeq
    <2> QED BY <1>3, <1>4, <2>1, <2>4, EmptyUnmatched
  <1>6. CASE stdin = <<>> /\ Replied(Output, n)
    <2>1. PICK q \in Seq(Lines), t \in Seq(Lines) : q = Output /\ t = buf
      BY <1>1
    <2>2. Replied(q, n) /\ PrefixOf(t, q) /\ Len(q) \in Nat /\ Len(t) \in Nat /\ Len(t) <= Len(q)
      BY <1>1, <1>6, <2>1
    <2>3. /\ Len(t) < Len(q) => try_match(t, "Normal") = NoOutcome
          /\ Len(t) = Len(q) => /\ try_match(t, "Normal").kind = "Prompt"
                                /\ try_match(t, "Normal").event = NoStop
                                /\ \A i \in DOMAIN try_match(t, "Normal").output :
                                      try_match(t, "Normal").output[i].cmd = n
      BY <2>2, ReadsReply
    <2>4. Len(t) = Len(q)
      BY <1>1, <1>3, <2>1, <2>2, <2>3
    <2>5. try_match(buf, "Normal") # NoOutcome
      BY <2>1, <2>3, <2>4, OutcomeFields
    <2> QED BY <1>1, <1>3, <1>6, <2>1, <2>3, <2>4, <2>5
  <1> QED BY <1>5, <1>6 DEF Asked

\* What a resuming command gets: the answer of a jdb that did not resume; the
\* end of jdb; nothing, from a target that will not stop; or a stop (Draining).
GotAnswer(n, o) ==
    /\ o.kind = "Prompt" /\ o.event = NoStop
    /\ \A i \in DOMAIN o.output : o.output[i].is = "bare" \/ o.output[i].cmd = n
    /\ Settled /\ late = NoneLate /\ stdin = <<>> /\ stdout = <<>>
GotEnd(s, o) == o.kind \in {"Fatal", "VmExit", "Eof"} /\ o.event = NoStop /\ Gone(s)
GotNothing(o) ==
    /\ o.kind = "Timeout" /\ o.event = NoStop
    /\ vm = "unstarted" \/ (vm = "running" /\ raised = Len(plan.hits) /\ plan.end = "loop")
    /\ Len(heard) = raised /\ late = NoneLate /\ stdin = <<>> /\ stdout = <<>>

LEMMA WaitingReturns ==
    ASSUME TypeInv, Calm, Common, NEW n, NEW s \in Nat, Waiting(n, s),
           NEW o, ReadReturns("Blocking", o)
    PROVE  GotAnswer(n, o) \/ Draining(s, o) \/ GotEnd(s, o) \/ GotNothing(o)
  <1>1. /\ Output \in Seq(Lines) /\ PrefixOf(buf, Output) /\ buf \in Seq(Lines)
        /\ stdout = <<>> <=> Len(buf) = Len(Output)
    BY CalmFacts, OutputFacts
  <1>2. PICK q \in Seq(Lines), t \in Seq(Lines) : q = Output /\ t = buf
    BY <1>1
  <1>3. PrefixOf(t, q) /\ (stdout = <<>> <=> Len(t) = Len(q))
    BY <1>1, <1>2
  <1>4. \/ o = try_match(t, "Blocking") /\ o # NoOutcome
        \/ /\ try_match(t, "Blocking") = NoOutcome
           /\ \/ tail_is_partial_banner(t) /\ stdout = <<>>
              \/ o.kind = "Eof" /\ o.event = NoStop /\ closed
              \/ /\ o.kind = "Timeout" /\ o.event = NoStop
                 /\ JdbQuiet /\ ~closed /\ stdout = <<>>
    BY <1>2, ReadEnds
  <1>5. closed <=> vm = "gone"
    BY DEF Common
  <1>6. JdbQuiet /\ ~closed => /\ stdin = <<>> /\ late = NoneLate
                               /\ vm = "running" => raised = Len(plan.hits) /\ plan.end = "loop"
    BY QuietFacts
  <1>7. ASSUME Bares(q) PROVE try_match(t, "Blocking") = NoOutcome /\ ~tail_is_partial_banner(t)
    <2>1. Bares(t)
      <3>1. Len(t) \in Nat /\ Len(q) \in Nat
        BY TextFacts
      <3> QED BY <1>3, <1>7, <3>1 DEF Bares, PrefixOf
    <2> QED BY <2>1, ReadsBares
  <1>8. ~Posed(n, s)
    <2>1. SUFFICES ASSUME Posed(n, s) PROVE FALSE
      OBVIOUS
    <2>2. try_match(t, "Blocking") = NoOutcome /\ ~tail_is_partial_banner(t)
      BY <1>2, <1>7, <2>1 DEF Posed
    <2>3. ~closed
      BY <1>5, <2>1 DEF Posed, Settled
    <2>4. stdin # <<>>
      <3>1. Len(<<>>) = 0
        OBVIOUS
      <3>2. Pending(n)
        BY <2>1 DEF Posed
      <3>3. Len(stdin) = 1
        BY <3>2 DEF Pending
      <3>4. stdin = <<>> => Len(stdin) = 0
        BY <3>1
      <3> QED BY <3>3, <3>4
    <2> QED BY <1>4, <1>6, <2>2, <2>3, <2>4
  <1>9. CASE Runs(s)
    <2>1. try_match(t, "Blocking") = NoOutcome /\ ~tail_is_partial_banner(t)
      BY <1>2, <1>7, <1>9 DEF Runs
    <2>2. vm = "running" /\ ~closed /\ raised = s /\ Len(heard) = s
      BY <1>5, <1>9 DEF Runs
    <2>3. o.kind = "Timeout" /\ o.event = NoStop /\ JdbQuiet /\ stdout = <<>>
      BY <1>4, <2>1, <2>2
    <2> QED BY <1>6, <2>2, <2>3 DEF GotNothing
  <1>10. CASE Declined(n, s)
    <2>1. /\ Settled /\ late = NoneLate /\ stdin = <<>> /\ Refused(q, n) /\ raised = s
          /\ vm = "stopped" => q[Len(q)].is = "prompt"
      BY <1>2, <1>10 DEF Declined
    <2>2. ~closed
      BY <1>5, <2>1 DEF Settled
    <2> DEFINE m == try_match(t, "Blocking")
    <2>3. /\ m # NoOutcome => /\ Len(t) = Len(q) /\ m.kind = "Prompt" /\ m.event = NoStop
                              /\ \A i \in DOMAIN m.output :
                                    m.output[i].is = "bare" \/ m.output[i].cmd = n
          /\ Len(t) = Len(q) /\ q[Len(q)].is = "prompt" => m # NoOutcome
          /\ ~tail_is_partial_banner(t)
      BY <1>3, <2>1, ReadsRefusal
    <2> HIDE DEF m
    <2>4. CASE o = m /\ o # NoOutcome
      BY <1>3, <2>1, <2>3, <2>4 DEF GotAnswer
    <2>5. CASE m = NoOutcome /\ o.kind = "Timeout" /\ o.event = NoStop /\ stdout = <<>>
      <3>1. vm # "stopped"
        BY <1>3, <2>1, <2>3, <2>5
      <3> QED BY <2>1, <2>5, <3>1 DEF GotNothing, Settled
    <2> QED BY <1>4, <2>2, <2>3, <2>4, <2>5 DEF m
  <1>11. CASE Stops(s)
    <2>1. /\ vm = "stopped" /\ raised = s + 1 /\ Len(heard) = s /\ stdin = <<>>
          /\ raised # 0 /\ ~closed
      BY <1>5, <1>11 DEF Stops
    <2>2. PICK b \in 1 .. Len(q), p \in 1 .. Len(q) :
             BannerAt(q, raised, b, p) /\ (late # NoneLate => p = Len(q))
      BY <1>2, <1>11 DEF Stops, Announced
    <2>3. PICK h : h = raised
      OBVIOUS
    <2>4. h # 0 /\ BannerAt(q, h, b, p)
      BY <2>1, <2>2, <2>3
    <2> DEFINE m == try_match(t, "Blocking")
    <2>5. /\ m # NoOutcome =>
                /\ m.kind = "Prompt" /\ m.event # NoStop /\ m.event.hit = h
                /\ is_partial_stopped(event_to_result(m.event)) => p < Len(t)
          /\ Len(t) = Len(q) => m # NoOutcome /\ ~tail_is_partial_banner(t)
      BY <1>3, <2>4, ReadsBanner
    <2> HIDE DEF m
    <2>6. o = m /\ o # NoOutcome
      BY <1>3, <1>4, <2>1, <2>5 DEF m
    <2>7. is_partial_stopped(event_to_result(o.event)) => late = NoneLate
      <3>1. SUFFICES ASSUME p < Len(t) PROVE p # Len(q)
        BY <2>2, <2>5, <2>6
      <3>2. Len(t) \in Nat /\ Len(q) \in Nat /\ Len(t) <= Len(q)
        BY <1>3, TextFacts DEF PrefixOf
      <3> QED BY <3>1, <3>2
    <2> QED BY <2>1, <2>3, <2>5, <2>6, <2>7 DEF Draining
  <1>12. CASE Gone(s)
    <2>1. closed /\ Ended(q)
      BY <1>2, <1>5, <1>12 DEF Gone
    <2>2. /\ \/ try_match(t, "Blocking") = NoOutcome
             \/ /\ try_match(t, "Blocking").kind \in {"Fatal", "VmExit"}
                /\ try_match(t, "Blocking").event = NoStop
          /\ ~tail_is_partial_banner(t)
      BY <1>3, <2>1, ReadsEnd
    <2>3. o.kind \in {"Fatal", "VmExit", "Eof"} /\ o.event = NoStop
      BY <1>4, <2>1, <2>2
    <2> QED BY <1>12, <2>3 DEF GotEnd
  <1> QED BY <1>8, <1>9, <1>10, <1>11, <1>12 DEF Waiting

-----------------------------------------------------------------------------
(* Opening a session                                                       *)

LEMMA CommonKept ==
    ASSUME Common, UNCHANGED targetVars, closed' = closed, eof' => eof \/ closed,
           heard' = heard, misread' = misread
    PROVE  Common'
  BY DEF Common, LateShape, targetVars

LEMMA ReadOnFacts ==
    ASSUME NEW mode, ReadContinues(mode)
    PROVE  stdin' = stdin /\ closed' = closed /\ (eof' => eof \/ closed)
  BY DEF ReadContinues, ReadChunk, ReadPatience, ReadClosed, pipeVars

\* The mutex is not taken and nothing is asked before the session is open.
LEMMA OpenReadsKept ==
    ASSUME TypeInv, Common, Opening, OpenReads
    PROVE  Common' /\ Opening'
  <1>1. ReadContinues("Normal") /\ UNCHANGED targetVars /\ UNCHANGED sessionVars
    BY DEF OpenReads
  <1>2. stdin' = stdin /\ closed' = closed /\ (eof' => eof \/ closed)
    BY <1>1, ReadOnFacts
  <1>3. Output' = Output
    BY <1>1, ReadingKeeps DEF TypeInv, ProcessTypes
  <1>4. Common'
    BY <1>1, <1>2, CommonKept DEF sessionVars
  <1>5. Opening'
    <2>1. PICK q : q = Output
      OBVIOUS
    <2>2. Output' = q /\ Output = q
      BY <1>3, <2>1
    <2> QED BY <1>1, <1>2, <2>2 DEF Opening, targetVars, sessionVars
  <1> QED BY <1>4, <1>5

LEMMA LaunchedKept ==
    ASSUME TypeInv, Calm, Common, inner = NoOne, Opening, Launched
    PROVE  Common' /\ Stand'
  <1>1. PICK o : ReadReturns("Normal", o)
    BY DEF Launched
  <1>2. stdin' = stdin /\ stdout' = stdout /\ closed' = closed /\ eof' = eof /\ buf' = <<>>
    BY <1>1, ReadEnds
  <1>3. /\ opening = "launch" /\ opening' = "ready" /\ UNCHANGED targetVars
        /\ inner' = inner /\ state' = state /\ heard' = heard /\ misread' = misread
    BY DEF Launched
  <1>4. /\ vm = "unstarted" /\ late = NoneLate /\ Bares(Output) /\ state = "Loaded"
        /\ stdin = <<>> /\ raised = 0 /\ heard = <<>>
    BY <1>3 DEF Opening
  <1>5. Common'
    BY <1>2, <1>3, CommonKept
  <1>6. Bares(stdout)
    <2>1. PICK q \in Seq(Lines), l \in Seq(Lines) : q = Output /\ l = stdout
      BY CalmFacts, OutputFacts
    <2>2. /\ Len(q) \in Nat /\ Len(l) \in Nat /\ Len(buf) \in Nat /\ Len(q) = Len(buf) + Len(l)
          /\ \A i \in 1 .. Len(l) : q[Len(buf) + i] = l[i]
      BY <2>1, CalmFacts, OutputFacts
    <2>3. \A i \in 1 .. Len(l) : Len(buf) + i \in 1 .. Len(q)
      BY <2>2
    <2>4. Bares(l)
      BY <1>4, <2>1, <2>2, <2>3 DEF Bares
    <2> QED BY <2>1, <2>4
  <1>7. Len(heard) = 0
    BY <1>4
  <1>8. Settled'
    BY <1>3, <1>4, <1>7 DEF Settled, targetVars
  <1>9. Free'
    <2>1. late'.when # "soon"
      BY <1>3, <1>4 DEF targetVars, NoneLate
    <2> QED BY <1>2, <1>4, <1>6, <1>8, <2>1 DEF Free, Bares
  <1> QED BY <1>3, <1>5, <1>9 DEF Stand, Ready

\* A prompt that ends what has come so far is taken for the end of the greeting.
LEMMA Greets ==
    ASSUME TypeInv, Calm, Common, vm = "stopped", NEW o, ReadReturns("Normal", o),
           \A i \in 1 .. Len(Output) : Output[i].is \in {"bare", "text"}
    PROVE  \/ Len(buf) > 0 /\ buf[Len(buf)].is = "bare" /\ o.kind = "Prompt"
           \/ /\ ~ (Len(buf) > 0 /\ buf[Len(buf)].is = "bare")
              /\ o.kind = "Timeout" /\ stdout = <<>> /\ late = NoneLate
  <1>1. PICK t \in Seq(Lines), q \in Seq(Lines) : t = buf /\ q = Output /\ PrefixOf(t, q)
    BY CalmFacts, OutputFacts
  <1>2. \A i \in 1 .. Len(t) : t[i].is \in {"bare", "text"}
    <2>1. Len(t) \in Nat /\ Len(q) \in Nat
      BY TextFacts
    <2> QED BY <1>1, <2>1 DEF PrefixOf
  <1>3. ~Has(t, "fatal") /\ ~Has(t, "exit")
    <2>1. \A i \in 1 .. Len(t) : t[i].is \notin {"fatal", "exit"}
      BY <1>2
    <2> QED BY <2>1, TextFacts
  <1>4. ~EndsWith(t, "prompt") /\ (EndsWith(t, "bare") <=> Len(t) > 0 /\ t[Len(t)].is = "bare")
    <2>1. Len(t) \in Nat /\ (Len(t) > 0 => t[Len(t)].is # "prompt")
      BY <1>2, TextFacts
    <2> QED BY <2>1, TextFacts
  <1>5. ~closed
    BY DEF Common
  <1>6. \/ o = try_match(t, "Normal") /\ o # NoOutcome
        \/ /\ try_match(t, "Normal") = NoOutcome
           /\ o.kind = "Timeout" /\ JdbQuiet /\ stdout = <<>>
    BY <1>1, <1>5, ReadEnds
  <1>7. JdbQuiet => late = NoneLate
    BY <1>5, QuietFacts
  <1>8. CASE EndsWith(t, "bare")
    <2>1. try_match(t, "Normal") = Outcome("Prompt", Front(t), detect_event(Front(t), Last(t).who))
      BY <1>3, <1>8, MatchCases
    <2>2. try_match(t, "Normal").kind = "Prompt" /\ try_match(t, "Normal") # NoOutcome
      BY <2>1, OutcomeFields
    <2> QED BY <1>1, <1>4, <1>6, <1>8, <2>2
  <1>9. CASE ~EndsWith(t, "bare")
    <2>1. try_match(t, "Normal") = NoOutcome
      BY <1>3, <1>4, <1>9, MatchCases
    <2> QED BY <1>1, <1>4, <1>6, <1>7, <1>9, <2>1
  <1> QED BY <1>8, <1>9

\* What a read leaves.
LEMMA Split ==
    ASSUME TypeInv, Calm
    PROVE  /\ Output \in Seq(Lines) /\ buf \in Seq(Lines) /\ stdout \in Seq(Lines)
           /\ Len(Output) = Len(buf) + Len(stdout) /\ Len(buf) \in Nat /\ Len(stdout) \in Nat
           /\ \A i \in 1 .. Len(buf) : buf[i] = Output[i]
           /\ \A i \in 1 .. Len(stdout) : stdout[i] = Output[Len(buf) + i]
           /\ stdout = <<>> <=> Len(stdout) = 0
           /\ buf' = <<>> /\ stdout' = stdout => Output' = stdout
  <1>1. /\ Output \in Seq(Lines) /\ buf \in Seq(Lines) /\ stdout \in Seq(Lines)
        /\ Len(Output) = Len(buf) + Len(stdout) /\ Len(buf) \in Nat /\ Len(stdout) \in Nat
        /\ PrefixOf(buf, Output)
        /\ \A i \in 1 .. Len(stdout) : Output[Len(buf) + i] = stdout[i]
    BY CalmFacts, OutputFacts
  <1>2. stdout = <<>> <=> Len(stdout) = 0
    BY <1>1, EmptySeq
  <1>3. buf' = <<>> /\ stdout' = stdout => Output' = stdout
    BY <1>1, ConcatEmptySeq DEF Output
  <1> QED BY <1>1, <1>2, <1>3 DEF PrefixOf

LEMMA HandshakeKept ==
    ASSUME TypeInv, Calm, Common, inner = NoOne, Opening, Handshake
    PROVE  Common' /\ Opening' /\ opening' # "ready" /\ inner' = inner
  <1>1. PICK o : /\ ReadReturns("Normal", o)
                 /\ opening' = IF o.kind \in {"Fatal", "Eof"} THEN "failed" ELSE "extra1"
    BY DEF Handshake
  <1>2. stdin' = stdin /\ stdout' = stdout /\ closed' = closed /\ eof' = eof /\ buf' = <<>>
    BY <1>1, ReadEnds
  <1>3. /\ opening = "handshake" /\ UNCHANGED targetVars
        /\ inner' = inner /\ state' = state /\ heard' = heard /\ misread' = misread
    BY DEF Handshake
  <1>4. /\ vm = "stopped" /\ state = "Loaded" /\ stdin = <<>> /\ raised = 0 /\ heard = <<>>
        /\ \/ late.when = "soon" /\ Len(Output) = 1 /\ Output[1].is = "bare"
           \/ /\ late = NoneLate /\ Len(Output) = 3 /\ Output[1].is = "bare"
              /\ Output[2].is = "text" /\ Output[3].is = "bare"
    BY <1>3 DEF Opening
  <1>5. Common'
    BY <1>2, <1>3, CommonKept
  <1>6. PICK q \in Seq(Lines), t \in Seq(Lines), l \in Seq(Lines) :
           /\ q = Output /\ t = buf /\ l = stdout /\ Output' = l
           /\ Len(q) = Len(t) + Len(l) /\ Len(t) \in Nat /\ Len(l) \in Nat
           /\ \A i \in 1 .. Len(t) : t[i] = q[i]
           /\ \A i \in 1 .. Len(l) : l[i] = q[Len(t) + i]
           /\ l = <<>> <=> Len(l) = 0
    BY <1>2, Split
  <1>12. PICK a \in Nat, b \in Nat : a = Len(t) /\ b = Len(l) /\ Len(q) = a + b
    BY <1>6
  <1>13. b = 0 => l = <<>>
    BY <1>6, <1>12
  <1>7. \A i \in 1 .. Len(Output) : Output[i].is \in {"bare", "text"}
    BY <1>4
  <1>8. \/ Len(t) > 0 /\ t[Len(t)].is = "bare" /\ o.kind = "Prompt"
        \/ /\ ~ (Len(t) > 0 /\ t[Len(t)].is = "bare")
           /\ o.kind = "Timeout" /\ l = <<>> /\ late = NoneLate
    BY <1>1, <1>4, <1>6, <1>7, Greets
  <1>9. opening' = "extra1"
    BY <1>1, <1>8
  <1>10. CASE late.when = "soon" /\ Len(q) = 1 /\ q[1].is = "bare"
    <2>1. late # NoneLate
      BY <1>10 DEF NoneLate
    <2>2. l = <<>>
      <3>1. a > 0 /\ a + b = 1
        BY <1>8, <1>10, <1>12, <2>1
      <3>2. b = 0
        BY <3>1
      <3> QED BY <1>12, <1>13, <3>2
    <2> QED BY <1>3, <1>4, <1>5, <1>6, <1>9, <1>10, <1>2, <2>2 DEF Opening, targetVars
  <1>11. CASE /\ late = NoneLate /\ Len(q) = 3 /\ q[1].is = "bare"
              /\ q[2].is = "text" /\ q[3].is = "bare"
    <2>1. Len(t) > 0 /\ t[Len(t)].is = "bare"
      <3>1. SUFFICES ASSUME l = <<>>, ~ (Len(t) > 0 /\ t[Len(t)].is = "bare") PROVE FALSE
        BY <1>8
      <3>2. Len(t) = 3
        BY <1>6, <1>11, <3>1
      <3>3. t[3] = q[3]
        BY <1>6, <3>2
      <3> QED BY <1>11, <3>1, <3>2, <3>3
    <2>2. Len(t) \in {1, 2, 3}
      <3>1. a > 0 /\ a + b = 3
        BY <1>11, <1>12, <2>1
      <3>2. a \in {1, 2, 3}
        BY <3>1
      <3> QED BY <1>12, <1>13, <3>2
    <2>3. Len(t) # 2
      BY <1>6, <1>11, <2>1
    <2>4. CASE Len(t) = 1
      <3>1. Len(l) = 2
        <4>1. a = 1 /\ a + b = 3
          BY <1>11, <1>12, <2>4
        <4>2. b = 2
          BY <4>1
        <4> QED BY <1>12, <1>13, <4>2
      <3>2. l[1] = q[1 + 1] /\ l[2] = q[1 + 2]
        BY <1>6, <2>4, <3>1
      <3>3. l[1].is = "text" /\ l[2].is = "bare"
        BY <1>11, <3>2
      <3> QED BY <1>2, <1>3, <1>4, <1>5, <1>6, <1>9, <1>11, <3>1, <3>3 DEF Opening, targetVars
    <2>5. CASE Len(t) = 3
      <3>1. l = <<>>
        <4>1. a = 3 /\ a + b = 3
          BY <1>11, <1>12, <2>5
        <4>2. b = 0
          BY <4>1
        <4> QED BY <1>12, <1>13, <4>2
      <3> QED BY <1>2, <1>3, <1>4, <1>5, <1>6, <1>9, <1>11, <3>1 DEF Opening, targetVars
    <2> QED BY <2>2, <2>3, <2>4, <2>5
  <1> QED BY <1>4, <1>6, <1>10, <1>11

LEMMA ExtraPromptsKept ==
    ASSUME TypeInv, Calm, Common, inner = NoOne, Opening, ExtraPrompts
    PROVE  Common' /\ Stand'
  <1>1. PICK o : /\ ReadReturns("Normal", o)
                 /\ opening' = CASE o.kind = "Prompt" /\ opening = "extra1" -> "extra2"
                                 [] o.kind = "Prompt" /\ opening = "extra2" -> "extra3"
                                 [] OTHER -> "ready"
    BY DEF ExtraPrompts
  <1>2. /\ o.kind = "Prompt" /\ opening = "extra1" => opening' = "extra2"
        /\ o.kind = "Timeout" => opening' = "ready"
    BY <1>1
  <1>3. stdin' = stdin /\ stdout' = stdout /\ closed' = closed /\ eof' = eof /\ buf' = <<>>
    BY <1>1, ReadEnds
  <1>4. /\ opening \in {"extra1", "extra2"} /\ UNCHANGED targetVars
        /\ inner' = inner /\ heard' = heard /\ misread' = misread
        /\ state' = IF opening' = "ready" THEN "Suspended" ELSE state
    BY DEF ExtraPrompts, Opening
  <1>5. /\ vm = "stopped" /\ state = "Loaded" /\ stdin = <<>> /\ raised = 0 /\ heard = <<>>
        /\ \/ Output = <<>>
           \/ /\ opening = "extra1" /\ late = NoneLate
              /\ Len(Output) = 2 /\ Output[1].is = "text" /\ Output[2].is = "bare"
    BY <1>4 DEF Opening
  <1>6. Common'
    BY <1>3, <1>4, CommonKept
  <1>7. PICK q \in Seq(Lines), t \in Seq(Lines), l \in Seq(Lines) :
           /\ q = Output /\ t = buf /\ l = stdout /\ Output' = l
           /\ Len(q) = Len(t) + Len(l) /\ Len(t) \in Nat /\ Len(l) \in Nat
           /\ \A i \in 1 .. Len(t) : t[i] = q[i]
           /\ l = <<>> <=> Len(l) = 0
    BY <1>3, Split
  <1>12. PICK a \in Nat, b \in Nat : a = Len(t) /\ b = Len(l) /\ Len(q) = a + b
    BY <1>7
  <1>13. b = 0 => l = <<>>
    BY <1>7, <1>12
  <1>8. \A i \in 1 .. Len(Output) : Output[i].is \in {"bare", "text"}
    <2>1. Output = <<>> => Len(Output) = 0
      OBVIOUS
    <2> QED BY <1>5, <2>1
  <1>9. \/ Len(t) > 0 /\ t[Len(t)].is = "bare" /\ o.kind = "Prompt"
        \/ /\ ~ (Len(t) > 0 /\ t[Len(t)].is = "bare")
           /\ o.kind = "Timeout" /\ l = <<>> /\ late = NoneLate
    BY <1>1, <1>5, <1>7, <1>8, Greets
  <1>10. CASE q = <<>>
    <2>1. Len(q) = 0
      BY <1>10
    <2>2. Len(t) = 0
      BY <1>7, <2>1
    <2>3. o.kind = "Timeout" /\ l = <<>> /\ late = NoneLate
      BY <1>9, <2>2
    <2>4. opening' = "ready" /\ state' = "Suspended"
      BY <1>2, <1>4, <2>3
    <2>5. Settled'
      <3>1. Len(heard) = 0
        BY <1>5
      <3> QED BY <1>4, <1>5, <2>4, <3>1 DEF Settled, targetVars
    <2>6. Free'
      <3>1. late'.when # "soon"
        BY <1>4, <2>3 DEF targetVars, NoneLate
      <3>2. Bares(<<>>)
        BY DEF Bares
      <3>3. stdout' = <<>> /\ stdin' = <<>> /\ buf' = <<>>
        BY <1>3, <1>5, <1>7, <2>3
      <3>4. Bares(stdout')
        BY <3>2, <3>3
      <3> QED BY <2>5, <3>1, <3>3, <3>4 DEF Free, Bares
    <2> QED BY <1>4, <1>6, <2>4, <2>6 DEF Stand, Ready
  <1>11. CASE /\ opening = "extra1" /\ late = NoneLate
              /\ Len(q) = 2 /\ q[1].is = "text" /\ q[2].is = "bare"
    <2>1. Len(t) > 0 /\ t[Len(t)].is = "bare" /\ o.kind = "Prompt"
      <3>1. SUFFICES ASSUME l = <<>>, ~ (Len(t) > 0 /\ t[Len(t)].is = "bare") PROVE FALSE
        BY <1>9
      <3>2. Len(t) = 2
        BY <1>7, <1>11, <3>1
      <3>3. t[2] = q[2]
        BY <1>7, <3>2
      <3> QED BY <1>11, <3>1, <3>2, <3>3
    <2>2. l = <<>>
      <3>1. Len(t) \in {1, 2}
        <4>1. a > 0 /\ a + b = 2
          BY <1>11, <1>12, <2>1
        <4>2. a \in {1, 2}
          BY <4>1
        <4> QED BY <1>12, <1>13, <4>2
      <3>2. Len(t) # 1
        BY <1>7, <1>11, <2>1
      <3>3. a = 2 /\ a + b = 2
        BY <1>11, <1>12, <3>1, <3>2
      <3>4. b = 0
        BY <3>3
      <3> QED BY <1>12, <1>13, <3>4
    <2>3. opening' = "extra2" /\ state' = state
      BY <1>2, <1>4, <1>11, <2>1
    <2>4. Opening'
      BY <1>3, <1>4, <1>5, <1>7, <1>11, <2>2, <2>3 DEF Opening, targetVars
    <2> QED BY <1>4, <1>6, <2>3, <2>4 DEF Stand, Ready
  <1> QED BY <1>5, <1>7, <1>10, <1>11

LEMMA OpenerKept ==
    ASSUME TypeInv, Calm, Common, Waits, Stand, OpenerStep, UNCHANGED handlerVars
    PROVE  Common' /\ Waits' /\ Stand'
  <1>1. opening # "ready" /\ ex' = ex /\ cl' = cl
    BY DEF OpenerStep, OpenReads, Launched, Handshake, ExtraPrompts, sessionVars, handlerVars
  <1>2. inner = NoOne /\ Opening
    BY <1>1 DEF Stand, Ready
  <1>3. Waits'
    BY <1>1 DEF Waits, Ready
  <1>4. CASE OpenReads
    <2>1. Common' /\ Opening'
      BY <1>2, <1>4, OpenReadsKept
    <2>2. opening' = opening /\ inner' = inner
      BY <1>4 DEF OpenReads, sessionVars
    <2> QED BY <1>1, <1>2, <1>3, <2>1, <2>2 DEF Stand, Ready
  <1>5. CASE Launched
    BY <1>2, <1>3, <1>5, LaunchedKept
  <1>6. CASE Handshake
    <2>1. Common' /\ Opening' /\ opening' # "ready" /\ inner' = inner
      BY <1>2, <1>6, HandshakeKept
    <2> QED BY <1>2, <1>3, <2>1 DEF Stand, Ready
  <1>7. CASE ExtraPrompts
    BY <1>2, <1>3, <1>7, ExtraPromptsKept
  <1> QED BY <1>4, <1>5, <1>6, <1>7 DEF OpenerStep

-----------------------------------------------------------------------------
(* A client's step                                                         *)

LEMMA OwnerOwns ==
    ASSUME TypeInv, Stand, NEW c \in Clients, ex[c].stage \in Inside
    PROVE  Ready /\ inner = c /\ Owns(c)
  <1>1. inner = c
    BY DEF TypeInv, ClientTypes
  <1>2. inner # NoOne
    BY <1>1, ClientsAssumption
  <1> QED BY <1>1, <1>2 DEF Stand

LEMMA MutexFree ==
    ASSUME Stand, Ready, inner = NoOne
    PROVE  Free
  BY ClientsAssumption DEF Stand

\* Whoever is in execute has a request, and the session is open.
LEMMA ExecuteStages ==
    ASSUME Waits, NEW c \in Clients, Execute(c)
    PROVE  Ready /\ cl[c].at # "idle"
  <1>1. ex[c].stage # "none"
    <2>1. CASE RejectTerminated(c) \/ Send(c)
      BY <2>1 DEF RejectTerminated, Send, Asks
    <2>2. CASE ReadOn(c) \/ ReadDone(c) \/ Drain(c) \/ KillAsks(c) \/ KillEnds(c) \/ StatusRead(c)
      BY <2>2 DEF ReadOn, ReadDone, Drain, KillAsks, KillEnds, StatusRead
    <2>3. CASE Enrich(c)
      <3>1. PICK q \in Queries : ex[c].stage = Ask[q] \/ ex[c].stage = Listen[q]
        BY <2>3 DEF Enrich, QueryReadsOn, RunQuery, QueryAnswered
      <3>2. Ask[q] \in Asking /\ Listen[q] \in Listens
        BY QueryStages
      <3>3. "none" \notin Inside /\ Ask[q] \in Inside /\ Listen[q] \in Inside
        BY <3>2, QueryInside, DoneIsOutside
      <3> QED BY <3>1, <3>3
    <2> QED BY <2>1, <2>2, <2>3 DEF Execute
  <1> QED BY <1>1 DEF Waits

LEMMA WaitsKept ==
    ASSUME TypeInv, Waits, NEW c \in Clients, cl[c].at # "idle", opening' = opening, cl' = cl,
           \A d \in Clients : d # c => ex'[d] = ex[d]
    PROVE  Waits'
  BY DEF Waits, Ready

LEMMA AskedSame ==
    ASSUME NEW n, Asked(n), UNCHANGED targetVars, stdin' = stdin, Output' = Output,
           state' = state, heard' = heard
    PROVE  Asked(n)'
  <1>1. PICK q : q = Output
    OBVIOUS
  <1>2. Output = q /\ Output' = q
    BY <1>1
  <1> QED BY <1>2 DEF Asked, Settled, Pending, targetVars

LEMMA WaitingSame ==
    ASSUME NEW n, NEW s, Waiting(n, s), UNCHANGED targetVars, stdin' = stdin, Output' = Output,
           state' = state, heard' = heard
    PROVE  Waiting(n, s)'
  <1>1. PICK q : q = Output
    OBVIOUS
  <1>2. Output = q /\ Output' = q
    BY <1>1
  <1>3. Settled => Settled'
    BY DEF Settled, targetVars
  <1>4. Posed(n, s) => Posed(n, s)'
    BY <1>2, <1>3 DEF Posed, Pending, targetVars
  <1>5. Runs(s) => Runs(s)'
    BY <1>2 DEF Runs, targetVars
  <1>6. Declined(n, s) => Declined(n, s)'
    BY <1>2, <1>3 DEF Declined, targetVars
  <1>7. Stops(s) => Stops(s)'
    BY <1>2 DEF Stops, Announced, targetVars
  <1>8. Gone(s) => Gone(s)'
    BY <1>2 DEF Gone, targetVars
  <1> QED BY <1>4, <1>5, <1>6, <1>7, <1>8 DEF Waiting

LEMMA SameOutput ==
    ASSUME UNCHANGED processVars
    PROVE  UNCHANGED targetVars /\ stdin' = stdin /\ Output' = Output /\ closed' = closed /\ eof' = eof
           /\ buf' = buf /\ stdout' = stdout
  BY DEF processVars, pipeVars, readerVars, Output

LEMMA FreeSame ==
    ASSUME Free, UNCHANGED processVars, state' = state, heard' = heard
    PROVE  Free'
  BY SameOutput DEF Free, Over, Settled, Bares, targetVars

LEMMA OwnsSame ==
    ASSUME NEW c \in Clients, Owns(c), UNCHANGED processVars, state' = state, heard' = heard,
           written' = written, ex'[c] = ex[c]
    PROVE  Owns(c)'
  <1>1. /\ UNCHANGED targetVars /\ stdin' = stdin /\ Output' = Output
        /\ buf' = buf /\ stdout' = stdout
    BY SameOutput
  <1>2. raised' = raised
    BY <1>1 DEF targetVars
  <1>3. Reads(c) => Reads(c)'
    <2>1. ASSUME NEW n, NEW s PROVE (Asked(n) => Asked(n)') /\ (Waiting(n, s) => Waiting(n, s)')
      BY <1>1, AskedSame, WaitingSame
    <2> QED BY <1>2, <2>1 DEF Reads
  <1>4. Drains(c) => Drains(c)'
    BY <1>1, <1>2 DEF Drains, Draining, targetVars
  <1>5. AtAsk => AtAsk'
    BY <1>1 DEF AtAsk, Settled, targetVars
  <1>6. Hears => Hears'
    <2>1. ASSUME NEW n PROVE Asked(n) => Asked(n)'
      BY <1>1, AskedSame
    <2> QED BY <2>1 DEF Hears
  <1> QED BY <1>3, <1>4, <1>5, <1>6 DEF Owns

\* Nothing is written for a session that is over, and the state is only read.
LEMMA QuickKept ==
    ASSUME TypeInv, Calm, Common, Waits, Stand, NEW c \in Clients,
           RejectTerminated(c) \/ StatusRead(c), cl' = cl
    PROVE  Common' /\ Waits' /\ Stand'
  <1>1. /\ UNCHANGED processVars /\ opening' = opening /\ inner' = inner /\ state' = state
        /\ written' = written /\ heard' = heard /\ misread' = misread /\ inner = NoOne
    BY DEF RejectTerminated, StatusRead, Asks
  <1>2. Ready /\ cl[c].at # "idle"
    BY ExecuteStages DEF Execute
  <1>3. \A d \in Clients : d # c => ex'[d] = ex[d]
    BY DEF RejectTerminated, StatusRead, TypeInv, ClientTypes
  <1>4. Waits'
    BY <1>1, <1>2, <1>3, WaitsKept
  <1>5. Common'
    BY <1>1, SameOutput, CommonKept
  <1>6. Free'
    BY <1>1, <1>2, MutexFree, FreeSame
  <1> QED BY <1>1, <1>2, <1>4, <1>5, <1>6 DEF Stand, Ready

\* One command is written to a session that is free.
LEMMA WrittenOne ==
    ASSUME TypeInv, Calm, stdin = <<>>, NEW verb, NEW arg, NEW id, Write(verb, arg, id),
           NEW m, m = written + 1
    PROVE  /\ written' = m /\ written \in Nat /\ m \in 0 .. written'
           /\ Pending(m)' /\ stdin'[1].verb = verb
  <1>1. PICK k : k = [verb |-> verb, arg |-> arg, id |-> id, n |-> written + 1]
    OBVIOUS
  <1>2. written' = written + 1 /\ stdin' = Append(<<>>, k)
    BY <1>1 DEF Write
  <1>3. Append(<<>>, k) = <<k>>
    OBVIOUS
  <1>4. Len(<<k>>) = 1 /\ <<k>>[1] = k
    OBVIOUS
  <1>5. Len(stdin') = 1 /\ stdin'[1] = k
    BY <1>2, <1>3, <1>4
  <1>6. k.verb = verb /\ k.n = written + 1
    BY <1>1
  <1>7. written \in Nat
    BY CalmFacts
  <1>8. m \in 0 .. written' /\ written' = m
    BY <1>2, <1>7
  <1>9. Pending(m)'
    BY <1>5, <1>6 DEF Pending
  <1> QED BY <1>5, <1>6, <1>7, <1>8, <1>9

LEMMA SendKept ==
    ASSUME TypeInv, Calm, Common, Waits, Stand, NEW c \in Clients, Send(c), cl' = cl
    PROVE  Common' /\ Waits' /\ Stand'
  <1>1. /\ Asks(c) /\ ~Terminated /\ late.when # "later"
        /\ UNCHANGED targetVars /\ closed' = closed /\ opening' = opening /\ state' = state
        /\ heard' = heard /\ misread' = misread
    BY CalmFacts DEF Send, InTime
  <1>2. Ready /\ cl[c].at # "idle"
    BY ExecuteStages DEF Execute
  <1>3. Free /\ ex[c].stage = "acquire"
    BY <1>1, <1>2, MutexFree DEF Asks
  <1>4. Settled /\ stdin = <<>> /\ buf = <<>> /\ Bares(stdout) /\ late = NoneLate
    <2>1. ~Over
      BY <1>1 DEF Over, Terminated
    <2> QED BY <1>1, <1>3, <2>1, LateFacts DEF Free, Common
  <1>5. ~closed
    BY <1>4 DEF Settled, Common
  <1>6. /\ inner' = c /\ Write(ex[c].call.verb, ex[c].call.arg, ex[c].call.id)
        /\ ex' = [ex EXCEPT ![c].stage = "read", ![c].call.n = written + 1,
                            ![c].call.since = raised]
        /\ IF ex[c].call.mode = "Normal" THEN purge_pending ELSE no_purge
    BY <1>5 DEF Send
  <1>7. GoodCall(ex[c].call) /\ ExOK(ex[c]) /\ DOMAIN ex = Clients
    BY <1>3 DEF TypeInv, ClientTypes, ExOK
  <1>8. PICK k, m, s : k = ex[c].call /\ m = written + 1 /\ s = raised
    OBVIOUS
  <1>9. /\ ex'[c].stage = "read" /\ ex'[c].call.n = m /\ ex'[c].call.since = s
        /\ ex'[c].call.mode = k.mode
    BY <1>6, <1>7, <1>8 DEF ExOK, GoodCall
  <1>10. /\ written' = m /\ written \in Nat /\ m \in 0 .. written'
         /\ Pending(m)' /\ stdin'[1].verb = k.verb
    BY <1>4, <1>6, <1>8, WrittenOne
  <1>11. raised' = s /\ s \in 0 .. raised'
    BY <1>1, <1>8, CalmFacts DEF targetVars
  <1>12. Settled' /\ late' = NoneLate
    BY <1>1, <1>4 DEF Settled, targetVars
  <1>13. ASSUME k.mode = "Normal" PROVE (eof' = (eof \/ closed)) /\ Asked(m)'
    <2>1. stdout' = <<>> /\ buf' = <<>> /\ eof' = (eof \/ closed)
      BY <1>6, <1>8, <1>13 DEF purge_pending, take_text
    <2>2. Output' = <<>>
      BY <2>1 DEF Output
    <2>3. k.verb \notin Resuming \cup {"quit"}
      BY <1>7, <1>8, <1>13 DEF GoodCall, Waited, Resuming
    <2> QED BY <1>10, <1>12, <2>1, <2>2, <2>3 DEF Asked, Pending
  <1>14. ASSUME k.mode = "Blocking" PROVE eof' = eof /\ Waiting(m, s)'
    <2>1. stdout' = stdout /\ buf' = buf /\ eof' = eof
      BY <1>6, <1>8, <1>14 DEF no_purge, readerVars
    <2>2. Bares(Output) /\ Output' = Output
      BY <1>4, <2>1, OutputFacts, CalmFacts DEF Output
    <2>3. PICK q : q = Output
      OBVIOUS
    <2>4. Bares(q) /\ Output' = q
      BY <2>2, <2>3
    <2>5. k.verb \in Resuming \ {"resume"}
      BY <1>7, <1>8, <1>14 DEF GoodCall, Waited, Resuming
    <2>6. k.verb = "run" => plan'.start = "launch"
      BY <1>1, <1>7, <1>8 DEF GoodCall, targetVars
    <2>7. Posed(m, s)'
      BY <1>10, <1>11, <1>12, <2>4, <2>5, <2>6 DEF Posed
    <2> QED BY <2>1, <2>7 DEF Waiting
  <1>15. k.mode \in {"Normal", "Blocking"}
    BY <1>7, <1>8 DEF GoodCall
  <1>16. Common'
    <2>1. k.mode = "Normal" => (eof' => eof \/ closed)
      BY <1>13, Zenon
    <2>2. k.mode = "Blocking" => (eof' => eof \/ closed)
      BY <1>14, Zenon
    <2>3. eof' => eof \/ closed
      BY <1>15, <2>1, <2>2
    <2> QED BY <1>1, <2>3, CommonKept
  <1>17. Reads(c)'
    BY <1>9, <1>10, <1>11, <1>13, <1>14 DEF Reads
  <1>18. Owns(c)'
    <2>1. "read" \in Inside /\ "read" \notin Asking /\ "read" \notin Listens /\ "read" # "drain"
      BY DEF Inside, Asking, Listens
    <2> QED BY <1>9, <1>17, <2>1 DEF Owns
  <1>19. Waits'
    <2>1. \A d \in Clients : d # c => ex'[d] = ex[d]
      BY <1>6, <1>7
    <2> QED BY <1>1, <1>2, <2>1, WaitsKept
  <1> QED BY <1>1, <1>2, <1>6, <1>16, <1>18, <1>19 DEF Stand, Ready

\* A command is read on.
LEMMA ReadOnKept ==
    ASSUME TypeInv, Calm, Common, Waits, Stand, NEW c \in Clients,
           ReadOn(c) \/ QueryReadsOn(c), cl' = cl
    PROVE  Common' /\ Waits' /\ Stand'
  <1>1. PICK mode : ReadContinues(mode)
    BY DEF ReadOn, QueryReadsOn
  <1>2. UNCHANGED targetVars /\ UNCHANGED sessionVars
    BY DEF ReadOn, QueryReadsOn
  <1>3. /\ opening' = opening /\ inner' = inner /\ state' = state /\ ex' = ex
        /\ written' = written /\ heard' = heard /\ misread' = misread
    BY <1>2 DEF sessionVars
  <1>4. stdin' = stdin /\ closed' = closed /\ (eof' => eof \/ closed) /\ Output' = Output
    BY <1>1, ReadOnFacts, ReadingKeeps DEF TypeInv, ProcessTypes
  <1>5. Common'
    BY <1>2, <1>3, <1>4, CommonKept
  <1>6. cl[c].at # "idle"
    BY ExecuteStages DEF Execute, Enrich
  <1>7. Waits'
    BY <1>3, <1>6, WaitsKept
  <1>8. \/ ex[c].stage = "read"
        \/ ex[c].stage \in Listens
    BY QueryStages DEF ReadOn, QueryReadsOn
  <1>9. /\ ex[c].stage \in Inside /\ ex[c].stage # "drain" /\ ex[c].stage \notin Asking
    BY <1>8 DEF Inside, Asking, Listens
  <1>10. Ready /\ inner = c /\ Owns(c)
    BY <1>9, OwnerOwns
  <1>11. raised' = raised
    BY <1>2 DEF targetVars
  <1>12. Reads(c) => Reads(c)'
    <2>1. ASSUME NEW n, NEW s PROVE (Asked(n) => Asked(n)') /\ (Waiting(n, s) => Waiting(n, s)')
      BY <1>2, <1>3, <1>4, AskedSame, WaitingSame
    <2> QED BY <1>3, <1>11, <2>1 DEF Reads
  <1>13. Hears => Hears'
    <2>1. ASSUME NEW n PROVE Asked(n) => Asked(n)'
      BY <1>2, <1>3, <1>4, AskedSame
    <2> QED BY <1>3, <2>1 DEF Hears
  <1>14. Owns(c)'
    BY <1>3, <1>9, <1>10, <1>12, <1>13 DEF Owns
  <1> QED BY <1>3, <1>5, <1>7, <1>10, <1>14 DEF Stand, Ready

\* What is not a stop is not a partial one.
LEMMA NotPartial ==
    ASSUME NEW o, NEW hint, o.event = NoStop
    PROVE  ~is_partial_stopped(Result(o, hint))
  <1>1. \/ Result(o, hint) = classify_output(o.output, hint)
        \/ Result(o, hint) = Response("Timeout", o.output)
        \/ Result(o, hint) = Response("VmExited", o.output)
    BY DEF Result
  <1>2. IsParsed(classify_output(o.output, hint))
    BY ClassifyKinds
  <1>3. PICK k, items : Result(o, hint) = Response(k, items) /\ k # "Stopped"
    <2>1. \A k \in ParsedKinds : k # "Stopped"
      BY DEF ParsedKinds
    <2> QED BY <1>1, <1>2, <2>1 DEF IsParsed
  <1>4. Result(o, hint).kind # "Stopped"
    <2>1. Response(k, items).kind = k
      BY ResponseFields
    <2> QED BY <1>3, <2>1
  <1> QED BY <1>4 DEF is_partial_stopped

LEMMA StateFacts ==
    ASSUME NEW o
    PROVE  /\ o.event # NoStop /\ o.kind = "Prompt" => StateAfter(o) = "Suspended"
           /\ o.event = NoStop => /\ o.kind = "Prompt"  => StateAfter(o) = state
                                  /\ o.kind = "VmExit"  => StateAfter(o) = "Exited"
                                  /\ o.kind = "Timeout" => StateAfter(o) = "Running"
                                  /\ o.kind = "Eof"     => StateAfter(o) = "Dead"
  BY DEF StateAfter

LEMMA MapAnswers ==
    ASSUME TypeInv, NEW c \in Clients, NEW o, o.event = NoStop, map_outcome(c, o),
           o.kind = "Prompt" => \A i \in DOMAIN o.output :
                                   o.output[i].is = "bare" \/ o.output[i].cmd = ex[c].call.n
    PROVE  /\ state' = StateAfter(o) /\ heard' = heard /\ misread' = misread /\ inner' = NoOne
           /\ \A d \in Clients : d # c => ex'[d] = ex[d]
  <1>1. ~is_partial_stopped(Result(o, ex[c].call.hint))
    BY NotPartial
  <1>2. /\ state' = StateAfter(o) /\ heard' = heard
        /\ Release(c, Result(o, ex[c].call.hint))
        /\ misread' = IF o.kind = "Prompt" /\ ~Fits(o, ex[c].call)
                      THEN misread \cup {ex[c].call.n} ELSE misread
    BY <1>1 DEF map_outcome
  <1>3. o.kind = "Prompt" => Fits(o, ex[c].call)
    BY DEF Fits
  <1>4. inner' = NoOne /\ \A d \in Clients : d # c => ex'[d] = ex[d]
    BY <1>2 DEF Release, TypeInv, ClientTypes
  <1> QED BY <1>2, <1>3, <1>4

LEMMA FreedBy ==
    ASSUME Settled', late' = NoneLate, stdin' = <<>>, buf' = <<>>, stdout' = <<>>
    PROVE  Free' /\ AtAsk'
  <1>1. NoneLate.when # "soon" /\ Bares(<<>>)
    BY DEF NoneLate, Bares
  <1>2. Bares(stdout)'
    BY <1>1
  <1> QED BY <1>1, <1>2 DEF Free, AtAsk, Bares

\* A read ends a command, or the waiting for its stop.
LEMMA ReadDoneKept ==
    ASSUME TypeInv, Calm, Common, Waits, Stand, NEW c \in Clients, ReadDone(c), cl' = cl
    PROVE  Common' /\ Waits' /\ Stand'
  <1>1. /\ ex[c].stage = "read" /\ UNCHANGED targetVars /\ opening' = opening /\ written' = written
    BY DEF ReadDone
  <1>2. Ready /\ cl[c].at # "idle"
    BY ExecuteStages DEF Execute
  <1>3. Reads(c) /\ ex[c].call.mode \in {"Normal", "Blocking"} /\ DOMAIN ex = Clients
        /\ inner = c /\ ExOK(ex[c])
    <2>1. ex[c].stage \in Inside
      BY <1>1 DEF Inside
    <2>2. Owns(c) /\ inner = c
      BY <2>1, OwnerOwns
    <2>3. GoodCall(ex[c].call) /\ DOMAIN ex = Clients /\ ExOK(ex[c])
      BY <1>1 DEF TypeInv, ClientTypes, ExOK
    <2> QED BY <1>1, <2>2, <2>3 DEF Owns, GoodCall
  <1>4. PICK o : /\ ReadReturns(ex[c].call.mode, o)
                 /\ \/ /\ o.kind = "Fatal"
                       /\ state' = "Dead"
                       /\ Release(c, Err("fatal"))
                       /\ UNCHANGED <<last_event, heard, misread>>
                    \/ /\ o.event # NoStop /\ ex[c].call.mode = "Blocking"
                       /\ ex' = [ex EXCEPT ![c].stage = "drain", ![c].out = o]
                       /\ UNCHANGED <<inner, state, last_event, heard, misread>>
                    \/ /\ o.kind # "Fatal"
                       /\ o.event = NoStop \/ ex[c].call.mode = "Normal"
                       /\ map_outcome(c, o)
    BY <1>1 DEF ReadDone
  <1>5. stdin' = stdin /\ stdout' = stdout /\ closed' = closed /\ eof' = eof /\ buf' = <<>>
    BY <1>4, ReadEnds
  <1>6. \A d \in Clients : d # c => ex'[d] = ex[d]
    <2>1. CASE Release(c, Err("fatal")) \/ ex' = [ex EXCEPT ![c].stage = "drain", ![c].out = o]
      BY <1>3, <2>1 DEF Release
    <2>2. CASE map_outcome(c, o)
      BY <1>3, <2>2, Zenon DEF map_outcome, Release
    <2> QED BY <1>4, <2>1, <2>2
  <1>7. Waits'
    BY <1>1, <1>2, <1>6, WaitsKept
  <1>8. PICK n \in 0 .. written, s \in 0 .. raised :
           /\ n = ex[c].call.n /\ s = ex[c].call.since
           /\ ex[c].call.mode = "Normal"   => Asked(n)
           /\ ex[c].call.mode = "Blocking" => Waiting(n, s)
    BY <1>3 DEF Reads
  <1>9. s \in Nat
    BY <1>8, CalmFacts
  <1>10. ASSUME heard' = heard, misread' = misread PROVE Common'
    BY <1>1, <1>5, <1>10, CommonKept
  \* An answer.
  <1>11. ASSUME /\ o.kind = "Prompt" /\ o.event = NoStop
                /\ \A i \in DOMAIN o.output : o.output[i].is = "bare" \/ o.output[i].cmd = n
                /\ Settled /\ late = NoneLate /\ stdin = <<>> /\ stdout = <<>>
         PROVE  Common' /\ Stand'
    <2>1. map_outcome(c, o)
      BY <1>4, <1>11
    <2>2. state' = StateAfter(o) /\ heard' = heard /\ misread' = misread /\ inner' = NoOne
      BY <1>8, <1>11, <2>1, MapAnswers
    <2>3. state' = state
      BY <1>11, <2>2, StateFacts
    <2>4. Settled'
      BY <1>1, <1>11, <2>2, <2>3 DEF Settled, targetVars
    <2>5. late' = NoneLate /\ stdin' = <<>> /\ stdout' = <<>>
      BY <1>1, <1>5, <1>11 DEF targetVars
    <2>6. Free'
      BY <1>5, <2>4, <2>5, FreedBy
    <2> QED BY <1>1, <1>2, <1>10, <2>2, <2>6 DEF Stand, Ready
  <1>12. CASE ex[c].call.mode = "Normal"
    <2>1. Asked(n) /\ ReadReturns("Normal", o)
      BY <1>4, <1>8, <1>12
    <2>2. /\ o.kind = "Prompt" /\ o.event = NoStop
          /\ \A i \in DOMAIN o.output : o.output[i].cmd = n
          /\ stdin = <<>> /\ stdout = <<>>
      BY <2>1, AskedReturns
    <2>3. Settled /\ late = NoneLate
      BY <2>1 DEF Asked
    <2> QED BY <1>7, <1>11, <2>2, <2>3
  <1>13. CASE ex[c].call.mode = "Blocking"
    <2>1. GotAnswer(n, o) \/ Draining(s, o) \/ GotEnd(s, o) \/ GotNothing(o)
      BY <1>4, <1>8, <1>9, <1>13, WaitingReturns
    <2>2. CASE GotAnswer(n, o)
      BY <1>7, <1>11, <2>2 DEF GotAnswer
    <2>3. CASE Draining(s, o)
      <3>1. o.kind = "Prompt" /\ o.event # NoStop
        BY <2>3 DEF Draining
      <3>2. /\ ex' = [ex EXCEPT ![c].stage = "drain", ![c].out = o]
            /\ UNCHANGED <<inner, state, last_event, heard, misread>>
        BY <1>4, <1>13, <3>1
      <3>3. /\ ex'[c].stage = "drain" /\ ex'[c].out = o /\ ex'[c].call = ex[c].call
        BY <1>3, <3>2 DEF ExOK
      <3>4. Draining(s, o)'
        BY <1>1, <1>5, <2>3, <3>2 DEF Draining, targetVars
      <3>5. raised' = raised
        BY <1>1 DEF targetVars
      <3>6. Drains(c)'
        BY <1>8, <1>13, <3>3, <3>4, <3>5 DEF Drains
      <3>7. "drain" \in Inside /\ "drain" \notin Asking /\ "drain" \notin Listens
        BY DEF Inside, Asking, Listens
      <3>8. Owns(c)'
        BY <3>3, <3>6, <3>7 DEF Owns
      <3> QED BY <1>1, <1>2, <1>3, <1>7, <1>10, <3>2, <3>8 DEF Stand, Ready
    <2>4. CASE GotEnd(s, o)
      <3>1. /\ o.kind \in {"Fatal", "VmExit", "Eof"} /\ o.event = NoStop
            /\ vm = "gone" /\ raised = s /\ Len(heard) = s
        BY <2>4 DEF GotEnd, Gone
      <3>2. /\ state' \in {"Exited", "Dead"} /\ heard' = heard /\ misread' = misread
            /\ inner' = NoOne
        <4>1. CASE o.kind = "Fatal"
          BY <1>4, <3>1, <4>1 DEF Release
        <4>2. CASE o.kind # "Fatal"
          <5>1. map_outcome(c, o) /\ o.kind # "Prompt"
            BY <1>4, <3>1, <4>2
          <5>2. /\ state' = StateAfter(o) /\ heard' = heard /\ misread' = misread
                /\ inner' = NoOne
            BY <3>1, <5>1, MapAnswers
          <5> QED BY <3>1, <4>2, <5>2, StateFacts
        <4> QED BY <4>1, <4>2
      <3>3. Over'
        BY <1>1, <3>1, <3>2 DEF Over, targetVars
      <3> QED BY <1>1, <1>2, <1>7, <1>10, <3>2, <3>3 DEF Stand, Ready, Free
    <2>5. CASE GotNothing(o)
      <3>1. /\ o.kind = "Timeout" /\ o.event = NoStop
            /\ vm = "unstarted" \/ (vm = "running" /\ raised = Len(plan.hits) /\ plan.end = "loop")
            /\ Len(heard) = raised /\ late = NoneLate /\ stdin = <<>> /\ stdout = <<>>
        BY <2>5 DEF GotNothing
      <3>2. map_outcome(c, o)
        BY <1>4, <3>1
      <3>3. /\ state' = StateAfter(o) /\ heard' = heard /\ misread' = misread
            /\ inner' = NoOne
        BY <3>1, <3>2, MapAnswers
      <3>4. state' = "Running"
        BY <3>1, <3>3, StateFacts
      <3>5. Settled'
        BY <1>1, <3>1, <3>3, <3>4 DEF Settled, targetVars
      <3>6. late' = NoneLate /\ stdin' = <<>> /\ stdout' = <<>>
        BY <1>1, <1>5, <3>1 DEF targetVars
      <3>7. Free'
        BY <1>5, <3>5, <3>6, FreedBy
      <3> QED BY <1>1, <1>2, <1>7, <1>10, <3>3, <3>7 DEF Stand, Ready
    <2> QED BY <2>1, <2>2, <2>3, <2>4, <2>5
  <1> QED BY <1>3, <1>12, <1>13

\* What follows a stop is read away; then the stop is told.
LEMMA DrainKept ==
    ASSUME TypeInv, Calm, Common, Waits, Stand, NEW c \in Clients, Drain(c), cl' = cl
    PROVE  Common' /\ Waits' /\ Stand'
  <1>0. PICK o : o = ex[c].out
    OBVIOUS
  <1>1. /\ ex[c].stage = "drain" /\ UNCHANGED targetVars /\ opening' = opening /\ written' = written
    BY DEF Drain
  <1>2. Ready /\ cl[c].at # "idle"
    BY ExecuteStages DEF Execute
  <1>3. Drains(c) /\ DOMAIN ex = Clients /\ inner = c /\ ExOK(ex[c])
    <2>1. ex[c].stage \in Inside
      BY <1>1 DEF Inside
    <2>2. Owns(c) /\ inner = c
      BY <2>1, OwnerOwns
    <2>3. DOMAIN ex = Clients /\ ExOK(ex[c])
      BY <1>1 DEF TypeInv, ClientTypes
    <2> QED BY <1>1, <2>2, <2>3 DEF Owns
  <1>4. PICK s \in 0 .. raised : /\ s = ex[c].call.since /\ o = ex[c].out
                                 /\ ex[c].call.mode = "Blocking" /\ Draining(s, o)
    BY <1>0, <1>3 DEF Drains
  <1>5. raised' = raised /\ vm' = vm /\ late' = late
    BY <1>1 DEF targetVars
  <1>6. /\ vm = "stopped" /\ raised = s + 1 /\ Len(heard) = s /\ stdin = <<>>
        /\ o.kind = "Prompt" /\ o.event # NoStop /\ o.event.hit = raised
        /\ is_partial_stopped(event_to_result(o.event)) => late = NoneLate
    BY <1>4 DEF Draining
  <1>7. CASE DrainTakes /\ UNCHANGED <<inner, state, last_event, ex, heard, misread>>
    <2>1. stdin' = stdin /\ closed' = closed /\ eof' = eof
      BY <1>7 DEF DrainTakes
    <2>2. Common'
      BY <1>1, <1>7, <2>1, CommonKept
    <2>3. Waits'
      BY <1>1, <1>2, <1>7, WaitsKept
    <2>4. Draining(s, o)'
      BY <1>5, <1>6, <1>7, <2>1 DEF Draining
    <2>5. Drains(c)'
      BY <1>4, <1>5, <1>7, <2>4 DEF Drains
    <2>6. "drain" \in Inside /\ "drain" \notin Asking /\ "drain" \notin Listens
      BY DEF Inside, Asking, Listens
    <2>7. Owns(c)'
      BY <1>1, <1>7, <2>5, <2>6 DEF Owns
    <2> QED BY <1>1, <1>2, <1>3, <1>7, <2>2, <2>3, <2>7 DEF Stand, Ready
  <1>8. CASE DrainEnds /\ map_outcome(c, o)
    <2> DEFINE r == Result(o, ex[c].call.hint)
    <2>1. /\ stdin' = stdin /\ closed' = closed /\ eof' = eof /\ buf' = <<>> /\ stdout' = <<>>
          /\ late.when # "soon"
      BY <1>8, CalmFacts DEF DrainEnds, InTime, take_text, pipeVars
    <2>2. /\ state' = StateAfter(o) /\ heard' = Append(heard, raised)
          /\ misread' = IF o.kind = "Prompt" /\ ~Fits(o, ex[c].call)
                        THEN misread \cup {ex[c].call.n} ELSE misread
          /\ \/ /\ is_partial_stopped(r) /\ inner' = inner
                /\ ex' = [ex EXCEPT ![c].stage = "ask threads", ![c].ret = r]
             \/ Release(c, r)
      BY <1>6, <1>8 DEF map_outcome
    <2>3. state' = "Suspended"
      BY <1>6, <2>2, StateFacts
    <2>4. raised \in Nat /\ s \in Nat /\ s < raised
      BY <1>6, CalmFacts
    <2>5. misread' = misread
      <3>1. Fits(o, ex[c].call)
        BY <1>4, <1>6, <2>4 DEF Fits
      <3> QED BY <2>2, <3>1
    <2>6. /\ heard' \in Seq(Nat) /\ Len(heard') = raised
          /\ \A i \in 1 .. Len(heard') : heard'[i] = i
      <3>1. PICK h \in Seq(Nat), k \in Nat : /\ h = heard /\ k = raised /\ Len(h) + 1 = k
                                             /\ \A i \in 1 .. Len(h) : h[i] = i
        BY <1>6, <2>4 DEF Common
      <3>2. /\ Append(h, k) \in Seq(Nat) /\ Len(Append(h, k)) = Len(h) + 1
            /\ \A i \in 1 .. Len(h) : Append(h, k)[i] = h[i]
            /\ Append(h, k)[Len(h) + 1] = k /\ Len(h) \in Nat
        BY <3>1, AppendProperties, LenProperties
      <3>3. \A i \in 1 .. Len(Append(h, k)) : Append(h, k)[i] = i
        BY <3>1, <3>2
      <3> QED BY <2>2, <3>1, <3>2, <3>3
    <2>7. Common'
      BY <1>1, <2>1, <2>5, <2>6 DEF Common, LateShape, targetVars
    <2>8. Settled'
      BY <1>5, <1>6, <2>3, <2>6 DEF Settled
    <2> HIDE DEF r
    <2>9. \A d \in Clients : d # c => ex'[d] = ex[d]
      BY <1>3, <2>2 DEF Release
    <2>10. Waits'
      BY <1>1, <1>2, <2>9, WaitsKept
    <2>11. CASE /\ is_partial_stopped(r) /\ inner' = inner
                /\ ex' = [ex EXCEPT ![c].stage = "ask threads", ![c].ret = r]
      <3>1. r = event_to_result(o.event)
        BY <1>6 DEF Result, r
      <3>2. late' = NoneLate
        BY <1>5, <1>6, <2>11, <3>1
      <3>3. AtAsk'
        BY <1>6, <2>1, <2>8, <3>2, FreedBy
      <3>4. ex'[c].stage = "ask threads"
        BY <1>3, <2>11 DEF ExOK
      <3>5. /\ "ask threads" \in Inside /\ "ask threads" \notin Listens
            /\ "ask threads" \notin {"read", "drain"}
        BY DEF Inside, Asking, Listens
      <3>6. Owns(c)'
        BY <3>3, <3>4, <3>5 DEF Owns
      <3> QED BY <1>1, <1>2, <1>3, <2>7, <2>10, <2>11, <3>6 DEF Stand, Ready
    <2>12. CASE Release(c, r)
      <3>1. inner' = NoOne
        BY <2>12 DEF Release
      <3>2. Bares(stdout)'
        BY <2>1 DEF Bares
      <3>3. Free'
        BY <1>5, <1>6, <2>1, <2>8, <3>2 DEF Free
      <3> QED BY <1>1, <1>2, <2>7, <2>10, <3>1, <3>3 DEF Stand, Ready
    <2> QED BY <2>2, <2>11, <2>12
  <1> QED BY <1>4, <1>7, <1>8 DEF Drain

\* A query is written while the mutex is held.
LEMMA RunQueryKept ==
    ASSUME TypeInv, Calm, Common, Waits, Stand, NEW c \in Clients, NEW q \in Queries,
           RunQuery(c, q), cl' = cl
    PROVE  Common' /\ Waits' /\ Stand'
  <1>1. /\ ex[c].stage = Ask[q] /\ UNCHANGED targetVars /\ opening' = opening /\ state' = state
        /\ heard' = heard /\ misread' = misread /\ closed' = closed /\ stdout' = stdout
        /\ buf' = buf /\ eof' = eof
    BY DEF RunQuery, readerVars
  <1>2. Ready /\ cl[c].at # "idle"
    BY ExecuteStages DEF Execute, Enrich
  <1>3. Ask[q] \in Asking /\ Listen[q] \in Listens /\ q \in {"threads", "thread", "where"}
    BY QueryStages DEF Queries
  <1>4. ex[c].stage \in Inside
    BY <1>1, <1>3, QueryInside
  <1>5. inner = c /\ AtAsk /\ DOMAIN ex = Clients /\ ExOK(ex[c])
    <2>1. Owns(c) /\ inner = c
      BY <1>4, OwnerOwns
    <2> QED BY <1>1, <1>3, <2>1 DEF Owns, TypeInv, ClientTypes
  <1>6. Settled /\ late = NoneLate /\ stdin = <<>> /\ buf = <<>> /\ stdout = <<>>
    BY <1>5 DEF AtAsk
  <1>7. ~closed
    BY <1>6 DEF Settled, Common
  <1>8. /\ Write(q, "", IF q = "thread" THEN ex[c].ret.id ELSE 0)
        /\ ex' = [ex EXCEPT ![c].stage = Listen[q]] /\ inner' = inner
    BY <1>7 DEF RunQuery
  <1>9. PICK m : m = written + 1
    OBVIOUS
  <1>10. m \in 0 .. written' /\ Pending(m)' /\ stdin'[1].verb = q
    BY <1>6, <1>8, <1>9, WrittenOne
  <1>11. Output' = <<>>
    BY <1>1, <1>6 DEF Output
  <1>12. Settled' /\ late' = NoneLate
    BY <1>1, <1>6 DEF Settled, targetVars
  <1>13. q \notin Resuming \cup {"quit"}
    BY <1>3 DEF Resuming
  <1>14. Asked(m)'
    BY <1>10, <1>11, <1>12, <1>13 DEF Asked
  <1>15. Hears'
    BY <1>10, <1>14 DEF Hears
  <1>16. ex'[c].stage = Listen[q] /\ \A d \in Clients : d # c => ex'[d] = ex[d]
    BY <1>5, <1>8 DEF ExOK
  <1>17. /\ Listen[q] \in Inside /\ Listen[q] \notin {"read", "drain"} /\ Listen[q] \notin Asking
    BY <1>3 DEF Inside, Asking, Listens
  <1>18. Owns(c)'
    BY <1>15, <1>16, <1>17 DEF Owns
  <1>19. Waits'
    BY <1>1, <1>2, <1>16, WaitsKept
  <1>20. Common'
    BY <1>1, CommonKept
  <1> QED BY <1>1, <1>2, <1>5, <1>8, <1>18, <1>19, <1>20 DEF Stand, Ready

\* A query is answered: the next is asked, or the stop is told as it is.
LEMMA QueryAnsweredKept ==
    ASSUME TypeInv, Calm, Common, Waits, Stand, NEW c \in Clients, NEW q \in Queries,
           QueryAnswered(c, q), cl' = cl
    PROVE  Common' /\ Waits' /\ Stand'
  <1>1. /\ ex[c].stage = Listen[q] /\ UNCHANGED targetVars /\ opening' = opening /\ state' = state
        /\ heard' = heard /\ misread' = misread
    BY DEF QueryAnswered
  <1>2. Ready /\ cl[c].at # "idle"
    BY ExecuteStages DEF Execute, Enrich
  <1>3. Listen[q] \in Listens
    BY QueryStages
  <1>4. ex[c].stage \in Inside
    BY <1>1, <1>3, QueryInside
  <1>5. inner = c /\ Hears /\ DOMAIN ex = Clients /\ ExOK(ex[c])
    <2>1. Owns(c) /\ inner = c
      BY <1>4, OwnerOwns
    <2> QED BY <1>1, <1>3, <2>1 DEF Owns, TypeInv, ClientTypes
  <1>6. PICK n \in 0 .. written : Asked(n)
    BY <1>5 DEF Hears
  <1>7. PICK o : /\ ReadReturns("Normal", o)
                 /\ \/ \E r : Release(c, r)
                    \/ \E p \in {"thread", "where"} : \E r : AskNext(c, p, r)
    <2>1. PICK o : /\ ReadReturns("Normal", o)
                   /\ \/ \E note : Warn(c, note)
                      \/ \E r : AskNext(c, "thread", r)
                      \/ \E r : AskNext(c, "where", r)
                      \/ \E r : Release(c, r)
      BY Zenon DEF QueryAnswered
    <2> QED BY <2>1, Zenon DEF Warn
  <1>8. stdin' = stdin /\ stdout' = stdout /\ closed' = closed /\ eof' = eof /\ buf' = <<>>
    BY <1>7, ReadEnds
  <1>9. stdin = <<>> /\ stdout = <<>> /\ Settled /\ late = NoneLate
    BY <1>6, <1>7, AskedReturns DEF Asked
  <1>10. Settled' /\ late' = NoneLate
    BY <1>1, <1>9 DEF Settled, targetVars
  <1>11. Free' /\ AtAsk'
    BY <1>8, <1>9, <1>10, FreedBy
  <1>12. Common'
    BY <1>1, <1>8, CommonKept
  <1>13. CASE \E r : Release(c, r)
    <2>1. inner' = NoOne /\ \A d \in Clients : d # c => ex'[d] = ex[d]
      BY <1>5, <1>13 DEF Release
    <2>2. Waits'
      BY <1>1, <1>2, <2>1, WaitsKept
    <2> QED BY <1>1, <1>2, <1>11, <1>12, <2>1, <2>2 DEF Stand, Ready
  <1>14. ASSUME NEW p \in {"thread", "where"}, NEW r, AskNext(c, p, r)
         PROVE  Waits' /\ Stand'
    <2>1. ex' = [ex EXCEPT ![c].stage = Ask[p], ![c].ret = r] /\ inner' = inner
      BY <1>14 DEF AskNext
    <2>2. Ask[p] \in Asking
      BY <1>14, QueryStages DEF Queries
    <2>3. ex'[c].stage = Ask[p] /\ \A d \in Clients : d # c => ex'[d] = ex[d]
      BY <1>5, <2>1 DEF ExOK
    <2>4. Waits'
      BY <1>1, <1>2, <2>3, WaitsKept
    <2>5. Ask[p] \in Inside /\ Ask[p] \notin {"read", "drain"} /\ Ask[p] \notin Listens
      BY <2>2 DEF Inside, Asking, Listens
    <2>6. Owns(c)'
      BY <1>11, <2>3, <2>5 DEF Owns
    <2> QED BY <1>1, <1>2, <1>5, <2>1, <2>4, <2>6 DEF Stand, Ready
  <1> QED BY <1>7, <1>12, <1>13, <1>14

\* The session is killed, after jdb had the time to go.
LEMMA KillAsksKept ==
    ASSUME TypeInv, Calm, Common, Waits, Stand, NEW c \in Clients, KillAsks(c), cl' = cl
    PROVE  Common' /\ Waits' /\ Stand'
  <1>1. /\ UNCHANGED targetVars /\ opening' = opening /\ inner' = c
        /\ heard' = heard /\ misread' = misread /\ closed' = closed /\ eof' = eof
        /\ ex' = [ex EXCEPT ![c].stage = "killing"]
    BY DEF KillAsks, readerVars
  <1>2. Ready /\ cl[c].at # "idle"
    BY ExecuteStages DEF Execute
  <1>3. DOMAIN ex = Clients /\ ExOK(ex[c])
    BY DEF TypeInv, ClientTypes
  <1>4. ex'[c].stage = "killing" /\ \A d \in Clients : d # c => ex'[d] = ex[d]
    BY <1>1, <1>3 DEF ExOK
  <1>5. /\ "killing" \in Inside /\ "killing" \notin {"read", "drain"}
        /\ "killing" \notin Asking /\ "killing" \notin Listens
    BY DEF Inside, Asking, Listens
  <1>6. Owns(c)'
    BY <1>4, <1>5 DEF Owns
  <1>7. Waits'
    BY <1>1, <1>2, <1>4, WaitsKept
  <1>8. Common'
    BY <1>1, CommonKept
  <1> QED BY <1>1, <1>2, <1>6, <1>7, <1>8 DEF Stand, Ready

LEMMA KillEndsKept ==
    ASSUME TypeInv, Calm, Common, Waits, Stand, NEW c \in Clients, KillEnds(c), cl' = cl
    PROVE  Common' /\ Waits' /\ Stand'
  <1>1. /\ closed' = TRUE /\ vm' = "gone" /\ held' = {} /\ cur' = 0 /\ plan' = plan
        /\ raised' = raised /\ late' = late /\ eof' = eof /\ state' = "Dead"
        /\ opening' = opening /\ heard' = heard /\ misread' = misread /\ inner' = NoOne
        /\ \A d \in Clients : d # c => ex'[d] = ex[d]
    BY DEF KillEnds, readerVars, Release, TypeInv, ClientTypes
  <1>2. Ready /\ cl[c].at # "idle"
    BY ExecuteStages DEF Execute
  <1>3. Waits'
    BY <1>1, <1>2, WaitsKept
  <1>4. Common'
    BY <1>1 DEF Common, LateShape
  <1>5. Free'
    BY <1>1 DEF Free, Over
  <1> QED BY <1>1, <1>2, <1>3, <1>4, <1>5 DEF Stand, Ready

LEMMA ExecuteKept ==
    ASSUME TypeInv, Calm, Common, Waits, Stand, NEW c \in Clients, Execute(c), cl' = cl
    PROVE  Common' /\ Waits' /\ Stand'
  <1>1. CASE RejectTerminated(c) \/ StatusRead(c)
    BY <1>1, QuickKept
  <1>2. CASE Send(c)
    BY <1>2, SendKept
  <1>3. CASE ReadOn(c)
    BY <1>3, ReadOnKept
  <1>4. CASE ReadDone(c)
    BY <1>4, ReadDoneKept
  <1>5. CASE Drain(c)
    BY <1>5, DrainKept
  <1>6. CASE Enrich(c)
    BY <1>6, ReadOnKept, RunQueryKept, QueryAnsweredKept DEF Enrich
  <1>7. CASE KillAsks(c)
    BY <1>7, KillAsksKept
  <1>8. CASE KillEnds(c)
    BY <1>8, KillEndsKept
  <1> QED BY <1>1, <1>2, <1>3, <1>4, <1>5, <1>6, <1>7, <1>8 DEF Execute

\* Between two calls a client only moves on.
LEMMA HandlerStages ==
    ASSUME NEW c \in Clients, HandlerStep(c)
    PROVE  (Ready /\ cl[c].at = "idle") \/ ex[c].stage = "done"
  BY DEF HandlerStep, StartRequest, Busy, Settle, Judge, AutoContinued, MainAnswered, Retried,
         GotFrame, GotSource, GotThreadId, GotSize, GotElement, Back

LEMMA HandlerKept ==
    ASSUME TypeInv, Calm, Common, Waits, Stand, NEW c \in Clients, HandlerStep(c)
    PROVE  Common' /\ Waits' /\ Stand'
  <1>1. /\ UNCHANGED processVars /\ opening' = opening /\ inner' = inner /\ state' = state
        /\ written' = written /\ heard' = heard /\ misread' = misread
    BY DEF HandlerStep
  <1>2. Ready /\ ex[c].stage \notin Inside
    BY HandlerStages, DoneIsOutside DEF Waits
  <1>3. PICK e, k : /\ k.at = "idle" => e = Idle
                    /\ ex' = [ex EXCEPT ![c] = e] /\ cl' = [cl EXCEPT ![c] = k]
    BY HandlerMoves DEF Moves
  <1>4. DOMAIN ex = Clients /\ DOMAIN cl = Clients
    BY DEF TypeInv, ClientTypes
  <1>5. Idle.stage = "none"
    BY DEF Idle
  <1>6. Waits'
    <2>1. ASSUME NEW d \in Clients, cl'[d].at = "idle" PROVE ex'[d].stage = "none"
      <3>1. CASE d = c
        BY <1>3, <1>4, <1>5, <2>1, <3>1
      <3>2. CASE d # c
        BY <1>3, <1>4, <2>1, <3>2 DEF Waits
      <3> QED BY <3>1, <3>2
    <2> QED BY <1>1, <1>2, <2>1 DEF Waits, Ready
  <1>7. Common'
    BY <1>1, SameOutput, CommonKept
  <1>8. CASE inner = NoOne /\ Free
    <2>1. Free'
      BY <1>1, <1>8, FreeSame
    <2> QED BY <1>1, <1>2, <1>6, <1>7, <1>8, <2>1 DEF Stand, Ready
  <1>9. ASSUME NEW d \in Clients, inner = d, Owns(d) PROVE Stand'
    <2>1. d # c
      BY <1>2, <1>9 DEF Owns
    <2>2. ex'[d] = ex[d]
      BY <1>3, <1>4, <2>1
    <2>3. Owns(d)'
      BY <1>1, <1>9, <2>2, OwnsSame
    <2> QED BY <1>1, <1>2, <1>9, <2>3 DEF Stand, Ready
  <1> QED BY <1>2, <1>6, <1>7, <1>8, <1>9 DEF Stand

-----------------------------------------------------------------------------
(* The theorems                                                            *)

LEMMA CalmInit == Init => CalmInv
  <1>1. SUFFICES ASSUME Init, Calm PROVE Common /\ Waits /\ Stand
    BY DEF CalmInv
  <1>2. /\ plan.start \in {"launch", "attach"} /\ plan \in Plans
        /\ vm = CASE plan.start = "launch"        -> "unstarted"
                  [] plan.start = "attachRunning" -> "running"
                  [] plan.start = "attach"        -> "stopped"
                  [] OTHER                        -> "gone"
        /\ held = {} /\ cur = 0 /\ raised = 0
        /\ late = IF plan.start \in {"attach", "attachRunning"}
                  THEN [when |-> "soon", lines |-> <<Text({"VM Started"}, 0), Bare>>]
                  ELSE NoneLate
        /\ stdin = <<>> /\ stdout = Greeting
        /\ closed = (plan.start \in {"refused", "dies"})
        /\ buf = <<>> /\ patience = FALSE /\ eof = FALSE
    BY <1>1 DEF Calm, Init, SessionInit, ProcessInit
  <1>3. /\ opening = IF plan.start = "launch" THEN "launch" ELSE "handshake"
        /\ inner = NoOne /\ state = "Loaded"
        /\ ex = [c \in Clients |-> Idle] /\ cl = [c \in Clients |-> AtRest]
        /\ heard = <<>> /\ misread = {}
    BY <1>1 DEF Init, SessionInit
  <1>4. ~closed
    <2>1. plan.start \notin {"refused", "dies"}
      BY <1>2
    <2> QED BY <1>2, <2>1, Zenon
  <1>5. stdout = <<Bare>>
    BY <1>2, Zenon DEF Greeting
  <1>6. Output = <<Bare>> /\ Len(<<Bare>>) = 1 /\ <<Bare>>[1] = Bare /\ Bare.is = "bare"
    <2>1. Line("bare", 0, "", 0, {}, 0) \in Lines
      BY <1>2, PlainKinds, PlainLine
    <2>2. PICK x : x = Bare
      OBVIOUS
    <2>3. x \in Lines
      BY <2>1, <2>2 DEF Bare
    <2>4. PICK l : l = <<x>>
      OBVIOUS
    <2>5. l \in Seq(Lines) /\ Len(l) = 1 /\ l[1] = x
      BY <2>3, <2>4, SeqOfOne
    <2>6. Output = <<>> \o l
      BY <1>2, <1>5, <2>2, <2>4 DEF Output
    <2>7. <<>> \o l = l
      BY <2>5, ConcatEmptySeq
    <2> QED BY <2>2, <2>4, <2>5, <2>6, <2>7, BareIs
  <1>7. /\ (vm = "gone" <=> closed) /\ (eof => closed) /\ held = {} /\ misread = {}
        /\ heard \in Seq(Nat) /\ \A i \in 1 .. Len(heard) : heard[i] = i
    <2>1. vm # "gone"
      BY <1>2
    <2>2. (vm = "gone" <=> closed) /\ (eof => closed)
      BY <1>2, <1>4, <2>1, Zenon
    <2>3. heard \in Seq(Nat) /\ Len(heard) = 0
      <3>1. heard \in Seq(Nat)
        BY <1>3, EmptySeq
      <3> QED BY <1>3, <3>1, EmptySeq
    <2>4. \A i \in 1 .. Len(heard) : heard[i] = i
      BY <2>3
    <2> QED BY <1>2, <1>3, <2>2, <2>3, <2>4
  <1>8. Waits /\ ~Ready
    <2>1. \A c \in Clients : cl[c].at = "idle" /\ ex[c].stage = "none"
      BY <1>3 DEF Idle, AtRest
    <2>2. opening # "ready"
      BY <1>2, <1>3
    <2> QED BY <2>1, <2>2 DEF Waits, Ready
  <1>9. CASE plan.start = "launch"
    <2>1. vm = "unstarted" /\ opening = "launch" /\ late = NoneLate
      BY <1>2, <1>3, <1>9
    <2>2. Opening
      <3>1. Bares(Output)
        BY <1>6 DEF Bares
      <3> QED BY <1>2, <1>3, <2>1, <3>1 DEF Opening
    <2>3. LateShape
      BY <2>1 DEF LateShape
    <2>4. Common
      BY <1>7, <2>1, <2>3 DEF Common
    <2> QED BY <1>3, <1>8, <2>2, <2>4 DEF Stand
  <1>10. CASE plan.start = "attach"
    <2>1. vm = "stopped" /\ opening = "handshake"
      BY <1>2, <1>3, <1>10
    <2>2. late.when = "soon" /\ late.lines = <<Text({"VM Started"}, 0), Bare>>
      BY <1>2, <1>10
    <2>3. /\ Len(late.lines) = 2 /\ late.lines[1].is = "text" /\ late.lines[2].is = "bare"
      <3>1. PICK x, y : x = Text({"VM Started"}, 0) /\ y = Bare
        OBVIOUS
      <3>2. late.lines = <<x, y>> /\ Len(<<x, y>>) = 2 /\ <<x, y>>[1] = x /\ <<x, y>>[2] = y
        BY <2>2, <3>1
      <3>3. x.is = "text" /\ y.is = "bare"
        BY <3>1, BareIs
      <3> QED BY <3>2, <3>3
    <2>4. LateShape
      BY <1>2, <2>2, <2>3 DEF LateShape
    <2>5. Opening
      BY <1>2, <1>3, <1>6, <2>1, <2>2 DEF Opening
    <2>6. Common
      BY <1>10, <1>7, <2>4 DEF Common
    <2> QED BY <1>3, <1>8, <2>5, <2>6 DEF Stand
  <1> QED BY <1>2, <1>9, <1>10

LEMMA CalmNext == TypeInv /\ CalmInv /\ [Next]_vars => CalmInv'
  <1>1. SUFFICES ASSUME TypeInv, CalmInv, [Next]_vars, Calm' PROVE Common' /\ Waits' /\ Stand'
    BY DEF CalmInv
  <1>2. plan' = plan
    <2>1. TypeInv'
      BY <1>1, NextTypes
    <2>2. CASE JdbProcessStep /\ UNCHANGED handlerVars
      BY <2>2, <1>1, JdbStepTypes DEF JdbProcessStep, TypeInv
    <2>3. CASE OpenerStep
      BY <2>3 DEF OpenerStep, OpenReads, Launched, Handshake, ExtraPrompts, targetVars
    <2>4. ASSUME NEW c \in Clients, HandlerStep(c) PROVE plan' = plan
      BY <2>4 DEF HandlerStep, processVars, targetVars
    <2>5. ASSUME NEW c \in Clients, Execute(c) PROVE plan' = plan
      BY <2>5 DEF Execute, RejectTerminated, Send, ReadOn, ReadDone, Drain, Enrich, QueryReadsOn,
                  RunQuery, QueryAnswered, KillAsks, KillEnds, StatusRead, processVars, targetVars
    <2>6. CASE UNCHANGED vars
      BY <2>6 DEF vars, jdbVars, processVars, targetVars
    <2> QED BY <1>1, <2>2, <2>3, <2>4, <2>5, <2>6 DEF Next, ClientStep
  <1>3. Calm
    BY <1>1, <1>2, SameCalm
  <1>4. Common /\ Waits /\ Stand
    BY <1>1, <1>3 DEF CalmInv
  <1>5. CASE JdbProcessStep /\ UNCHANGED handlerVars
    <2>1. JdbStep /\ UNCHANGED sessionVars
      BY <1>5 DEF JdbProcessStep
    <2>2. /\ heard' = heard /\ misread' = misread /\ ex' = ex /\ cl' = cl /\ opening' = opening
      BY <1>5, <2>1 DEF sessionVars, handlerVars
    <2>3. Common'
      BY <1>1, <1>3, <1>4, <2>1, <2>2, ProcessCommon
    <2>4. Stand'
      BY <1>1, <1>3, <1>4, <2>1, ProcessStand
    <2>5. Waits'
      BY <1>4, <2>2 DEF Waits, Ready
    <2> QED BY <2>3, <2>4, <2>5
  <1>6. CASE OpenerStep /\ UNCHANGED handlerVars
    BY <1>1, <1>3, <1>4, <1>6, OpenerKept
  <1>7. ASSUME NEW c \in Clients, ClientStep(c) PROVE Common' /\ Waits' /\ Stand'
    <2>1. CASE HandlerStep(c)
      BY <1>1, <1>3, <1>4, <2>1, HandlerKept
    <2>2. CASE Execute(c) /\ UNCHANGED handlerVars
      <3>1. cl' = cl
        BY <2>2 DEF handlerVars
      <3> QED BY <1>1, <1>3, <1>4, <2>2, <3>1, ExecuteKept
    <2> QED BY <1>7, <2>1, <2>2 DEF ClientStep
  <1>8. CASE UNCHANGED vars
    <2>1. /\ UNCHANGED processVars /\ UNCHANGED sessionVars /\ cl' = cl
      BY <1>8 DEF vars, jdbVars, handlerVars
    <2>2. /\ opening' = opening /\ inner' = inner /\ state' = state /\ ex' = ex
          /\ written' = written /\ heard' = heard /\ misread' = misread
      BY <2>1 DEF sessionVars
    <2>3. Common'
      BY <1>4, <2>1, <2>2, SameOutput, CommonKept
    <2>4. Waits'
      BY <1>4, <2>1, <2>2 DEF Waits, Ready
    <2>5. Free => Free'
      BY <2>1, <2>2, FreeSame
    <2>6. ASSUME NEW d \in Clients, Owns(d) PROVE Owns(d)'
      BY <2>1, <2>2, <2>6, OwnsSame
    <2>7. Opening => Opening'
      BY <2>1, <2>2, SameOutput DEF Opening, Bares, targetVars, Output
    <2>8. Stand'
      BY <1>4, <2>2, <2>5, <2>6, <2>7 DEF Stand, Ready
    <2> QED BY <2>3, <2>4, <2>8
  <1> QED BY <1>1, <1>5, <1>6, <1>7, <1>8 DEF Next

\* Every value a session over jdb and its clients keep is one the code expects,
\* whatever the target does, whatever jdb prints late or not at all, and
\* whatever the clients ask: the hit and thread numbers are those of the target,
\* a command answered with something else was a command, the condition loop
\* stays within its cap, and only the owner of the mutex is inside execute.
THEOREM JdbTypes == Spec => []TypeOK
  <1>1. Spec => []TypeInv
    BY InitTypes, NextTypes, PTL DEF Spec
  <1> QED BY <1>1, TypeInvOK, PTL

\* In calm circumstances the session, its pipe and its target are always in one
\* of the situations Stand names (session.rs, execute_inner).
THEOREM JdbCalm == Spec => []CalmInv
  <1>1. Spec => []TypeInv
    BY InitTypes, NextTypes, PTL DEF Spec
  <1> QED BY <1>1, CalmInit, CalmNext, PTL DEF Spec

\* The answer a command gets is its own, and a stop answers the command that
\* resumed the target (Session::execute, PromptReader::try_match).
THEOREM JdbAnswersAligned == Spec => []AnswersAligned
  <1>1. CalmInv => AnswersAligned
    BY DEF CalmInv, Common, AnswersAligned
  <1> QED BY <1>1, JdbCalm, PTL

\* Between commands the state of the session is that of the target
\* (Session::map_outcome).
THEOREM JdbStateTracksTarget == Spec => []StateTracksTarget
  <1>1. CalmInv => StateTracksTarget
    BY MutexFree DEF CalmInv, StateTracksTarget, Between, Free, Over, Settled
  <1> QED BY <1>1, JdbCalm, PTL

\* Every stop is told, once, in the order in which the target ran into them
\* (Session::map_outcome, drain_stale).
THEOREM JdbToldInOrder == Spec => []ToldInOrder
  <1>1. ASSUME CalmInv, Calm, Between
        PROVE  /\ heard = [i \in 1 .. Len(heard) |-> i]
               /\ state # "Dead" => Len(heard) = raised
    <2>1. heard \in Seq(Nat) /\ \A i \in 1 .. Len(heard) : heard[i] = i
      BY <1>1 DEF CalmInv, Common
    <2>2. heard = [i \in 1 .. Len(heard) |-> heard[i]]
      BY <2>1
    <2>3. heard = [i \in 1 .. Len(heard) |-> i]
      BY <2>1, <2>2
    <2>4. Free
      BY <1>1, MutexFree DEF CalmInv, Between
    <2> QED BY <2>3, <2>4 DEF Free, Over, Settled
  <1>2. CalmInv => ToldInOrder
    BY <1>1 DEF ToldInOrder
  <1> QED BY <1>2, JdbCalm, PTL
=============================================================================
