---------------------------- MODULE JdbProperties ----------------------------
(***************************************************************************)
(* What a session over jdb promises, and under which circumstances.        *)
(***************************************************************************)
EXTENDS JdbHandler

\* The circumstances the prompt protocol is made for: every stop suspends the
\* whole target, deadlines are long enough, jdb completes a banner it began and
\* prints no bare prompt behind the thread prompt of an exception or a field
\* (read together, they end no resuming command), what it prints late is there
\* while a stop is drained or before the next command is written, and the target
\* runs only during a command that waits for it.
Calm ==
    /\ ~plan.hasty /\ ~plan.slow
    /\ plan.start \in {"launch", "attach"}
    /\ \A h \in Hits : /\ Hit(h).policy = "all" /\ Hit(h).late # "stall"
                       /\ Hit(h).late = "later" => Hit(h).kind \in {"Breakpoint", "Step"}
    /\ \A c \in Clients : \A i \in DOMAIN plan.prog[c] : plan.prog[c][i].op # "Resume"

Alone == Cardinality({c \in Clients : plan.prog[c] # <<>>}) = 1

Between == Ready /\ inner = NoOne

-----------------------------------------------------------------------------

\* Types of what the session and its clients keep.
TypeOK ==
    /\ opening \in {"launch", "handshake", "extra1", "extra2", "extra3", "ready", "failed"}
    /\ inner \in Clients \cup {NoOne}
    /\ state \in RunStates
    /\ vm \in {"unstarted", "running", "stopped", "gone"}
    /\ held \subseteq Hits /\ raised \in 0 .. Len(plan.hits) /\ cur \in 0 .. Len(plan.names)
    /\ patience \in BOOLEAN /\ eof \in BOOLEAN /\ closed \in BOOLEAN
    /\ misread \subseteq 1 .. written
    /\ \A c \in Clients :
          /\ cl[c].iter \in 0 .. MaxIterations
          /\ ex[c].stage \notin {"none", "acquire", "acquire status", "done"} => inner = c

\* One command per session is in flight and its answer ends at its prompt, so
\* that an answer belongs to the command that waits for it and a stop to the
\* command that resumed the target; what jdb prints late is drained or purged.
AnswersAligned == Calm => misread = {}

\* Between commands the state of the session is that of the target: it is told
\* suspended only while it stands still, and running only if nothing has
\* stopped it since a command gave up waiting.
StateTracksTarget ==
    Calm /\ Between =>
        /\ state = "Suspended" => vm = "stopped"
        /\ vm = "stopped" => state = "Suspended"
        /\ state \in {"Exited", "Dead"} => vm = "gone"

\* No stop is lost, none is reported twice, and they are reported in the order
\* in which the target ran into them; only a kill leaves one untold.
ToldInOrder ==
    Calm /\ Between =>
        /\ heard = [i \in 1 .. Len(heard) |-> i]
        /\ state # "Dead" => Len(heard) = raised

\* "Breakpoint only fires when true": a client alone on its session is never
\* shown a hit whose condition is false, neither by the command that resumed
\* the target nor by an inspection, unless the response says why.
ShownHits(r) ==
    (IF r.kind = "Stopped" /\ r.event = "Breakpoint" THEN {r.at} ELSE {})
    \cup (IF r.kind = "StackTrace" THEN {r.items[1].of} ELSE {})
ConditionsRespected ==
    Calm /\ Alone =>
        \A c \in Clients : \A h \in ShownHits(reply[c]) \cap Hits :
            /\ condition_for_hit(h) # 0
            /\ reply[c].notes \cap {"condition not evaluated", "cap", "auto-cont failed"} = {}
            => Hit(h).cond = "true"

\* A banner without thread and location is completed by three queries: the
\* thread and the location they find belong together.
EnrichedConsistently ==
    ~plan.hasty =>
        \A c \in Clients :
            LET r == ex[c].ret
            IN  ex[c].stage = "done" /\ r.kind = "Stopped" /\ r.id # 0 /\ r.at # 0
                => r.at \in Hits /\ Hit(r.at).thread = r.id

\* Every request is answered, whatever jdb and the target do: the deadline, the
\* end of the stream and the cap of the condition loop see to that.
RequestsReturn == \A c \in Clients : Busy(c) ~> ~Busy(c)
=============================================================================
