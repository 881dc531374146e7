------------------------------ MODULE JdbOutput ------------------------------
(***************************************************************************)
(* What jdb prints and how jdbg reads it: jdb/reader.rs decides when a     *)
(* command is answered and whether the text announces a stop;              *)
(* jdb/parser.rs turns an answer into a record.  Text is a sequence of     *)
(* lines.  A line is known by the regular expressions it satisfies:        *)
(*                                                                         *)
(*   prompt, bare     "main[1] ", "> "                                     *)
(*   head, loc        "Breakpoint hit: " / "Step completed: ", and the     *)
(*                    rest of that banner, which some JDKs never print     *)
(*   exception, watch the banners that come in one piece                   *)
(*   nothing, exit, fatal                                                  *)
(*   frame, owner, thread, group, source, assign, field                    *)
(*   text             anything else; `says` are the words the code looks   *)
(*                    for in it                                            *)
(*                                                                         *)
(* `of` is the hit a line is about, `who` the name and `id` the number of  *)
(* a thread, `cmd` the number of the command the line answers.             *)
(***************************************************************************)
EXTENDS Naturals, SequencesExt

Line(is, of, who, id, says, cmd) ==
    [is |-> is, of |-> of, who |-> who, id |-> id, says |-> says, cmd |-> cmd]

Text(words, cmd) == Line("text", 0, "", 0, words, cmd)
Bare             == Line("bare", 0, "", 0, {}, 0)

LinesThatAre(out, kinds) == SelectSeq(out, LAMBDA l : l.is \in kinds)
Places(out, kind)        == {i \in DOMAIN out : out[i].is = kind}
Has(out, kind)           == Places(out, kind) # {}
Mentions(out, word)      == \E i \in DOMAIN out : word \in out[i].says
EndsWith(text, kind)     == text # <<>> /\ Last(text).is = kind
Least(S)                 == CHOOSE i \in S : \A j \in S : i <= j

-----------------------------------------------------------------------------
(* Events and outcomes of the reader *)

\* `at` and `thread` are what the banner says; `hit` (history) is which it was.
Event(kind, at, thread, hit) ==
    [kind |-> kind, at |-> at, thread |-> thread, hit |-> hit]
NoStop == Event("none", 0, "", 0)

\* RE_BREAKPOINT_OR_STEP matches where a head is continued by its location.
FullBanners(out) ==
    {i \in 1 .. Len(out) - 1 : out[i].is = "head" /\ out[i + 1].is = "loc"}

BannerKind(head) == IF "step" \in head.says THEN "Step" ELSE "Breakpoint"

\* A breakpoint or step banner first, then an exception, which names no
\* thread and takes that of the prompt, then a field watch.
detect_event(out, prompt_thread) ==
    LET banners    == FullBanners(out)
        exceptions == Places(out, "exception")
        watches    == Places(out, "watch")
    IN  IF banners # {}
        THEN LET b == Least(banners)
             IN  Event(BannerKind(out[b]), out[b + 1].of, out[b + 1].who, out[b + 1].of)
        ELSE IF exceptions # {}
        THEN Event("Exception", 0, prompt_thread, out[Least(exceptions)].of)
        ELSE IF watches # {}
        THEN LET w == out[Least(watches)] IN Event("FieldWatch", w.of, w.who, w.of)
        ELSE NoStop

Outcome(kind, output, event) == [kind |-> kind, output |-> output, event |-> event]
NoOutcome                    == Outcome("none", <<>>, NoStop)

PartialStop(head, output) ==
    Outcome("Prompt", output,
            Event(IF BannerKind(head) = "Step" THEN "PartialStep" ELSE "PartialBreakpoint",
                  0, "", head.of))

\* Mutant: any prompt ends any command.
match_any_prompt(text, mode) ==
    IF Has(text, "fatal") THEN Outcome("Fatal", <<>>, NoStop)
    ELSE IF Has(text, "exit") THEN Outcome("VmExit", text, NoStop)
    ELSE IF EndsWith(text, "prompt") \/ EndsWith(text, "bare")
    THEN Outcome("Prompt", Front(text), detect_event(Front(text), Last(text).who))
    ELSE NoOutcome

\* try_match: a thread prompt always ends a command, a bare prompt only one
\* that does not resume the target; after a resuming command a bare prompt
\* counts if a whole banner came before it (a thread breakpoint of JDK 9+)
\* or if nothing was suspended in the first place.
try_match(text, mode) ==
    LET banners == FullBanners(text)
    IN  IF Has(text, "fatal") THEN Outcome("Fatal", <<>>, NoStop)
        ELSE IF Has(text, "exit") THEN Outcome("VmExit", text, NoStop)
        ELSE IF EndsWith(text, "prompt") \/ (EndsWith(text, "bare") /\ mode = "Normal")
        THEN Outcome("Prompt", Front(text), detect_event(Front(text), Last(text).who))
        ELSE IF EndsWith(text, "bare") /\ banners # {}
        THEN PartialStop(text[Least(banners)], Front(text))
        ELSE IF EndsWith(text, "bare") /\ Has(text, "nothing")
        THEN Outcome("Prompt", Front(text), NoStop)
        ELSE NoOutcome

tail_is_partial_banner(text) == EndsWith(text, "head")

-----------------------------------------------------------------------------
(* Responses.  `at` is the hit whose location the response carries, 0 when *)
(* it has none; `id` the number of the hit thread and `frame` the hit whose *)
(* frame is shown, 0 when they are missing.                                *)

Response(kind, items) ==
    [kind |-> kind, event |-> "none", at |-> 0, thread |-> "", id |-> 0,
     frame |-> 0, source |-> FALSE, items |-> items, notes |-> {}]
NoResponse == Response("none", <<>>)
Raw(out)   == Response("Raw", out)
Err(why)   == [Response("Err", <<>>) EXCEPT !.notes = {why}]
IsErr(r)   == r.kind = "Err"

append_note(r, note) == [r EXCEPT !.notes = @ \cup {note}]

\* event_to_result: an exception is told as such and without a location, any
\* other event as a stop; a partial one leaves thread and location empty.
event_to_result(e) ==
    [Response(IF e.kind = "Exception" THEN "ExceptionCaught" ELSE "Stopped", <<>>)
        EXCEPT !.at = e.at, !.thread = e.thread,
               !.event = CASE e.kind = "PartialStep"       -> "Step"
                           [] e.kind = "PartialBreakpoint" -> "Breakpoint"
                           [] OTHER                        -> e.kind]

is_partial_stopped(r) == r.kind = "Stopped" /\ r.thread = "" /\ r.at = 0

-----------------------------------------------------------------------------
(* classify_output and the parsers.  Each keeps the lines its expression   *)
(* matches and falls back to the raw text when there are none.             *)

OrRaw(kind, items, out) == IF items = <<>> THEN Raw(out) ELSE Response(kind, items)

parse_where(out)     == OrRaw("StackTrace", LinesThatAre(out, {"frame"}), out)
parse_where_all(out) == OrRaw("ThreadStackTrace", LinesThatAre(out, {"frame", "owner"}), out)
parse_locals(out)    == OrRaw("Locals", LinesThatAre(out, {"assign"}), out)
parse_threads(out)   == OrRaw("Threads", LinesThatAre(out, {"thread"}), out)
parse_source(out)    == OrRaw("Source", LinesThatAre(out, {"source"}), out)

\* The first assignment is the value.
parse_print(out) ==
    LET values == LinesThatAre(out, {"assign"})
    IN  OrRaw("Value", SubSeq(values, 1, IF values = <<>> THEN 0 ELSE 1), out)

\* The first line must be an assignment; without fields after it, it is a value.
parse_dump(out) ==
    IF out = <<>> \/ out[1].is # "assign" THEN Raw(out)
    ELSE LET fields == LinesThatAre(Tail(out), {"field"})
         IN  IF fields = <<>> THEN parse_print(out) ELSE Response("ObjectDump", fields)

\* The confirmation of a breakpoint or a watchpoint is taken as it comes.
parse_breakpoint_set(out) == Response("BreakpointSet", out)
parse_watch_set(out)      == Response("WatchSet", out)

\* One entry per line, whatever it says, headings apart.
parse_listing(kind, out) == Response(kind, SelectSeq(out, LAMBDA l : "**" \notin l.says))

classify_output(out, hint) ==
    CASE hint = "Where"         -> parse_where(out)
      [] hint = "WhereAll"      -> parse_where_all(out)
      [] hint = "Locals"        -> parse_locals(out)
      [] hint = "Print"         -> parse_print(out)
      [] hint = "Dump"          -> parse_dump(out)
      [] hint = "Threads"       -> parse_threads(out)
      [] hint = "ListSource"    -> parse_source(out)
      [] hint = "BreakpointSet" -> parse_breakpoint_set(out)
      [] hint = "WatchSet"      -> parse_watch_set(out)
      [] hint \in {"Breakpoints", "Classes", "Methods"} -> parse_listing(hint, out)
      [] OTHER                  -> Raw(out)
=============================================================================
