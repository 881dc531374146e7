# jdbg in TLA+

jdbg is a command-line and MCP front end for debugging Java programs.  A
background daemon keeps debug sessions alive between invocations; a session is
driven either through JDK's text debugger `jdb` or through a Java *sidecar*
process that speaks JDI.  This directory holds TLA+ models of the parts of jdbg
where threads, processes and messages meet, TLC configurations that check them
on small instances, and TLAPS proofs of what holds for every instance.

Paths below are relative to the repository.

## Inventory

| Part | State it keeps | Operations | Interacts through |
|---|---|---|---|
| JDI session, inbox (`src/jdi/session.rs`) | `JdiSessionInner`: `state`, `last_event`, `delivered_stop`, `delivered_stop_ids`, `pending_stops` | apply a sidecar event, pop a pending stop, finalize a delivered stop, discard after resume-all, mark dead | mutex `inner`, shared by the command thread, the reader's event sink and pollers |
| JDI session, commands (`src/jdi/session.rs`) | `command_lock`, the sidecar handle | run, cont, next, step, step_out, suspend, resume, kill, queries | requests over the transport |
| Sidecar transport (`src/jdi/transport.rs`) | pending requests, queue of events, event sink | request with timeout, drain and wait for events, reader thread | framed FIFO to the sidecar |
| Sidecar lifecycle (`src/jdi/lifecycle.rs`, `local.rs`) | child process, listener, token | launch, handshake, liveness, shutdown, drop | process and local socket |
| Framing (`src/jdi/codec.rs`, `FrameConnection.java`, `Json.java`) | none | encode, decode, size limit | byte streams |
| Sidecar `DebugSession` (`sidecar/jdi/.../JdiService.java`) | `stops`, `currentStopSet`, `currentThreadId`, step filter, pending and active requests | continue, step, ackStop, suspend, resume, terminate; event loop | JDI event queue; requests of the daemon; its own monitor |
| Sidecar evaluation (`ExpressionEvaluator.java`, `ValueRenderer.java`) | one flag: an executable evaluation is in flight | eval, print, set | worker thread, JDI `invokeMethod` |
| jdb session (`src/session.rs`, `src/jdb/process.rs`) | jdb child, `RunState`, last event, conditions | execute a command, kill, derive state from output | jdb's stdin and stdout, one mutex |
| Prompt reader (`src/jdb/reader.rs`) | buffer, patience timer, eof | read until prompt, drain, purge | channel from the stdout thread |
| jdb parser (`src/jdb/parser.rs`) | none | text to records | called by the session |
| Request handler (`src/daemon/handler.rs`) | none | dispatch, condition loop, enrichment of stops | sessions, manager |
| Session manager (`src/daemon/manager.rs`, `src/registry.rs`) | map of sessions, files on disk | create, attach, get, list, kill, shutdown, persist | mutex over the map, held while sessions are asked for their state |
| Daemon and client (`src/daemon/mod.rs`, `src/client.rs`) | socket, shutdown flag | bind or yield, accept, stop; connect or spawn, retry | the socket |
| Setup (`src/setup.rs`) | configuration files and skills of four agents | install, remove, detect what is configured | files of the user |
| Update (`src/update.rs`, `src/update_sidecar.rs`) | the executable, the sidecar's jar, what was configured | stop the daemon, remove, replace, set up again | client, setup, downloads |
| MCP server (`src/mcp/*`) | none between calls | tools to daemon requests | client |
| Command line, output | none shared | I/O | client |

**Hard behaviours.**  A stop of the target reaches the daemon on two channels:
as the answer to the blocking request that waits for it, and as an event; the
event is applied from the transport's queue and by the sink.  Three kinds of
daemon threads apply events under one mutex, in steps.  The sidecar keeps its
own queue of stops, which requests consume while the event loop fills it and
target threads run between the resumes of a loop.  Requests and stops time out
at three levels (sidecar deadline, grace period, transport).  The sidecar may
die, the target may exit, at any point.

jdb has no protocol: its answers and the banners of stops share one stream, a
prompt may stand in the middle of either, and a banner may come in two pieces.
The daemon decides by patterns and by how long nothing comes, releases the
session between the commands of one request, and continues by itself when a
condition is false.

A daemon is a process that other processes start, stop and kill while it still
has the name of its socket, its entry in `daemon.json`, a map of sessions behind
one mutex, and child processes whose connections other children may inherit.  A
client whose connection breaks sends its request again.  `jdbg update` does all
of this to a daemon other clients are talking to, and takes the user's
configuration apart in the meantime.

All of this is what the models below are about; `PROJECT.json` lists the hazards
line by line with the property that covers each, or why none does.

**What makes each part correct.**  *Inbox*: a stop waits at most once, never
after it was delivered or discarded; the memory of ids is bounded.  *Session*:
stops are told once, in order, held when told; none is lost; every command
returns; status follows stops without a command.  *Sidecar*: a suspended thread
is owned by a stop that a later continue releases; a step leaves nothing
behind.  *jdb session*: an answer belongs to the command that is waiting; a
late banner is not lost.  *Manager*: one live session per target; a killed
daemon leaves none.  *Daemon*: one daemon per socket; a request is executed
once; `daemon.json` names the one that serves.  *Setup and update*: what the
user wrote stays; what was configured is configured afterwards.

## Modules

| Module | What it is |
|---|---|
| `StopTypes` | stop ids, the events `vmDisconnected` and `vmStart`, shared by daemon and sidecar |
| `StopInbox` | `JdiSessionInner`: one action per critical section of `inner` |
| `SidecarStops` | `DebugSession`: the target VM (external), the event loop and the RPC thread |
| `JdiSession` | EXTENDS both: reader thread, pollers, command thread, the two byte streams, sidecar death |
| `StopLedger` | abstract specification: a stop is raised, then reported once or dropped, never both |
| `JdiProperties` | the invariants, action and liveness properties of a session, and its refinement of `StopLedger` |
| `MCJdi` | symmetry for the runs; `MCJdi_<run>.cfg` gives the constants |
| `StopInbox_proofs`, `SidecarStops_proofs`, `JdiSession_proofs` | theorems and proofs |
| `SidecarRequests` | `DebugSession`: what it asks the target VM to report, deferred and resolved, and the lists two threads share |
| `MCRequests`, `SidecarRequests_proofs` | the plans TLC goes through; theorems and proofs |
| `JdbOutput` | the lines jdb prints, and what the reader and the parsers take them for |
| `JdbProcess` | EXTENDS it: jdb and its target (external), the pipe, and the `PromptReader` |
| `JdbSession` | EXTENDS it: `Session`: launch, attach, `execute`, enrichment of truncated banners, kill, status |
| `JdbHandler` | EXTENDS it: the requests of several clients on one session, the condition loop, `inspect` |
| `JdbProperties`, `MCJdbSession` | what a jdb session promises and when; the plans TLC goes through |
| `Jdb_proofs` | theorems and proofs about a jdb session |
| `DaemonLife` | a daemon process from bind to exit, its socket's name, `daemon.json`, its clients; abstract about requests |
| `OneServer` | abstract specification: one server at a time, which alone announces itself and withdraws before it leaves |
| `SidecarPaths` | which java, which `tools.jar`, which jdb: functions of an environment |
| `SidecarLaunch` | EXTENDS both: how a handler thread builds a session with its child processes |
| `SessionManager` | EXTENDS it: the map of sessions, `sessions.json`, the requests about sessions |
| `AgentConfig` | what setup makes of a configuration file, as functions |
| `Update` | EXTENDS both: setup, its removal and update as a program that runs beside the daemon |
| `System` | EXTENDS it: all of these as one system, and the fairness |
| `SystemProperties`, `MCSystem` | its properties, its refinement of `OneServer`; the plans |
| `System_proofs`, `Update_proofs`, `Sessions_proofs` | theorems and proofs |

The models fall into groups that are checked separately: a JDI session and its
stops, the requests behind those stops, a jdb session, and the system around
sessions.  `SessionManager` knows of a
session only how long a command holds it, whether it is over jdb (then its state
has to be waited for) and whether its target lives; what happens inside is in
the other two groups.

Operators named in a comment as *mutant* are plausible bugs; they stand beside
the definition they replace when a property is tested for being able to fail.

### How the model corresponds to the code

*Inbox.*  `apply_sidecar_event` is `ApplySidecarEvent` (`ApplyVmExit`,
`ApplyStop`), the tail of `apply_sidecar_events` is `MarkDead`,
`finalize_delivered_stop` is `FinalizeDeliveredStop` with
`remember_delivered_stop_id` as `Remember`.  Where one lock is held through a
loop, the loop is modelled iteration by iteration and the variable `mutex` of
`JdiSession` names the thread inside.  Payloads are abstracted to the stop id;
`vmDisconnected` has none, and the code compares it by its event name.  (A
payload without id could only come from an older sidecar; the sidecar modelled
here numbers every stop.)

*Sidecar.*  `currentStopSet` and the event set in a stop record are named by the
stop they belong to.  `suspends` is JDI's suspend count, incremented by a hit
according to its policy, decremented by `EventSet.resume()` and `vm.resume()`.
The monitor is implicit, one synchronized section being one action, except in
`discardStopsAndResumeAll` and `discardQueuedStopsForOtherThreads`: there the
target may run between two resumes, so each iteration is an action and
`MonitorFree` keeps the event loop out.  A request that ran into an exception of
JDI is `TargetGone`, with what the handler had changed by then.  Every event
set carries one stop.  A hit whose condition is false and a hit filtered by a
step are `LoopRejects`.

*Requests for events.*  `SidecarRequests` has the same two threads of the
sidecar, here with one target thread and without the queue of stops.  `requests`
and `enabled` are the VM's `EventRequestManager`, `list[l]` the six lists of
`DebugSession`, `iter[t]` the `java.util.Iterator` a thread has on one of them:
another thread's change makes it stale, and then it may throw or miss the change.
The lists are plain `ArrayList`s that nothing guards: an add or a remove reads the
size and later writes entries and size, two actions (`Begin...`, `End...`), and
`change[t]` is the one thread `t` is in.  Where the other thread has changed the
list in between, the one that ends goes by the size it read or by the one it finds,
so that an entry may be overwritten, a place stay null, an add or a remove throw.
Half of a move of the entries, and a size below zero, are left out.
`SetNow` and `SetDeferred` are the two ways of `setBreakpoint` and
`setWatchpoint`; the deferred entry, its `ClassPrepareRequest` and the assignment
of one to the other are three steps, as are enabling a request and entering it.  `Walk...` are the loops of
`clearBreakpoint`, `clearWatchpoint`, `ignoreException` and `breakpoints`, entry by
entry, `Resolve...` those of `resolvePending`, which the event loop takes while the
target stands at a class it has loaded.  An event set is all that the requests
heed of one step of the target.  `asked` is what the user was told is set, and
`Judge` compares each step of the target with it.

*Transport.*  A stream is a sequence; `ReaderQueuesEvent` and
`ReaderSinksEvent` are the two halves of `dispatch_incoming`.
`CmdRequestTimesOut` is `recv_timeout` giving up, at any moment when
`RequestTimeouts` holds.  `ReaderEnds` clears the pending requests.

*Commands.*  `cmd.pc` is the place in `resume_like`,
`stop_response_from_value`, `suspend`, `resume` and `kill`.  `command_lock` is
implied: there is one command thread.  `next`, `step` and `step_out` differ in
a depth constant and are all `"step"`.  Draining is guarded by
`NothingToApply` exactly as the early return of `apply_transport_events`.
A poller is any other client whose list, status or attach asks for the state;
it may come at any time.

*jdb.*  `JdbProcess` is a model of jdb as the code uses it: one thread answers
commands in order, each answer followed by a prompt, another prints banners; the
reader gets the lines in any pieces.  A line is a record of its kind and what it
is about, never its text; `JdbOutput` says which kinds each pattern of
`reader.rs` and `parser.rs` matches.  `ReadOutcomes` are the ways out of the
read loop: a prompt that counts, a banner that has waited long enough
(`patience`), a fatal message, the end of the stream, the deadline.  A deadline
passes when nothing else can happen, or at any moment in a plan that is `hasty`.
What follows a prompt of jdb may be late: within the 100 ms of `drain_stale`
(`"soon"`) or before the next command (`"later"`), and later than that in a plan
that is `slow` (`InTime`).
`ex[c]` is where client `c` is in `execute`, `cl[c]` where it is in its request;
the mutex `inner` is free between two calls of one request, and there another
client may use the session.  `plan`, chosen in `Init`, says what the target runs
into and what the clients ask.

*Daemon.*  `daemon[d]` is the next line of `run_daemon` that another process can
see: bind, probe, reclaim, rebind, listen, register, serve, cleanup, unregister,
unlink, close, exit.  At `close` `run_daemon` returns and drops its listener: from
then on nobody connects, and until `exit` the process and its threads are still
there.  `client[c]` is the place in `send` and `ensure_daemon`,
`thread[c]` the connection as its handler thread sees it.  On Linux and Windows
the name of the socket goes with its process; on macOS a file stays
(`NameOutlivesProcess`).  A crash is a kill from outside, at any stage.

*Sessions.*  `job[c].step` is the place of a handler thread in `dispatch`,
`create`, `create_attach`, `kill` and in the launch of a sidecar.  The map's
mutex is taken for an instant to insert, remove or look up, which is one action;
who holds it while looking at the state of every session is `lock[d]`, and such
a thread waits for a busy jdb session.  `ends[p]` are the processes that have
the sidecar's end of its connection open: a child started at the wrong moment
inherits it, and then the handshake, which has no timeout, may wait for it.
A Java home of `SidecarPaths` is named for what is in it; a shim, such as
`/usr/bin/java`, and the bare `jre` directory of a JDK 8 have nothing of what
`is_concrete_jdk_home` looks for, and then another home stands for theirs, or none.

*Setup and update.*  A file is the set of things in it that the code or the user
cares for (JSON), or the sequence of its tables (TOML), or one that cannot be read; `home` has the files of
all agents.  `up.stage` is the place in `update` or `setup`; each file is
written in one action, because it is renamed into place, and the program may
stop at any of them (`plan.frail`).  `Publish` is a release that appears between
two downloads.

## Runs

All bounds are constants: `MaxStops` hits raised by the target, `MaxRequests`
requests sent to the sidecar, `IdCap` ids remembered.

| Run | Instance | Shows |
|---|---|---|
| `commands` | 2 threads, `continue` and `suspend`, 3 stops, 5 requests | stops are told once and in order; a told stop is held; what was told last is what is inspected |
| `launch` | 2 threads, suspend-all breakpoints, `run`, `continue`, `resume`, 2 stops and the start event, 4 requests | no orphaned suspension; refinement of `StopLedger` |
| `live` | 1 thread, `continue` and `kill`, request timeouts, sidecar crashes, 2 stops, 2 requests | no stop is lost, commands return, stops become known |
| `gone` | 2 threads, `step`, `suspend`, `resume`, target exit, 2 stops, 2 requests, 1 id remembered | types; step's filter; atomic discard; the inbox invariants with ids evicted |
| `exit_overwritten` | 1 thread, target exit | *violated*, see Findings |
| `step_replaced` | 2 threads, `continue`, `step` | *violated* |
| `thread_left_suspended` | 2 threads, thread breakpoints, `continue` | *violated* |
| `exit_unnoticed` | 1 thread, target exit, a poller that keeps asking | *violated* |
| `requests` | 5357 plans of 3 to 7 requests and a program of up to 8 steps | the target stops where it was asked to and nowhere else; no hidden request but where both threads change one list at once; no event holds the target for good |
| `bad_line` | two breakpoints before their class is loaded | *violated*, see Findings |
| `jdb` | a jdb session, 2 clients, about 150 plans of up to 5 hits and 20 requests, condition loop capped at 3 | answers belong to their commands; state follows the target; stops told in order; conditions decide what is shown; every request returns |
| `system` | 3 daemon processes, 3 clients (one is `jdbg update` or `setup`), 2 sessions, 1 crash, about 1100 plans | one server at a time, announced while it serves (refinement of `OneServer`); no stray process; `sessions.json` is true; no duplicate session; JDI found before it is used; nothing of the user's lost; every request comes to an end, a daemon told to stop ends, a start makes jdbg reachable |

*Why the bounds are enough.*  A stop in each channel at once needs two stops;
overtaking and replay need a third, which `commands` has.  Two threads give
"the thread of the stop" and "another thread"; a third adds no case, no code
compares three.  Two requests give a late answer that meets the next request;
four and five let a stop pass through time-out, pending queue, acknowledgement
and a further continue.  In `gone` the number of stops exceeds the cap, so that ids
are evicted; in the other session runs the cap of 32 is never reached, as in any
session whose late copies are at most a few stops old.  `IdCap = 4` stands for
"not reached" there.

In `requests` three requests before the class is loaded give every pair of a
deferred entry and another one in each order, with one that narrows or clears in
between; the program loads two classes and comes to each kind of place before
and after a later request.  A fourth entry in a list adds no case: an iterator
sees its own entry and the rest.

In `system` most plans have two processes, the third having ended before they
begin (`plan.ended`): one daemon and one that takes over from it, or two that start
from nothing.  Two starters over the remains of a third need all three, which
`StalePlans` have; a fourth would repeat the part of the second starter.  Two sessions and two clients that ask give every pair
of a request and another one that the plans name; the plans cover each pair that
meets in the code (attach and attach, launch and stop, kill and kill, command
and kill, list and crash, update and stop), every Java installation `SidecarPaths` tells apart,
and every combination of configured agents with files of each shape.  In `jdb`
one hit is enough to be late or truncated, two for order, and one more than the
cap for the loop; there the cap is 3 where the code has 100.

*Deadlock* is not checked in the runs of a JDI session: a behaviour ends when the bounds
are used up and no client asks anything, which is no defect.  A command that is
stuck is caught by `CommandReturns`, and in `jdb` and `system`, where a
behaviour ends when every request is done, by `RequestsReturn`.

*Fairness* (`JdiSpec`): weak fairness for the sidecar's event loop, its RPC
thread, the reader thread, the command thread, the application of drained
events, and the registration of the sink, each of which is a thread that the
operating system schedules and that takes a step when it can (`continueFor`
always ends because its deadline passes, which is `TimesOut`).  Nothing is
assumed of the target, of clients, or of pollers; `exit_unnoticed` alone adds a
client that keeps asking for the status (`WatchedSpec`), to show that even then
the exit is not noticed.  `SidecarRequests` assumes it of
the event loop alone: `EventsHandled` needs no request and no luck of the target.
`JdbHandler` assumes that jdb and its target are
scheduled (jdb's own steps, taken together) and each client's thread once it is
busy; a hit that never comes is the plan's `loop`.  `System` assumes it of the
main thread of each daemon, of each client with its connection and its handler
thread (of which at most one can take a step at a time), and of a sidecar that
was started, which connects or dies; nobody has to ask, crash, end or publish.
`accept` is given to each client: connections are taken in turn.  A command on a
session is taken to return, which is what `CommandReturns` and the jdb group's
`RequestsReturn` show.

*Where a property is checked and where not.*  `HeldWhenTold` and `ToldInOrder`
are checked without resume-all: after `discardStopsAndResumeAll` the last
`vm.resume()` may release a thread that has hit its next breakpoint in between,
and the daemon's drain may sweep away the event of a stop that the sidecar then
tells later, after a younger one.  `StopLedger` (once, and never after a
discard) holds there all the same.  `NoOrphanSuspension` is checked for
suspend-all breakpoints; with thread breakpoints it fails, see Findings.

`StopsAsAsked` is about plans in which each request waits until the target
stands (`calm`), and excepts a deferred entry behind one that has no code in its
class (`Blocked`), which is the finding `bad_line`.  While the target runs, its
class may be loaded between the look at what is loaded and the enabling of the
`ClassPrepareRequest`, and the breakpoint is deferred for good; an iterator may
throw half way.  `NoHiddenRequest` and `EventsHandled` hold of all plans; the
former excepts the requests that were there when both threads were in the middle
of a change of their list (`overlapped`), which is where one may undo what the
other does (see "Exceptions the properties name").

`AnswersAligned`, `StateTracksTarget` and `ToldInOrder` of a jdb session hold
under `Calm`: stops suspend the whole target, deadlines are long enough, what jdb
prints behind a prompt comes within the time `drain_stale` waits and before the
next command is written (no plan that is `slow`), jdb
completes a banner it began, prints no bare prompt behind the thread prompt of an
exception or a field watch, and the target runs only during a command that
waits for it.  Without any one of these they fail: a stop that comes after its
command gave up is purged by the next query; the rest of a banner that comes after
the next command was written is taken for that command's answer; a thread prompt and a bare prompt
that arrive in one chunk end in a bare prompt, which ends a resuming command only
behind the banner of a breakpoint or a step (`src/jdb/reader.rs:350`).
`AnswersAligned` does not mind a bare prompt that answers a command: a second
client's `run` or `cont` that jdb declines may find one left over.  `ConditionsRespected` is about a
client alone on its session; between the stop and the evaluation of the
condition another client may inspect it.

In `system` the exceptions stand in the properties.  `OneDaemon` is about
platforms where the name goes with the process; where it is a file it fails, and so
`OneServer` is implemented by the other platforms only.  `RegisteredUnlessUpdated` excludes updates, which remove the entry of
whatever daemon they find after the wait.  `RequestsReturn` excludes a handshake
whose connection another child inherited (`Hung`): nothing in the code ends it.
`SnapshotTrue` excludes a kill that failed before it saved.  `OncePerRequest` says
that what is sent again was not carried out by a daemon that can still be reached;
a daemon that was killed may have carried it out before.  `SidecarLoadsJdi` excludes
a modular runtime without the JDI module and a java whose own home its path does not
tell (`HomeUnknown`), for which the check looks at another home or at none.  `OldDaemonPastService` says what is true of the old
daemon when an update goes on: its sessions, its entry and its listener are gone,
which is enough for its clients; the process itself may still be there.
`ForeignKept` excludes files that do not parse or cannot be read or that hold
something else where an object is expected, which are overwritten (an unreadable
`config.toml` counts as empty, `src/setup.rs:917`), and an array of tables that
stands right behind a block of jdbg; arrays of tables elsewhere are kept.

## Findings

Each is a run that TLC finds violated, with the passage it contradicts quoted
in `PROJECT.json`.

- **`exit_overwritten`**: after a time-out the command assigns `Running`
  unconditionally (`src/jdi/session.rs:1138`), also when the exit of the target
  has just been applied; the session never becomes `Exited` again.
- **`step_replaced`**: stops of other threads that the sidecar takes back when a
  step begins have already been sent as events; the daemon queues them, and
  tells one when the step times out.
- **`thread_left_suspended`**: `continueFor` selects a queued stop without
  resuming the event set that was current; `ackStop` does resume it.  The first
  thread stays suspended until resume-all.
- **`exit_unnoticed`**: `eventSet.resume()` stands outside the `try` of the
  event loop; when the target goes away at that point the loop's thread dies
  and the exit is never reported.
- **`bad_line`**: `resolvePending` resolves the deferred entries of a class one
  after the other, and an entry on a line without code throws
  (`JdiService.java:1565`): those behind it stay deferred, and since the class is
  loaded once they never bind.
Beside the runs: `README.md:213-215` calls jdb the default backend where the
code's default is JDI (`src/protocol/result.rs:267-271`), which the models
follow.

### Exceptions the properties name

What follows is not checked by a run of its own; it is what the code does in the
cases the properties above except.  Without the exception TLC finds the property
violated, of each but the last.

- *An entry of a list is lost* (`NoHiddenRequest`, `overlapped`): the RPC thread and
  the event loop add to `activeBreakpoints` without a lock (`JdiService.java:1573`,
  reached from lines 379-384 and 1542).  Of two adds at once one may be lost, and its
  breakpoint stays enabled where `breakpoints` does not show it and `clear` does not
  find it.
- *Two daemons where the socket is a file* (`OneDaemon`): two processes that start
  over a stale socket file both find nobody there; the second removes the file the
  first has just bound (`src/daemon/mod.rs:44`), and both serve, where line 4 of
  the file says one daemon per login.  A daemon that stops removes the file of its
  successor in the same way (`src/daemon/mod.rs:96`).
- *An update that goes on beside the old process* (`OldDaemonPastService`): an update
  whose `DaemonStop` gets no answer takes the daemon for one that was not running
  (`src/update.rs:26-32`), also when its connection was cut because another client's
  stop closed the listener; the process it knows the pid of may live, where
  `README.md:260` says that it is stopped first.
- *A Java 8 without `tools.jar`* (`SidecarLoadsJdi`, `HomeUnknown`): for a java in a
  directory that is no concrete Java home the check judges another Java or none
  (`src/jdi/lifecycle.rs:166`), and the sidecar is started, to die at its first use
  of JDI.
- *An array of tables right behind jdbg's block* (`ForeignKept`): an `[[array]]` of
  the user that directly follows the block in Codex's `config.toml` goes with it,
  because `find_next_toml_table` (`src/setup.rs:449`) passes over headers of arrays
  of tables, where `README.md:211` promises a surgical removal.
- *A file that cannot be read* (`ForeignKept`): it counts as empty and is overwritten
  (`src/setup.rs:917`).  The model does not know what the user had in it, so it shows
  that the file is replaced but has nothing to compare with.

## Proofs

All theorems hold for every number of threads, stops, commands, requests,
daemons, clients and sessions, every plan and every cap; the assumptions are the named `ASSUME`s of the modules (bounds are
naturals, the cap is positive, the model values differ).

- *Inbox* (`StopInbox_proofs`): `InboxInvariant` by the inductive invariant
  `InboxInv`, the conjunction of types, `NoDuplicatePending`,
  `PendingNotDelivered` and `DeliveredIdsBounded`.  They need one another: the
  purge in `FinalizeDeliveredStop` removes one twin only, which is enough
  because there is at most one.  Lemmas say what appending, popping, removing
  and remembering do to a sequence without repetitions.
- *Session implements inbox* (`JdiSession_proofs`): `SessionImplementsInbox`
  shows that each step of a session is a step of `InboxNext` or leaves the
  inbox alone; the inbox theorems carry over to the session.
- *Types* (`SidecarStops_proofs`, `JdiSession_proofs`): `SessionTypeCorrect`
  proves `JdiTypeOK`.  The strengthening is that a stop anywhere in the sidecar
  is one that has been raised (`Known`, so that `raised[s]` is defined), and
  that only run, continue and step get as far as arming (`ArmedCommand`).
- *A step leaves nothing behind*: `StepLeavesNoFilterHolds` from `FilterOwned`:
  while the target is up a filter or a step request exists only between the
  beginning of the step and its `finally`.
- *Atomic discard*: `DiscardAtomicHolds`; the property is inductive together
  with the types, since every other thread needs the mutex.
- *No stop is lost*: `StopAccountedHolds`, for every session whose clients do not
  `resume` everything (a resume discards the waiting stops on purpose, also one
  whose answer was given up, and TLC shows such a stop untold), with timeouts, a
  dying sidecar and an exiting target.  The invariant follows the event of a stop,
  the channel that no timeout cuts (`TwinKept`): event loop, wire, reader, pending
  stops, told; a stop the inbox ignores has been told.  It needs that nothing is
  ignored because the session is over or the sink missing: `ExitLast` (wherever the
  exit has got to, no event of a stop comes after it), `DeadIsDead` (a session is
  Dead only when its sidecar is) and `BeforeSink` (nothing is raised before the
  sink is registered).

- *Stops are told in order, and the told one is inspected* (`JdiSession_proofs`):
  `ToldInOrderHolds`, `SessionImplementsLedger` and `ToldIsInspectedHolds`, for
  plain sessions (`Plain`): run, continue and suspend, no request given up, a
  sidecar that does not crash, and at most `IdCap` stops; the last one also for a
  target that does not exit.  Threads, suspend policies, requests and poll workers
  are any number, and the configuration `commands` is such a session.  `Plain` is
  what the properties need and not a convenience: with more stops than remembered
  ids the late copy of a stop whose id was evicted is queued again, and the drain
  of a resume-all may sweep away the event of a stop the sidecar tells later; TLC
  finds stops told out of order in both cases.
  `ToldInOrder` is not inductive: a stop reaches the daemon by two channels, the
  answer to a continue and the event, and either may be first.  `PlainInv` relates
  them.  `OneRequest`: one request is under way, and it is that of the command.
  `WireOrder`: events of stops are on the wire in the order they were raised.
  `InboxOrder`: what the inbox has seen comes before what is still to come, pending
  stops are in order, and a copy that is queued or drained has left a trace by
  which it will be ignored.  `StopsTold`: the stops told are 1 to n, the one in
  hand is n + 1, and the sidecar's queue is the rest, in order.  The first pending
  stop, the stop in an answer and the one acknowledged are then all n + 1, so it
  does not matter by which channel the next stop is told.  The ledger follows,
  since each step raises one stop, tells one, or is a stutter (`LedgerStep`).
  `ToldIsInspected` needs three more facts: no exit is on its way (`TargetStays`),
  the start of the VM comes before every stop (`StartFirst`), and a stop in hand is
  the selected one (`Inspected`), because the RPC thread selects the stop it
  answers with, and the one acknowledged, and the event loop selects only when
  nothing is.

- *Requests* (`SidecarRequests_proofs`): `NoHiddenRequestHolds` for every plan,
  calm or not, and every program, by `RequestsInv`.  While one thread is in the
  middle of a change of a list the other may change it too, and then nothing is
  certain of that list: the requests there were by then are `overlapped`.  What
  has to be shown is that this is the only way to lose one.  `Alone`: as long as a
  request is not overlapped, a thread that is in the middle of a change of its list
  found the size the list still has, so that the end of the change adds an entry
  or takes away the one it is at, and no other.  A request taken away was disabled
  before (`deleteEventRequest` comes first), and one being added is in the hand of
  the thread that enabled it.  The rest says where the two threads are: who goes
  through the lists has an iterator on one of them, and while the event loop
  handles an event the target is held (`Held`), so that events are handled one set
  at a time.
- *Daemon* (`System_proofs`): `AtMostOneDaemon` and `RegistrationHolds` for
  any number of processes, clients and crashes.  That at most one process holds
  the name is not inductive; that the name leads to every process that holds it
  (`NameLeadsToHolder`) is, since a process takes the name only when it leads
  nowhere or to a dead one.  `Occupied` (a connection belongs to a client that
  waits) keeps a request and its thread together.  Registration rests on an order: a
  daemon removes `daemon.json` whatever is in it (`src/registry.rs:80`), and it is
  only because it does so before it lets go of the name, and a successor writes its
  entry after it has the name, that the entry removed is its own.
- *System* (`System_proofs`): `SystemOneDaemon` and `SystemRegistration` carry the
  theorems over to the whole system; the first holds beside an update too, because
  a program that sends requests and kills processes from outside preserves
  `HolderInv`.  `SystemImplementsOneServer` is the refinement of `OneServer`, updates
  included.  The server is the process that has the name, by `HolderInv` the only
  one; the entry is `daemon.json`, and what a crash or an update does is what the
  outside does.  That a server leaves only with its entry withdrawn needs an
  invariant of its own, of what each stage behind the loop has done to the entry;
  the steps of sessions and child processes are stutters.

- *Update* (`Update_proofs`): every safety property of the program beside the
  daemon.  `OldDaemonPastServiceHolds` from `ListenInv` and `UpdaterInv` (what the
  stages after the wait know of the pid it read: a connection is refused or cut
  without an answer only when that process has closed its listener, and what is past
  its service stays so).
  `OnlyVerifiedJarHolds` from `VerifiedInv`: what is held while it is renamed is
  what the checksum was for.  `ForeignKeptHolds` from `ForeignInv`: each write of a
  file is one of the functions of `AgentConfig`, so the user's keys only grow
  (`KeysKept`) and the user's tables correspond one to one and in order
  (`SameTables`, which is transitive), and no array of tables gets behind a block
  where there was none; the lemmas say what cutting jdbg's block
  out of `config.toml`, replacing it and appending it do to the other tables,
  for a file of any length.  `UpdateKeepsHolds` from `KeepsInv`: what the update
  remembered before it stopped the daemon (`Remembered`) is what the writes that
  are left, with those done, amount to (`Rewritten`).
- *Sessions* (`Sessions_proofs`): every safety property of the manager.
  `NoStrayProcessHolds` from `OwnersInv` (a child belongs to the thread whose job
  names its session, at a step at which that thread still has it, or to the map);
  `SystemTypes` beside it.  `SnapshotTrueHolds` from `SnapshotInv`: it is nearly
  inductive, one only has to know that the daemon that wrote the file last has
  got as far as serving.  `OncePerRequestHolds` from `OnceInv`: the request a
  session is from is one its client is done with, or the one its client waits for
  at the daemon of that session, whose thread has it made and not told yet
  (`Carries`); a request is sent again only when that connection was lost.
  `DuplicatesOverlapHolds` from `OverlapInv`: a thread that has checked found no
  session older than its check.  `SidecarLoadsJdiHolds` goes through the cases of
  `SidecarPaths` for an environment of any shape, homes that are not concrete
  included (`HomesHaveJdi`).

With these every safety property of the run `system` is proved for any number
of daemons, clients, sessions and plans.  The assumptions: `SessionsAssumption`
(session ids are finitely many), `ShapeAssumption` (requests are of the
operations of `Command` and name one of two backends), `SurroundingsAssumption`
(java on the path and in the environment is of the known kinds or absent, the
jar old or absent) and
`ProgramAssumption` (an update has no setups left to do when it begins, the files
of the agents are files of their kind).

- *jdb session* (`Jdb_proofs`): `JdbTypes` for every plan, calm or not, by
  `TypeInv`, which knows of each client where it is in `execute` and in its
  request, and which calls it may have there.  `JdbAnswersAligned`,
  `JdbStateTracksTarget` and `JdbToldInOrder` follow from `JdbCalm`, the invariant
  `CalmInv`.  None of the three is inductive: whether the next answer is the right
  one depends on all that is written to jdb and not read, printed and not taken,
  and late.  `Stand` therefore says which situations there are.  The session is
  being opened (`Opening`); or nobody has it, then nothing but bare prompts is in
  the pipe and the state is the target's (`Free`); or a client has it (`Owns`), and
  at each place of `execute` the pipe holds no more than its command, the whole
  answer to that command (`Replied`, `Refused`), or one banner and the rest of it
  (`BannerAt`).  The proof has three parts: what `try_match` and `detect_event`
  make of each prefix of such a text (`ReadsReply`, `ReadsRefusal`, and the lemmas
  on banners), so that a command ends at its own prompt however the chunks fall;
  that each step of jdb and the target prints such a text (`ProcessStand`); and
  that each step of a client leads from one situation to another (`OpenerKept`,
  `ExecuteKept`, `HandlerKept`), which is where the mutex, the purge before a
  command and the drain after a stop are needed.  The assumptions are
  `PlansAssumption` (what a target runs into and what clients ask: threads that
  exist, operations of the handler) and those on the model values.

Only model-checked: everything temporal with fairness (`CommandReturns`,
`StopNoticed`, `EventsHandled`, `RequestsReturn`, `StopEnds`, `StartReaches`),
which is outside the prover's reach; `HeldWhenTold` and `NoOrphanSuspension`, which
count suspensions; `ToldInOrder`, `ToldIsInspected` and `ImplementsLedger` of a
session that is not plain, as far as their runs go; `StopsAsAsked`, which
compares the requests that are enabled with all that was asked for;
`ConditionsRespected` and `EnrichedConsistently`, which are about what a request
makes of several answers of jdb.

## Not modelled

- *JDI session*: commands that only ask the sidecar and keep nothing (where,
  locals, print, classes), suspend and resume of single threads, thread
  selection; a malformed frame that ends the reader thread while the sidecar
  lives.
- *Sidecar*: selection of threads and frames, forced return, and the evaluation
  of expressions, which may run on a thread of its own.
- *Expressions, values, frames, records*: pure functions over JDI mirrors, JSON
  and bytes; they keep no state of their own.
- *MCP server*: a translation of tool calls to the requests modelled here.
- *Command line, output, prompts of setup*: parsing and formatting.
- *jdb output parser*: which lines count is modelled, the fields cut out of a
  line are not.
