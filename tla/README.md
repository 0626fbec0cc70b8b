# A verification project for GStreamer Daemon (gstd)

TLA+ models of gstd and of its C client library: of the concurrent core (registry,
signals, bus, connections, HTTP server, processes) and of the whole path from a
call of the client to the answer it reads, which is shown to implement a store of
named pipelines. TLC checks them on small instances; TLAPS proves the safety
properties of the registry, the bus wait, the signal reader, the client's connections,
the HTTP server and the processes for any instance.

## 1. The system

gstd keeps GStreamer pipelines on behalf of remote clients. Requests arrive over
TCP, UNIX sockets or HTTP, each connection or HTTP message on a thread of its
own, and become one text command (`pipeline_create p1 ...`, `update
/pipelines/p1/state playing`, ...). The parser turns a command into create, read,
update or delete on an object of a tree rooted in the session.

| Component | State | Operations | Talks to |
|---|---|---|---|
| Pipeline registry (`gstd_list.c`, `gstd_session.c`, `gstd_pipeline_creator.c`, `gstd_pipeline_deleter.c`) | list of pipelines and its count, guarded by the list's object lock | create, append, find, delete | parser (calls), pipelines |
| Pipeline (`gstd_pipeline.c`) | element, state object, creation refcount, object lock | build, dispose, increment, decrement | GStreamer |
| State (`gstd_state.c`) | target element, play refcount | update (set_state), increment, decrement | GStreamer |
| Parser (`gstd_parser.c`) | none | one function per command; the reference counted commands hold the session's or a pipeline's lock | registry, all objects |
| Signals (`gstd_signal*.c`, `gstd_callback.c`) | timeout, waiting flag, callback pointer, mutex and condition variable | wait for a signal, disconnect, set timeout | streaming threads (callbacks) |
| Pipeline bus (`gstd_pipeline_bus.c`, `gstd_msg_reader.c`) | filter, timeout | set, pop a message, flush | GStreamer's bus |
| Elements, properties, actions, events | wrappers of GStreamer objects | read, update, emit, send | GStreamer |
| Sockets (`gstd_socket.c`, `gstd_tcp.c`, `gstd_unix.c`) | the socket service | start, stop, one worker per connection | parser, clients |
| HTTP (`gstd_http.c`) | libsoup server, thread pool, mutex | start, stop, dispatch, fast paths, workers | parser, registry's lock |
| IPC life cycle (`libgstd.c`, `gstd_ipc.c`) | the IPCs, references to the session | new, start, stop, free | all IPCs |
| Daemon (`gstd/`) | pid file, main loop | fork, start, signal handler, kill | IPC life cycle |
| libgstc (`libgstc/c/`) | the socket, kept open or opened per call | one transaction per call, asynchronous bus wait | sockets |
| gst_client, Python and JavaScript clients | a connection | the same transactions | sockets |

What is hard here: commands of several clients run on different threads and most
of them look an object up, let go of the lock, and use it afterwards; a deletion
may happen in between. The reference counted commands are sequences of inner
commands that only a lock held by the outer one keeps together. Streaming threads
call back into the daemon. Answers may be late, and nothing on the wire says
which request an answer belongs to. The HTTP server does its I/O on one thread,
which also takes locks.

What makes each component correct, and is checked here:

- registry: unique names, no object used after it died or leaked, refcounts equal
  to what clients hold, a pipeline plays exactly while somebody plays it, every
  request returns;
- signals: a callback is given to one reader only, a signal ends the read of a
  reader on its own, a timeout ends any;
- client library: a call returns in time with the answer to its own request and
  leaves no descriptor behind;
- HTTP: every message is answered, those pending at a stop included, the
  monitoring paths do not depend on the commands, stop returns;
- bus: a wait that found its own settings gets a message it asked for, it ends if
  its thread calls back, and the thread never writes into a frame that is gone;
- life cycle and daemon: the session's references balance on every path, one
  daemon per pid file, no path of a socket left behind, everything settles if
  commands end;
- commands, objects and documents: every call has the effect it stands for on the
  pipeline it named, or reports a failure and has none; answers are JSON.

## 2. Modules

### PipelineRegistry

Threads serve the eight pipeline commands (`create`, `delete`, `play`, `stop` and
their `_ref` variants). A thread has a program counter, the stack of the command
it serves (`_ref` commands run inner commands) and the pipeline and state objects
it holds; the shared state is the list, its lock, the session's lock, the
pipelines' locks, and for every pipeline its GObject count, its refcounts and the
state of its element. Memory is modelled by the set `Pipe` of places a pipeline
may live in: a place is reused after disposal.

One action is one stretch of code between two points at which another thread can
interfere: taking a lock, or calling out. Actions are named after the functions
they come from (`list_append_child`, `pipeline_deleter_stop`, `state_update`,
`create_ref_lookup`, ...). A stretch with no shared access in the middle is one
step. GStreamer is external: `set_state` succeeds or, with `Faults`, fails.
The element's states are NULL and PLAYING: the other two differ for no property.

What clients do is a parameter: `Api` is the set of commands in use and
`Contract` says whether a client stops and deletes only what it started.
`Tally` counts what clients hold, by the answers they got: this is a history
variable that the refcount is compared with.

### SignalReader

One signal of an element. Readers (request threads) connect a closure, sleep on
the condition variable, take the callback; emitters (streaming threads) run the
closures that were connected when the emission began. All readers share the
waiting flag, the callback pointer and the lock, and the marshaller writes the
pointer without the lock, so that write is a step of its own. The read that holds
the lock to return takes and clears the pointer in two steps, for the same reason.

### GstcConnection

Threads of an application share a `GstClient`; every connection has a worker in
the daemon. Connections are numbered; a number is not used again, although the
kernel gives out a descriptor again once it was closed. Every step that reads
`self->socket` is an action of its own, in `open_socket` too (`create_new_socket`,
`check_socket`, `set_buffer`, `connect_socket`), since another thread may have put
its own descriptor there; so are send, the two reads for poll and recv, and close.

Requests go up in pieces (`up`). A read of the daemon takes any number of the
pieces there are for one command: a part of a request, or several run together
(`socket_callback_read`). Its one write of the answer may be short, and the rest,
terminator included, is then never sent (`socket_callback_write`, `cut`). What was
written is on its way (`wire`) until the network delivers some of it (`deliver`,
`down`). A recv returns any number of chunks that are there and waits, without a
limit, where there are none. The answer is what comes before the first
terminator, and parses only if it is one whole answer. A read of 0 bytes makes the
code look at the byte before its buffer: the model takes both outcomes. Bytes sent
to a peer that is gone are lost or refused. (A signal the application did not ask
to ignore may end it there: that is outside the model.) A recv on a descriptor that
another thread closes fails or stays where it is. The answer's length limit is
`MaxResponse`, in chunks.

### HttpServer

The main thread of libsoup, its callback, the fast paths (`/health`,
`/pipelines/status`, `/pipelines/clock_sync` with its loops over targets and over a
target's elements), the thread pool with its queue and
its workers, and the stop. libsoup and GLib's pool are external: a message that is
not paused is written by the main thread; a push queues the request in any case
and reports whether a thread it needed could be started. Commands are `delete`,
which holds the pipeline list's lock while it stops its pipeline, `other`,
which holds it only for a lookup, and requests `refused` before they reach the
parser. A `bad_sync` is answered like `/health`, on the spot, and so is left out
of the runs.

### Daemon

Invocations of `gstd` on one machine: in the foreground, with `-e`, or with `-k`.
Each is a process, a daemon's child another one. Processes meet in the pid file
(`pidfile`), the addresses they listen on (`bound`) and the files of UNIX sockets
(`file`). One action is what a process does between two points at which another
one or a signal can come in between: `main` up to its decision, the check of the
pid file, the fork, the creation of the file and the word to the parent, each
`gstd_ipc_start`, the signal handlers, each `gstd_ipc_stop` (with the disposal that
follows it), `gstd_free`, exit. `hold` and `sess` are the IPCs' references to the
session and its count. With `Faults` the log files, the pid directory and the fork
may fail; `MaxCrash` processes may be killed from outside. A `Worker` is a thread
that serves a connection, and `busy` while it runs a command on the session. A wait
with a time limit (20 seconds for the child's word, 5 for a kill) may end at any
time. What a process tells the shell is left out: nothing else depends on it.
libdaemon, the kernel and GIO are external.

### PipelineBus

The bus of one pipeline. `gstc_pipeline_bus_wait` is the filter, the timeout and the
thread that sends the read; the caller locks, looks at `waiting`, sleeps on the
condition variable (which may wake it without a signal); the thread's callback
stores the answer under the mutex and signals. On the daemon's side the read takes
the timeout and the filter from the shared object one after the other, then pops,
or flushes if the filter is empty. A failed state change (`Changer`) pops errors
from the same bus. `setBy` and `own` are history variables: the wait that wrote the
settings last, and whether the read found the wait's own. A waiter in `Unlucky` may have
no memory for its requests, have them refused or its thread not started. Its thread
may have no memory for the read and return without calling back (*gone*), wait
forever in a read that has no limit (*unanswered*), or have the read fail, which
leaves `response` uninitialised: the program goes on or dies.

### Json, Resources, Operations, Documents, Commands, ControlPlane

The path of a call. `Commands` has one operator per function of `libgstc.c` (the
lines it sends and how it reads the last answer), one per command of the parser
(what it is rewritten to) and one per HTTP method. `Resources` is the tree of
objects, their GObject properties and lists; `Operations` the readers, creators,
updaters and deleters; `Documents` the `to_string` functions; `Json` the builder's
tokens and the client's reader. `ControlPlane` runs them for several clients: a
call is sent, the daemon's thread *resolves* the URI to a node and holds it,
*operates* on it, *answers* from what is there by then, and the client *receives*,
going on to the next line only after a success.

`world` is the session's content: the list of ids, every pipeline ever built (a
request may still hold a deleted one) and the debug settings. `Envs` is what
GStreamer may do in one request: accept, accept and finish later (`settle`), refuse
and stop in some state, have a message ready or not, resync an iterator. A text
is a sequence of words; a document a sequence of tokens; the spelling of numbers
is a function (`Number`), so that `0x5` is stored and shown as `5`. `gstd_list_to_string`
prints the names of nodes between quotes as they are (`print_name`): a name in
`Unquotable`, one with a quote in it say, comes out as a token that no reader accepts,
where the builder's strings are escaped. The four counted commands look up several
times, under locks of their own: they are PipelineRegistry's and none of the calls here
(`Counted`, `ControlAssumption`), so the refcount that a text shows is some number.

### ResourceStore, and what implements it

The promise of daemon and client library together. A call is a sequence of
operations; each is bound to the pipeline that has its name at one instant, takes
effect at one later instant, and returns a result; the call succeeds exactly if
all of them did; a failure has a cause (not there, no sense, GStreamer refuses)
and changes nothing, except that a refused change of state may stop half way.

`ControlPlane!Implements` is `Store!Spec` with `store <- world` and `pend` computed by
`Seen` from a client's phase: `sent` is *called*, `found` is *bound*, and an operation
counts as *applied* as soon as the daemon has done it, with the result that the
client will read from the answer once it is written. So the property says that
the answer, built later from a state others have changed, still tells the truth
about the operation, and that the conversions on the way (words to values, values
to JSON, JSON to the client's string) lose nothing. Four promises are as weak as the code
makes them: `try_set` (gstc_element_set ignores its answer, HTTP answers a bad value
with 204), the two `drop`s, and the reading of a list, which fails as long as the list
holds an unquotable name.

### MC modules and proof modules

The modules with the prefix MC name the model values the configurations use;
`MCControlPlane` also pairs every call with the operations it stands for.
`PipelineRegistryProofs`, `RefCountProofs`, `PipelineBusProofs`, `SignalReaderProofs`,
`GstcConnectionProofs`, `HttpServerProofs`, `DaemonProofs` and `ControlPlaneProofs` hold the
theorems.

In every module some small operators come in two forms, the code's and a faulty
one (marked so): the specification uses the code's; the faulty one states what
mistake the properties would catch.

## 3. Runs

| Run | Checks | Shows |
|---|---|---|
| `reg_refs` | RefcountMatchesClients, RequestsReturn | create_ref, delete_ref and play_ref with failures: whenever no request holds the session lock a pipeline's refcount is the number of references clients hold; session, list and pipeline locks keep no request forever |
| `reg_play` | PlaysWhilePlayed, StoppedAtZero | three threads, the four `_ref` commands, clients that keep to the contract: a pipeline plays exactly while someone plays it |
| `reg_mixed` | TypeOK, UniqueNames, PipelineRefsExact, StateRefsExact | any mix of the eight commands: no duplicate names, no use after free, no leak |
| `reg_stop_zero` (violation) | StoppedAtZero | delete_ref and create_ref between the lookup and the lock of play_ref and stop_ref: a play refcount of 0 on a playing pipeline |
| `sig_reads` | TypeOK, HandedOutOnce, SignalEndsRead, TimedReadEnds | two readers, an emitter, timeouts and a disconnect: no callback is handed out twice, a lone reader's wakeup is not lost, timed reads end |
| `conn_calls` | TypeOK, NothingLeftOpen, OwnAnswer | one thread, requests read in pieces, writes cut short, a daemon that may die: an answer the thread gets is to its own request, and a call closes what it opened |
| `conn_shared` | CallsReturn | a call with a wait time beside a bus thread without one: it returns whether or not the daemon answers, as long as the daemon lives, writes whole answers and the threads keep off each other's descriptors |
| `conn_death` (violation) | WaitTimeKept | the daemon dies: the client may loop forever on a read of 0 bytes |
| `http_serve` | TypeOK, PendingServed, MessagesAnswered, StopEnds, FastAnswered | stop serves what is pending and returns; messages are answered although threads may fail to start; the fast paths do not depend on the pool |
| `daemon_life` | TypeOK, OneDaemonUnkilled, SessionBalanced, HttpSessionAlive, NoPathLeft, Settles | a daemon beside another one, a foreground gstd or a kill, any failing or killed at any step: see the properties |
| `bus_wait` | TypeOK, StackAlive, AskedFor, WaitEnds | two programs wait on one bus, with missing memory, refused requests, a flush, a failing state change and a deletion |
| `control` | TypeOK, RepliesWellFormed, Implements | any one of 99 calls while another client creates, deletes, plays and sets on the same names, or creates a name with a quote: refinement of ResourceStore |

Each violation contradicts a comment or a document of the repository, quoted in
`PROJECT.json` under findings.

Thirteen more configurations are kept beside the runs. TLC refutes each, and the
counterexample is the reason why the run's property is stated more narrowly:

| Configuration | Module | Refuted | Why |
|---|---|---|---|
| `conn_late.cfg` | MCGstcConnection | OwnAnswer | on a kept connection the late answer to a call that timed out is taken for the next call's (`libgstc.h:52-54` promises that such transactions are handled) |
| `conn_split.cfg` | MCGstcConnection | OwnAnswer | a request on a kept connection is read in two pieces: each is answered, and the second answer is taken for the next call's (`gstd_socket.c:137`) |
| `conn_short.cfg` | MCGstcConnection | WaitTimeKept | the daemon's one write is short: the call has its first bytes, and waits for the terminator in a recv that has no time limit (`gstd_socket.c:177`, `libgstc_socket.c:156`) |
| `conn_mixed.cfg` | MCGstcConnection | WaitTimeKept | the bus thread replaces `self->socket` while a call is in `open_socket`: both use one descriptor, which one closes while the other waits in recv (`libgstc_socket.c:77`) |
| `http_health.cfg` | MCHttpServer | HealthAnswered | behind a hanging deletion a status request blocks the main thread on the list's lock, and with it the health check (`gstd_http.c:517-518`, `606-611`) |
| `http_push.cfg` | MCHttpServer | ServedNotFreed | `g_thread_pool_push` keeps the request although it reports a failure; the callback frees it and a worker serves it later (`gstd_http.c:1081`) |
| `bus_types.cfg` | MCPipelineBus | ReceivesAsked | another client's filter is in force by the time of the read: a wait for eos returns an error (`libgstc.h:574`) |
| `bus_lost.cfg` | MCPipelineBus | TimedWaitEnds | the bus thread has no memory for its request and returns without the callback, or its read is never answered: a wait with a timeout sleeps forever (`libgstc.c:923-929`; `libgstc.h:574`) |
| `daemon_twice.cfg` | MCDaemon | OneDaemon | a kill that times out removes the pid file of a daemon that runs on, and the next start is not refused (`gstd_daemon.c:112`) |
| `daemon_paths.cfg` | MCDaemon | PathsReachable | a process that fails to start, or ends, unlinks paths that another one serves |
| `daemon_stop.cfg` | MCDaemon | SessionAlive | `gstd_socket_start` keeps its service in a local variable, `gstd_socket_stop` finds none: a socket's worker runs a command on the freed session |
| `cmd_told.cfg` | MCControlPlane | FailureTold | `gstc_element_set` returns GSTC_OK whatever the daemon answered |
| `cmd_list.cfg` | MCControlPlane | AnswersParse | `gstd_list_to_string` does not escape: after the creation of a pipeline named `a"b` the list of pipelines is no JSON for anybody (`gstd_list.c:319`) |

Where a property is stated narrowly the code is the reason:

- `SignalEndsRead` is about a reader on its own. With two, `g_cond_signal` may wake
  the one whose closure did not run, and a new read sets the shared waiting flag
  before the one that was woken looks at it. The same happens to a reader that
  a disconnect woke.
- `OwnAnswer` is checked of one thread: on a connection per call with requests that
  may be split, and on a kept connection without a wait time whose requests the daemon
  reads whole. TCP does not promise the latter; without it the property fails
  (`conn_split`), with a wait time it fails (`conn_late`), and so it does when the thread
  of an asynchronous bus wait shares a kept connection.
- `CallsReturn` is what is left of the wait time that `libgstc.h:51` promises: it needs a
  daemon that lives (`conn_death`), whole writes (`conn_short`) and threads that keep off
  each other's descriptors (`conn_mixed`).
- `WaitEnds` leaves out a bus thread that never calls back (`bus_lost`) and a read
  without a limit that waits for a message.
- `Settles` is about commands that end: `gstd_http_stop` waits for its workers, and a bus
  read with the default timeout of -1 need not end, so a terminated gstd may stay.
- `PlaysWhilePlayed` and `StoppedAtZero` need clients that keep to the contract, and
  only the `_ref` commands in use. Without the contract see `reg_stop_zero`. A state
  update that looked its state up before a deletion can also start the
  pipeline after it.
- `AskedFor` is about reads that found the waiter's own filter and timeout.
- `OneDaemonUnkilled` is about instances without a kill, `HttpSessionAlive` about
  HTTP workers.
- `RepliesWellFormed` leaves out the read of an element: `gstd_element_to_string`
  cuts the last bracket of its parent's text off and pastes a whole object
  behind, which is not JSON. It also leaves out texts with an unquotable name in
  them (`cmd_list`).
- `Implements` has no counted calls: `play_ref` and the others resolve a name, lock and
  resolve it again, and `reg_stop_zero` shows that they may start one pipeline and
  count another.
- `Implements` is checked with as many resyncs of the element scan as
  `gstd_pipeline_fill_elements` allows. After one more it gives up, and
  the creation still succeeds, with elements missing.
- `StopEnds` excludes a pool with requests and no thread: `g_thread_pool_free` then
  waits for a thread that was never started.

### Bounds

- Registry: two or three threads (the interference found needs at most three) and
  two places for pipelines under one name, so that a name and its memory are
  reused after a disposal. `MaxRefs` bounds the references clients hold and
  `MaxStateRefs` the times they play: 2 is the least at which a count can be
  wrong without being 0 or 1. The proofs are about any sets.
- Signals: up to three reads, two emissions and one disconnect: an emission can
  overlap the end of one read and the beginning of the next.
- Connections: one thread with three calls or two with one each, two connections,
  requests of up to two pieces and answers of up to two chunks (of which the client's
  limit is three): a leftover of one call can meet the next two, a recv can get the end of
  one answer with the beginning of another, and each thread can have a descriptor.
- HTTP: three messages, two workers, so that one can be served, one queued and one
  on the main thread; one target of a clock_sync.

- Daemon: two invocations, the second with any of four command lines, two
  addresses that they share or not, one worker, one kill from outside: a
  start can fail at its first or at its second listener, before or after the
  other's. `daemon_twice.cfg` needs three invocations.
- Bus: two waiters, one of which may be unlucky, one failing state change at a time, two
  messages of two types: a message can match one waiter and not the other.
- Control: client `a` makes one call, `b` two; the pipeline `p` exists at first
  and `q` does not. A delete and a create by `b` fit between any two steps of
  `a`'s call, so `a` can hold a pipeline whose name another one has. Four
  environments; one resync (`MaxResync`). Texts are looked into eight levels deep (`Nesting`);
  the daemon's nest four (an answer, its object, the array of properties, one property, its
  parameters).

Deadlock is checked in the registry's runs. The others stop when their bounds are
used up, so there liveness properties take its place (SignalEndsRead,
TimedReadEnds, CallsReturn, StopEnds, MessagesAnswered, Settles, WaitEnds). `control`
is about safety only: a call that never returns refines the store as well.

### Fairness

Threads that can take a step are scheduled: weak fairness of each thread's steps.
No client has to send anything, and no signal has to be emitted. `RequestsReturn`
says that the requests return once no new ones come, so that no fairness of the
mutexes is needed. `CallsReturn` has no fairness of the daemon's workers, which may never
answer: only the caller's steps are fair, the expiry of a poll that has a time limit
included, and the network, which delivers what was written. In HttpServer
only the main thread is fair, and a bin does not change forever while `clock_sync` goes
through it. `MessagesAnswered` and `StopEnds` assume in addition
that commands end (`CommandsEnd`), which a bus read without timeout does not;
`FastAnswered` assumes only that the list's lock becomes free again and again.

In Daemon every process takes its steps; that a command a worker runs ends is a condition of
`Settles` (`CommandsEnd`). Clients need not send anything, and nobody has to kill or interrupt. A wait with a time limit ends,
so no fairness is asked of the child. In PipelineBus the
caller is weakly fair and the bus thread strongly: wake-ups without a signal can take
the mutex again and again, but a thread that waits for it gets it in the end.

## 4. Proofs

Of the registry, for any sets of threads, names, descriptions and places:

- `TypeCorrect`: the registry is well typed; the refcounts do not go below zero.
- `NamesUnique`: no two listed pipelines have the same name, and the count is the
  length of the list.
- `PipelineRefsCounted`: the GObject count of a pipeline is the number of its
  holders (the list, and the threads' pointers): it is not disposed while someone
  can reach it, and is disposed when no one can.
- `StateRefsCounted`: the same for the state object, which a command may still use
  after its pipeline is gone. With `Faults` the count may be too high (a deletion
  whose stop failed keeps its reference), never too low.
- `RefcountIsExact`, when clients use only the reference counted create and
  delete: the refcount of a pipeline is the number of references clients hold,
  whenever nobody holds the session lock.
- `PlaysMatchClients`, when clients also keep to the contract and elements change
  their state when told (`ByContract`): a pipeline that no play_ref or stop_ref is
  busy with plays exactly while clients hold play references, and the refcount of
  its state is their number.
- `ZeroStops`, under the same hypothesis: a play refcount that becomes 0 does so on a
  pipeline that was stopped. `reg_stop_zero` shows that the contract is needed.

None of these is inductive. The invariant of `PipelineRegistryProofs` adds to
types, uniqueness and counts:

- *Control*: where a thread is determines which pointers it has (`Pointing`), which
  locks it holds (`Locking`) and what its command stack looks like (`Placed`);
- *Exclusive*: a pipeline a creator has not yet listed has one holder;
- *FoundListed*: what a deletion has found under the list lock stays listed until
  it removes it;
- *CreatedName*: a new pipeline carries the name its command gave.

Uniqueness of names needs that the check and the append happen under one lock;
the counts need that every pointer a thread can use is one of the counted ones,
which is what Control says. `RefCountProofs` adds `Stage`, which says for every
place in create_ref and delete_ref by how much the count and the clients'
bookkeeping differ for the thread that holds the session lock, and that they
agree for every name it is not about. Each proof has a lemma per action.

The state's count is proved from that invariant by its `Slack`, the count less the
pointers to it and the pipeline's own reference: no step changes it but a failed stop
in a deletion, which raises it, and only with `Faults`.

`PlayInv` of the same module is what the refcounts of plays need on top of both. The lookup
of a play_ref or stop_ref is made before the pipeline's lock is taken, so that a
deletion may come in between; *Kept* says why it does not under the contract: the
creation references of a name cover the deletions under way, and one more while the
name is played or being played or stopped, so its pipeline stays listed. *Aimed*
follows: threads inside play_ref and stop_ref point to the one pipeline listed under
their name. *Counted*: its refcount is the number of play references, but for the
threads that have counted and not yet answered. *Midway* says what the holder of the
lock has found and done at each place between reading the count and writing it,
*Steady* that outside of that a pipeline plays exactly while its count is not 0, and
*Fresh* that a pipeline starts stopped with a count of 0.

Assumptions: those of `PipelineRegistry` on its constants; `RefsOnly` (of the
creations and deletions only create_ref and delete_ref are in use, and of the state
changes only play_ref and stop_ref) for `RefcountIsExact`; `ByContract` (`RefsOnly`,
`Contract` and no `Faults`) for the last two, which is the instance of `reg_play`.

Of the bus wait, for any number of waiting programs and failing state changes, any
message types and any bounds on posts and waits:

- `BusTypeCorrect`: the bus, its readers and the waits are well typed, and the
  mutex of a wait is held by whom the code has it held.
- `FrameAlive`: the bus thread never runs after the wait has returned, so its
  callback never writes into a stack frame that is gone.
- `AnswersAsked`: a wait whose own settings were in force when its read was served
  returns what it asked for.

The invariant of `PipelineBusProofs` has four parts for each wait. *Sync*: the
thread runs only while the caller waits, and `waiting` is 1 until the thread has
answered; with the mutex, which a caller that looks at `waiting` and a thread that
has cleared it cannot both hold, this is why the caller does not return between the
store and the unlock. *Settings*: a filter or timeout last written by this wait is
what it asked for. *Snapped*: so are the worker's copies, if it found both its own,
from the moment it takes each. *Result*: the status and the reply belong together
and fit what was asked, from the answer to the return. A step of one wait touches
another only through the shared settings, which then are no longer the other's
(`Alone`): so each action is proved for the wait it is of, and `OneStep` does the
rest. `WantsAssumption` and `BusAssumption` are all that is assumed; that no message
type is called like one of the other replies is one of them.

Of the signal reader, for any number of reading and of emitting threads:

- `ReaderTypeCorrect`: types, and that the lock is held by the read about to return.
- `CallbackHandedOutOnce`: no callback is returned by two reads.

`ReaderInv` adds that a read has something to return only while it has the lock
(*OutWhileLocked*), that emissions have numbers of their own and run each closure once
(*EmissionsApart*), and that every callback that is in the pointer, with a read or with a
client was made and is not made again (*Made*). The marshaller writes the pointer without
the lock: the proof shows that this can lose a callback but not duplicate one.

Of the client's connections, for any number of threads, calls, connections and chunks,
whether or not the daemon dies:

- `ConnTypeCorrect`: types, and that what a thread has accumulated has no end yet.
- `CallsTidyUp`, for a client that one thread uses (`OneCaller`): a call leaves no
  connection open.
- `OwnAnswerGot`, for a client that one thread uses (`OneCaller`): a call gets an answer to
  bytes of its own request or an error. If the client keeps its connection, this needs that
  it waits for its answers, that they fit and that its requests are read whole (`Patience`).

`TypeInv` adds that a thread that is in a call has begun one; `Tidy` that what a client without
a kept connection has open is at most what `self->socket` says. `OwnInv` has two cases. With a
connection per call all that is on the connection (pieces, command, chunks on their way and
arrived) and all that was accumulated is of the call that opened it (*Labelled*), whatever its
order and however much was lost, since a new connection starts with nothing (*Ahead*).
A kept connection has nothing on it between calls (*Quiet*) and at most one request or
the rest of its one answer during one (*One*), of which the terminator is the last
(*Ends*): so what is read up to the terminator leaves nothing. That is what a call that
gives up, or a request that is read in two pieces, breaks: `conn_late.cfg` and
`conn_split.cfg` refute the property without `Patience`. With two threads both properties of
one thread are false.

Of the HTTP server, for any number of messages and workers:

- `HttpTypeCorrect`: types, and who holds the lock of the list across steps.
- `AllResumed`: once the pool is gone no message is left paused.

`HttpInv` adds who is to resume a paused message, the callback that has yet to push it, the
queue or a worker (*Pending*), and that a pool that was freed has an empty queue and no worker
at work (*PoolFreed*). Its lemmas say what a queue holds after a push and after a pop.

Of the processes, for any number of invocations, addresses and threads, any command lines,
faults and crashes:

- `DaemonTypeCorrect`; `OneDaemonRuns`: unless somebody kills, one daemon runs at most.
- `SessionInBalance`: the session's references are main's and those of the IPCs that run.
- `HttpHasSession`: a command of the HTTP server has a session.
- `PathsRemoved`: a process that ends by itself leaves no socket path.

`DaemonInv` says which process may be in which stage of main (*Stages*, *Unborn*), which
IPCs have a reference and which are yet to be started or stopped (*Refs*), whose an HTTP
server and its workers, a path and the pid file are (*HttpOwned*, *PathOwned*, *FileOwned*).

Of the path of a call, for any clients and calls, descriptions, element classes with their
properties, signals, actions and children, and any answers of GStreamer:

- `ControlTypeCorrect`: every request ends with a code of the protocol and has a line to be
  served until then; the listed pipelines are there, each listed once.
- `RepliesAreDocuments`: every answer is a JSON document, but for the text of an element and
  for one into which a name was printed that has to be escaped.

The invariant `Inv` of `ControlPlaneProofs` has three parts. *Sound*, of the session's
content: the lists of an element hold what its class has, every element has its three lists,
and every property a list shows has a value to be read (*IsPipe*); without it a `to_string`
could meet a property it has no text for. *Placed*, of the node a request holds between its
steps: what it stands for is there, although the pipeline may have been deleted since it was
resolved; it survives the steps of others because a pipeline that was built stays, with the
lists of the same elements, for whoever holds it (*Later*). *Told*, of an
answer: nothing or a document is written, unless an element is read; it needs to know which
nodes a create or an update can succeed on (*Worked*), since the parser reads those back.

A document nests texts in texts, so `IsDocument` looks into a text some levels deep
(`Nesting`). The proof is about every depth: `Doc(text)` says that the text is in some set of
texts of the right shape (`Shaped`: well formed but for names that were not escaped) that has, with each of them, all the texts in it (*Closed*). Every
`to_string` function has a lemma that gives such a set for its result from those of its parts:
objects from members (*Pairs*), arrays from items (*Items*), and the cut-and-paste of
`gstd_list_to_string` and `gstd_object_to_string`. TLAPS cannot use the induction theorems of
its library, which take a predicate as a parameter; the lemmas `Least` and `Induct` state
induction as a fact about a set of numbers, and the few properties of recursive functions and
of accumulated texts that are needed (`fill_child_properties` down the tree of children, say)
are proved with the set of numbers for which they hold.

The invariants were checked with TLC on small instances before they were proved, except that
of `ControlPlaneProofs`, whose *Doc* quantifies over all sets: of it TLC has checked what the
theorems conclude. Assumed are the constants' assumptions in the modules
(`ResourcesAssumption` has it that no object is its own descendant and that classes are
finitely many, `ControlAssumption` that clients send words and no counted commands, and that
the pipelines that are there at first have names of their own), and where they are named
`RefsOnly`, `ByContract`, `OneCaller` and `Patience`; nothing else.

Only model-checked: all liveness properties (TLAPS has no support for fairness that fits
here), and `Implements`, the refinement of ResourceStore: which operations a call stands for
is given by the constant `Offers`, so it is a fact about the pairing in `MCControlPlane` of the
99 calls with their operations and not about every value of the constants.

## 5. What the models brought to light

Beside the findings and the refuted configurations above, while the code was
translated:

- `libgstc.c:58` spells the command `pipeline_crete_ref`: `gstc_pipeline_create_ref`
  never succeeds.
- `gstc_bus_thread` passes `response` on uninitialised if the read fails before it is set.
- `gstc_client_debug` sends the reset last, so it takes effect with the next threshold
  only (`libgstc.h:184`).
- `event_seek` and `event_flush_stop` without arguments send the word `(null)` and are
  refused, although their defaults are documented.
- `gstd_object_delete_default` answers success and deletes nothing; a list whose deleter is
  `gstd_no_deleter` unlinks the child all the same, so elements and properties can be
  removed from the daemon's lists.
- an update of a property without a writer succeeds and changes nothing; an array
  property of a child cannot be updated.
- the HTTP server answers a bad value with 204.
- a state change that found its state before a deletion plays the deleted pipeline.
- `gstd -k` exits with success whatever `gstd_daemon_stop` returned (`gstd.c:160-165`), and
  the parent of a daemon is told that it started before its servers are.
- an update of a list's count accepts any text (`gstd_property_int_update`) and changes
  nothing.
- a plain deletion between the creation of `pipeline_create_ref` and its second look-up
  makes it fail after it created (`gstd_parser.c:1023-1039`).

## 6. Not modelled, and the plan

Left out: the text of logs and of error messages, json-glib's layout, the arguments of
a seek after its rate, CORS headers, the clock that `clock_sync` copies, the
deep-notify printer of `pipeline_verbose`, bytes and buffer sizes (a command is a
line; `gstd_socket.c:152`, which terminates a full buffer one byte past its end, is
listed as a hazard without a property). The classes of `gstd_property_boolean.c`,
`_enum.c`, `_flags.c` and `_string.c` are never instantiated, `_int.c` only for the count of a
list. `gst_client` is an
interactive loop over one connection; the Python and JavaScript clients send the
same lines as the C client.

Plan:

1. Proofs: the refinement of ResourceStore, after `Offers` is replaced by a definition that
   derives the operations of a call from its function and arguments.
2. An abstract request and answer channel that GstcConnection implements for one
   patient thread, and PipelineBus composed with it.
3. `gst_client`, with the sessions it opens and leaves open.
