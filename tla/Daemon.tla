------------------------------- MODULE Daemon -------------------------------
(***************************************************************************)
(* The life of gstd processes on one machine: gstd/gstd.c, gstd_daemon.c   *)
(* and the start and stop of the IPCs in libgstd.c, gstd_ipc.c,            *)
(* gstd_socket.c, gstd_tcp.c, gstd_unix.c and gstd_http.c.  An invocation  *)
(* of gstd serves in the foreground, forks a daemon, or kills the one the  *)
(* pid file names.  Processes meet in the pid file, in the addresses they  *)
(* listen on and in the files of UNIX sockets.  libdaemon, the kernel and  *)
(* GIO's threads are external.                                             *)
(***************************************************************************)
EXTENDS Integers, Sequences, FiniteSets, Functions

CONSTANTS
  Inv,        \* invocations of gstd
  Option,     \* Option[i]: the command lines i may have: [mode, ipcs, addr]
  Addr,       \* the addresses of an instance: a base port, a base path
  Worker,     \* threads that serve connections
  NoProc,     \* nobody
  Faults,     \* whether logs, pid directory and fork may fail
  MaxCrash    \* how many processes may be killed from outside

Kind == {"tcp", "unix", "http"}

ASSUME OptionAssumption ==
  \A i \in Inv : \A o \in Option[i] :
    /\ o.mode \in {"front", "daemon", "kill"}
    /\ o.ipcs \subseteq Kind
    /\ o.addr \in Seq(Addr) /\ o.addr # <<>>
ASSUME FaultsAssumption == Faults \in BOOLEAN /\ MaxCrash \in Nat

\* The place of an IPC object in the array, and the one a loop that has ks left comes to next;
\* it does nothing for the others.
Place == [tcp |-> 0, unix |-> 1, http |-> 2]
NextIpc(ks) == {k \in ks : \A j \in ks : Place[k] <= Place[j]}

\* The process the shell started, and the one it forked.
Proc == Inv \X {"parent", "child"}
Child(p) == <<p[1], "child">>
ASSUME NoProcAssumption == NoProc \notin Proc

VARIABLES
  opt,      \* opt[i]: the command line of i
  pc,       \* where a process is in main
  todo,     \* the IPCs that the loop of gstd_start or gstd_stop has left
  enabled,  \* the IPCs with "enabled" set
  failed,   \* an IPC could not be started
  hold,     \* the IPC objects with a reference to the session
  sess,     \* references to the session
  bound,    \* bound[<<k, a>>]: the process that listens there
  file,     \* file[a]: the process whose socket the path names
  pidfile,  \* the process the pid file names
  term,     \* processes with a SIGTERM or SIGINT to handle
  worker,   \* worker[w]: the process and the IPC w serves, and whether a command runs
  crashed   \* processes that did not end by themselves

vars == <<opt, pc, todo, enabled, failed, hold, sess, bound, file, pidfile, term, worker,
          crashed>>

os == <<bound, file, pidfile>>
ipc == <<enabled, failed, hold, sess>>

Mode(p) == opt[p[1]].mode
Alive(p) == pc[p] \notin {"none", "dead"}
Idle == [proc |-> NoProc, kind |-> "tcp", busy |-> FALSE]

Goto(p, l) == pc' = [pc EXCEPT ![p] = l]

Labels == {"none", "new", "check", "fork", "wait", "create", "select", "start", "handlers", "run",
           "kill", "killwait", "remove", "stop", "free", "exit", "dead"}

TypeOK ==
  /\ \A i \in Inv : opt[i] \in Option[i]
  /\ pc \in [Proc -> Labels]
  /\ todo \in [Proc -> SUBSET Kind]
  /\ enabled \in [Proc -> SUBSET Kind]
  /\ failed \in [Proc -> BOOLEAN]
  /\ hold \in [Proc -> SUBSET Kind]
  /\ sess \in [Proc -> 0..4]
  /\ bound \in [Kind \X Addr -> Proc \cup {NoProc}]
  /\ file \in [Addr -> Proc \cup {NoProc}]
  /\ pidfile \in Proc \cup {NoProc}
  /\ term \subseteq Proc
  /\ worker \in [Worker -> [proc : Proc \cup {NoProc}, kind : Kind, busy : BOOLEAN]]
  /\ crashed \subseteq Proc

-----------------------------------------------------------------------------
(* libdaemon's pid file *)

Running == pidfile # NoProc /\ Alive(pidfile)

\* A file that names a process that is gone is removed on the way.
pid_file_is_running == pidfile' = IF Running THEN pidfile ELSE NoProc

-----------------------------------------------------------------------------
(* main, up to the decision what to do *)

\* The end of main begins with gstd_stop on the IPC objects that are left.
Leave(p) == Goto(p, "stop") /\ todo' = [todo EXCEPT ![p] = enabled[p]]

\* The first session_new of a process makes the session and returns the only reference.
session_new(p) == sess' = [sess EXCEPT ![p] = 1]

\* The option groups of the IPCs write the command line's flags into them.
context_add_group(p) == enabled' = [enabled EXCEPT ![p] = opt[p[1]].ipcs]

gstd_new(p) == session_new(p) /\ context_add_group(p)

\* Only a daemon opens log files, and only a daemon and a kill need the pid directory.
log_init_fails(p) == Faults /\ Mode(p) = "daemon"
daemon_init_fails(p) == Faults /\ Mode(p) # "front"

main(p) ==
  /\ pc[p] = "new"
  /\ gstd_new(p)
  /\ \/ /\ \/ Mode(p) = "front" /\ Goto(p, "select")
           \/ Mode(p) = "daemon" /\ Goto(p, "check")
           \/ Mode(p) = "kill" /\ Goto(p, "kill")
        /\ UNCHANGED todo
     \/ /\ log_init_fails(p) \/ daemon_init_fails(p)
        /\ Goto(p, "stop")
        /\ todo' = [todo EXCEPT ![p] = opt[p[1]].ipcs]
  /\ UNCHANGED <<opt, failed, hold, os, term, worker, crashed>>

-----------------------------------------------------------------------------
(* gstd_daemon_start *)

daemon_start(p) ==
  /\ pc[p] = "check"
  /\ pid_file_is_running
  /\ IF Running THEN Leave(p) ELSE Goto(p, "fork") /\ UNCHANGED todo
  /\ UNCHANGED <<opt, ipc, bound, file, term, worker, crashed>>

\* The child begins with a copy of what the parent has.
daemon_fork(p) ==
  /\ pc[p] = "fork"
  /\ \/ /\ pc' = [pc EXCEPT ![p] = "wait", ![Child(p)] = "create"]
        /\ sess' = [sess EXCEPT ![Child(p)] = sess[p]]
        /\ enabled' = [enabled EXCEPT ![Child(p)] = enabled[p]]
        /\ UNCHANGED todo
     \/ Faults /\ Leave(p) /\ UNCHANGED <<sess, enabled>>
  /\ UNCHANGED <<opt, failed, hold, os, term, worker, crashed>>

\* A faulty variant: the file of another daemon is written over.
FileIgnored == FALSE
FileTaken == pidfile # NoProc

\* daemon_pid_file_create fails where there is a file.
daemon_start_child(p) ==
  /\ pc[p] = "create"
  /\ IF FileTaken
       THEN Leave(p) /\ UNCHANGED pidfile
       ELSE pidfile' = p /\ Goto(p, "select") /\ UNCHANGED todo
  /\ UNCHANGED <<opt, ipc, bound, file, term, worker, crashed>>

\* The parent leaves with the child's word, or with none: the child has died, or 20 seconds
\* are over.  Nothing but its exit status depends on that.
daemon_start_parent(p) ==
  /\ pc[p] = "wait"
  /\ Leave(p)
  /\ UNCHANGED <<opt, ipc, os, term, worker, crashed>>

-----------------------------------------------------------------------------
(* gstd_start *)

Selected(p) == IF enabled[p] = {} THEN {"tcp"} ELSE enabled[p]

gstd_start(p) ==
  /\ pc[p] = "select"
  /\ enabled' = [enabled EXCEPT ![p] = Selected(p)]
  /\ todo' = [todo EXCEPT ![p] = Selected(p)]
  /\ Goto(p, "start")
  /\ UNCHANGED <<opt, failed, hold, sess, os, term, worker, crashed>>

\* The listeners added before the first address that is in use.
Added(as, used) == {as[n] : n \in {m \in DOMAIN as : \A l \in 1..m : as[l] \notin used}}

Listening(k) == {a \in Addr : bound[<<k, a>>] # NoProc}

\* One listener per port from the base port on; after a failure those before it stay.
tcp_create_socket_service(p) == Added(opt[p[1]].addr, Listening("tcp"))

\* The same for paths.  A path that exists is in use, whoever made it.
unix_create_socket_service(p) == Added(opt[p[1]].addr, {a \in Addr : file[a] # NoProc})

\* One listener; after a failure nothing is left of the server.
HttpAddr(p) == SubSeq(opt[p[1]].addr, 1, 1)
http_start(p) == Added(HttpAddr(p), Listening("http"))

\* What the class of an IPC is to listen on, and does after its start.
Wanted(p, k) == IF k = "http" THEN HttpAddr(p) ELSE opt[p[1]].addr
ClassStart(p) ==
  [tcp |-> tcp_create_socket_service(p), unix |-> unix_create_socket_service(p),
   http |-> http_start(p)]

\* The service that a socket starts is in a local variable only: listening is all that is
\* known of it afterwards.
class_start(p, k) ==
  LET got == ClassStart(p)[k]
  IN /\ bound' = [ka \in Kind \X Addr |-> IF ka[1] = k /\ ka[2] \in got THEN p ELSE bound[ka]]
     /\ file' = [a \in Addr |-> IF k = "unix" /\ a \in got THEN p ELSE file[a]]
     /\ failed' = [failed EXCEPT ![p] = @ \/ got # Range(Wanted(p, k))]

\* The reference to the session is taken before the class is asked to start.
ipc_start(p) ==
  /\ pc[p] = "start"
  /\ \E k \in NextIpc(todo[p]) :
       /\ todo' = [todo EXCEPT ![p] = @ \ {k}]
       /\ hold' = [hold EXCEPT ![p] = @ \cup {k}]
       /\ sess' = [sess EXCEPT ![p] = @ + 1]
       /\ class_start(p, k)
  /\ UNCHANGED <<opt, pc, enabled, pidfile, term, worker, crashed>>

ipcs_started(p) ==
  /\ pc[p] = "start" /\ todo[p] = {}
  /\ IF failed[p] THEN Leave(p) ELSE Goto(p, "handlers") /\ UNCHANGED todo
  /\ UNCHANGED <<opt, ipc, os, term, worker, crashed>>

install_handlers(p) ==
  /\ pc[p] = "handlers"
  /\ Goto(p, "run")
  /\ UNCHANGED <<opt, todo, ipc, os, term, worker, crashed>>

-----------------------------------------------------------------------------
(* the main loop, and the threads of the servers *)

\* A user interrupts a process that serves.
interrupt(p) ==
  /\ pc[p] = "run" /\ p \notin term
  /\ term' = term \cup {p}
  /\ UNCHANGED <<opt, pc, todo, ipc, os, worker, crashed>>

int_term_handler(p) ==
  /\ pc[p] = "run" /\ p \in term
  /\ Leave(p)
  /\ UNCHANGED <<opt, ipc, os, term, worker, crashed>>

\* A client reaches p where it listens; a UNIX client needs the path as well.
Reachable(p, k) ==
  \E a \in Addr : bound[<<k, a>>] = p /\ (k = "unix" => file[a] = p)

accept(w, p) ==
  /\ worker[w].proc = NoProc
  /\ pc[p] = "run"
  /\ \E k \in Kind :
       /\ Reachable(p, k)
       /\ worker' = [worker EXCEPT ![w] = [proc |-> p, kind |-> k, busy |-> FALSE]]
  /\ UNCHANGED <<opt, pc, todo, ipc, os, term, crashed>>

\* A command comes in on the connection and is run on the session.
command(w) ==
  /\ worker[w].proc # NoProc /\ ~worker[w].busy
  /\ worker[w].kind = "http" => pc[worker[w].proc] = "run"
  /\ worker' = [worker EXCEPT ![w] = [proc |-> @.proc, kind |-> @.kind, busy |-> TRUE]]
  /\ UNCHANGED <<opt, pc, todo, ipc, os, term, crashed>>

answer(w) ==
  /\ worker[w].busy
  /\ \/ worker' = [worker EXCEPT ![w] = [proc |-> @.proc, kind |-> @.kind, busy |-> FALSE]]
     \/ worker' = [worker EXCEPT ![w] = Idle]
  /\ UNCHANGED <<opt, pc, todo, ipc, os, term, crashed>>

-----------------------------------------------------------------------------
(* gstd_stop, gstd_free *)

\* Faulty variants: nothing is waited for, or clients that stay connected are.
WaitsForNone(p, k) == FALSE
WaitsForClients(p, k) == \E w \in Worker : worker[w].proc = p /\ worker[w].kind = k

\* What stopping an IPC waits for: the HTTP pool for its commands, a socket for nothing,
\* since the service it created was never stored.
StopWaits(p, k) ==
  \E w \in Worker : worker[w].proc = p /\ worker[w].kind = k /\ worker[w].busy /\ k = "http"

\* gstd_unix_dispose removes the paths of an enabled IPC, whoever made them.  A faulty
\* variant removes those of a service only, which is never stored.
NothingUnlinked(p, k) == FALSE
Unlinked(p, k) == k = "unix" /\ k \in enabled[p]

\* gstd_ipc_stop and the disposal give back the one reference of the IPC.  Faulty variants
\* forget it, or give it back in both.
NotReleased(p, k) == {}
ReleasedTwice(p, k) == {1, 2}
Released(p, k) == hold[p] \cap {k}

\* The session goes with its last reference.
Unref(p, n) == sess' = [sess EXCEPT ![p] = @ - n]

\* gstd_http_stop closes the server, its idle connections with it; the listeners of a socket stay.
http_stop(p, k) ==
  LET mine(x) == k = "http" /\ x = p
  IN /\ bound' = [ka \in Kind \X Addr |->
                    IF mine(bound[ka]) /\ ka[1] = k THEN NoProc ELSE bound[ka]]
     /\ worker' = [w \in Worker |->
                     IF mine(worker[w].proc) /\ worker[w].kind = k /\ ~worker[w].busy
                     THEN Idle ELSE worker[w]]

ipc_stop(p) ==
  /\ pc[p] = "stop"
  /\ \E k \in NextIpc(todo[p]) :
       /\ ~StopWaits(p, k)
       /\ todo' = [todo EXCEPT ![p] = @ \ {k}]
       /\ hold' = [hold EXCEPT ![p] = @ \ {k}]
       /\ Unref(p, Cardinality(Released(p, k)))
       /\ file' = [a \in Addr |->
                     IF Unlinked(p, k) /\ a \in Range(Wanted(p, k)) THEN NoProc ELSE file[a]]
       /\ http_stop(p, k)
  /\ UNCHANGED <<opt, pc, enabled, failed, pidfile, term, crashed>>

gstd_free(p) ==
  /\ pc[p] = "stop" /\ todo[p] = {}
  /\ Unref(p, 1)
  /\ Goto(p, "exit")
  /\ UNCHANGED <<opt, todo, enabled, failed, hold, os, term, worker, crashed>>

\* The kernel closes what a process had open; paths and the pid file stay.
Ends(p) ==
  /\ Goto(p, "dead")
  /\ bound' = [ka \in Kind \X Addr |-> IF bound[ka] = p THEN NoProc ELSE bound[ka]]
  /\ worker' = [w \in Worker |-> IF worker[w].proc = p THEN Idle ELSE worker[w]]
  /\ term' = term \ {p}
  /\ UNCHANGED <<opt, todo, ipc, file, pidfile>>

process_exit(p) == pc[p] = "exit" /\ Ends(p) /\ UNCHANGED crashed

\* A SIGTERM ends a process that has no handler for it yet.
Unhandled(p) == p \in term /\ pc[p] \in {"create", "select", "start", "handlers"}

sigterm(p) == Unhandled(p) /\ Ends(p) /\ crashed' = crashed \cup {p}

\* Killed from outside.
crash(p) ==
  /\ Alive(p) /\ Cardinality(crashed) < MaxCrash
  /\ Ends(p)
  /\ crashed' = crashed \cup {p}

-----------------------------------------------------------------------------
(* gstd_daemon_stop *)

daemon_stop(p) ==
  /\ pc[p] = "kill"
  /\ pid_file_is_running
  /\ IF Running
       THEN term' = term \cup {pidfile} /\ Goto(p, "killwait")
       ELSE Goto(p, "remove") /\ UNCHANGED term
  /\ UNCHANGED <<opt, todo, ipc, bound, file, worker, crashed>>

\* The process is gone, or 5 seconds are over.  main exits with success in either case.
kill_wait(p) ==
  /\ pc[p] = "killwait"
  /\ Goto(p, "remove")
  /\ UNCHANGED <<opt, todo, ipc, os, term, worker, crashed>>

\* The pid file is removed in any case.
pid_file_remove(p) ==
  /\ pc[p] = "remove"
  /\ pidfile' = NoProc
  /\ Leave(p)
  /\ UNCHANGED <<opt, ipc, bound, file, term, worker, crashed>>

-----------------------------------------------------------------------------
\* A user starts gstd.
launch(i) ==
  LET p == <<i, "parent">>
  IN /\ pc[p] = "none"
     /\ Goto(p, "new")
     /\ UNCHANGED <<opt, todo, ipc, os, term, worker, crashed>>

Init ==
  /\ opt \in {o \in [Inv -> UNION {Option[i] : i \in Inv}] : \A i \in Inv : o[i] \in Option[i]}
  /\ pc = [p \in Proc |-> "none"]
  /\ todo = [p \in Proc |-> {}]
  /\ enabled = [p \in Proc |-> {}]
  /\ failed = [p \in Proc |-> FALSE]
  /\ hold = [p \in Proc |-> {}]
  /\ sess = [p \in Proc |-> 0]
  /\ bound = [ka \in Kind \X Addr |-> NoProc]
  /\ file = [a \in Addr |-> NoProc]
  /\ pidfile = NoProc
  /\ term = {}
  /\ worker = [w \in Worker |-> Idle]
  /\ crashed = {}

\* What a process does by itself.
Step(p) ==
  /\ ~Unhandled(p)
  /\ \/ main(p) \/ daemon_start(p) \/ daemon_fork(p) \/ daemon_start_child(p)
     \/ daemon_start_parent(p) \/ gstd_start(p) \/ ipc_start(p) \/ ipcs_started(p)
     \/ install_handlers(p) \/ int_term_handler(p) \/ ipc_stop(p) \/ gstd_free(p)
     \/ process_exit(p) \/ daemon_stop(p) \/ kill_wait(p) \/ pid_file_remove(p)

Next ==
  \/ \E i \in Inv : launch(i)
  \/ \E p \in Proc : Step(p) \/ sigterm(p) \/ interrupt(p) \/ crash(p)
  \/ \E w \in Worker : command(w) \/ answer(w) \/ \E p \in Proc : accept(w, p)

\* Processes are scheduled.  A command may take forever: a bus read without a timeout does.
Fairness == \A p \in Proc : WF_vars(Step(p) \/ sigterm(p))

Spec == Init /\ [][Next]_vars /\ Fairness

-----------------------------------------------------------------------------
(* Properties *)

Daemons == {p \in Proc : p[2] = "child" /\ pc[p] \in {"select", "start", "handlers", "run"}}

\* gstd_daemon.c:112: two daemons do not run at the same time, whatever the order of their
\* checks, forks and pid files.
OneDaemon == \A p, q \in Daemons : p = q

\* The same as long as nobody kills a daemon: a kill removes a pid file it does not own.
OneDaemonUnkilled == (\A i \in Inv : opt[i].mode # "kill") => OneDaemon

\* The session's references are those of main and of the started IPCs, on every path
\* through failed starts, and all are given back when main ends.
SessionBalanced ==
  \A p \in Proc : Alive(p) =>
    sess[p] = Cardinality(hold[p]) + (IF pc[p] \in {"new", "exit"} THEN 0 ELSE 1)

\* The command of an HTTP worker never runs on a session that main has freed.
HttpSessionAlive ==
  \A w \in Worker : worker[w].busy /\ worker[w].kind = "http" => sess[worker[w].proc] > 0

\* gstd.h: gstd_stop "Stops the ipc in GstdIpc array": then no worker runs a command on a
\* session that main has freed.
SessionAlive == \A w \in Worker : worker[w].busy => sess[worker[w].proc] > 0

\* A process that ends by itself leaves no path of its own behind.
NoPathLeft ==
  \A a \in Addr : file[a] # NoProc /\ pc[file[a]] = "dead" => file[a] \in crashed

\* gstd_unix.c, option unix-base-path: "Attach to the server using the given path": while a
\* process serves, its paths lead to it.
PathsReachable ==
  \A p \in Proc, a \in Addr : pc[p] = "run" /\ bound[<<"unix", a>>] = p => file[a] = p

\* Every command that the workers run ends.
CommandsEnd == \A w \in Worker : WF_vars(answer(w))

\* Whatever fails and whoever is killed, the invocations settle if the commands end: at last
\* every process is gone or serves, and none that serves has a signal it was sent still to
\* handle.
Settles ==
  CommandsEnd => <>[](\A p \in Proc : Alive(p) => pc[p] = "run" /\ p \notin term)
=============================================================================
