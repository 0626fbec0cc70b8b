------------------------------ MODULE HttpServer ------------------------------
(***************************************************************************)
(* The HTTP front end (gstd_http.c).  One main thread runs libsoup's I/O   *)
(* and server_callback.  A few paths are answered there; every other       *)
(* message is paused and handed to a thread pool, whose workers run the    *)
(* command and resume the message.  The main thread writes the answers,    *)
(* and stops the server when the daemon is told to end.                    *)
(*                                                                         *)
(* Both sides take the lock of the pipeline list, which a deletion holds   *)
(* while it stops its pipeline.                                            *)
(***************************************************************************)
EXTENDS Integers, FiniteSets, Sequences

CONSTANTS
  MaxMessages, \* bound on the HTTP messages clients send
  Kinds,       \* what they may ask for
  Worker,      \* the threads the pool may have (http-max-threads)
  SpawnFails,  \* TRUE: the pool may be unable to start a thread
  MaxTargets,  \* bound on the targets of a clock_sync
  None         \* no message, no holder

\* A bad_sync is a clock_sync with a wrong method or without its parameters, a
\* refused request one that has no name for the method it uses, or OPTIONS.
Fast == {"health", "status", "clock_sync", "bad_sync"}
Pooled == {"delete", "other", "refused"}

ASSUME HttpServerAssumption ==
  /\ Kinds \subseteq Fast \cup Pooled
  /\ SpawnFails \in BOOLEAN
  /\ MaxTargets \in Nat
  /\ IsFiniteSet(Worker)
  /\ MaxMessages \in Nat
  /\ None \notin Worker \cup Nat

\* Messages are numbered in the order in which they arrive.
Message == 1 .. MaxMessages

VARIABLES
  mpc,      \* where the main thread is
  mmsg,     \* the message its callback handles
  targets,  \* targets its clock_sync has yet to look up
  msg,      \* what became of each message
  kind,     \* what it asks for
  queue,    \* the pool's queue of requests, each named after its message
  wpc,      \* where each worker is
  wreq,     \* the request it serves
  lock,     \* who holds the lock of the pipeline list across steps
  freed     \* requests whose memory was given back

mainVars == <<mpc, mmsg, targets>>
workerVars == <<wpc, wreq>>
vars == <<mainVars, msg, kind, queue, workerVars, lock, freed>>

Idle == {w \in Worker : wpc[w] = "idle"}
Unborn == {w \in Worker : wpc[w] = "none"}
Busy == {w \in Worker : wpc[w] \notin {"none", "idle"}}
-----------------------------------------------------------------------------
(* The main thread *)

\* A client sends a message.
soup_receive(m) ==
  /\ msg[m] = "unsent"
  /\ \A k \in 1 .. m - 1 : msg[k] # "unsent"
  /\ \E k \in Kinds : kind' = [kind EXCEPT ![m] = k]
  /\ msg' = [msg EXCEPT ![m] = "arrived"]
  /\ UNCHANGED <<mainVars, queue, workerVars, lock, freed>>

\* The paths server_callback answers itself.  (Faulty: the status goes through
\* the pool.)
StatusPooled(m) == kind[m] \in Fast \ {"status"}
FastPath(m) == kind[m] \in Fast

\* server_callback up to what may block.  The health check and a bad clock_sync
\* are answered on the spot, what is not on the fast path is paused.
server_callback(m) ==
  /\ mpc = "loop"
  /\ msg[m] = "arrived"
  /\ \/ /\ FastPath(m) /\ kind[m] \in {"health", "bad_sync"}
        /\ msg' = [msg EXCEPT ![m] = "answered"]
        /\ UNCHANGED mainVars
     \/ /\ FastPath(m) /\ kind[m] \notin {"health", "bad_sync"}
        /\ mpc' = kind[m]
        /\ mmsg' = m
        /\ msg' = [msg EXCEPT ![m] = "handled"]
        /\ UNCHANGED targets
     \/ /\ ~FastPath(m)
        /\ mpc' = "push"
        /\ mmsg' = m
        /\ msg' = [msg EXCEPT ![m] = "paused"]
        /\ UNCHANGED targets
  /\ UNCHANGED <<kind, queue, workerVars, lock, freed>>

\* A message with an answer, no longer paused.  (Faulty: it stays paused.)
StillPaused(m) == msg
Unpaused(m) == [msg EXCEPT ![m] = "answered"]

\* The callback has answered its message.
Answered ==
  /\ mpc' = "loop"
  /\ mmsg' = None
  /\ msg' = Unpaused(mmsg)

\* The list is copied under its lock.
handle_pipelines_status ==
  /\ mpc = "status"
  /\ lock = None
  /\ Answered
  /\ UNCHANGED <<targets, kind, queue, workerVars, lock, freed>>

\* The lookup of the source, which may not be there or have no element.
handle_clock_sync ==
  /\ mpc = "clock_sync"
  /\ lock = None
  /\ \/ Answered /\ UNCHANGED targets
     \/ /\ mpc' = "target"
        /\ targets' \in 0 .. MaxTargets
        /\ UNCHANGED <<mmsg, msg>>
  /\ UNCHANGED <<kind, queue, workerVars, lock, freed>>

\* One target is looked up.  One that is not there, or is no bin, needs no more.
clock_sync_target ==
  /\ mpc = "target"
  /\ \/ /\ targets = 0
        /\ Answered
        /\ UNCHANGED targets
     \/ /\ targets > 0 /\ lock = None
        /\ \/ targets' = targets - 1 /\ UNCHANGED mpc
           \/ mpc' = "iterate" /\ UNCHANGED targets
        /\ UNCHANGED <<mmsg, msg>>
  /\ UNCHANGED <<kind, queue, workerVars, lock, freed>>

\* The base time of all elements in the target's bin is set.  The loop starts
\* again as often as the bin changes under it, until it has been through.
clock_sync_iterate ==
  /\ mpc = "iterate"
  /\ mpc' = "target"
  /\ targets' = targets - 1
  /\ UNCHANGED <<mmsg, msg, kind, queue, workerVars, lock, freed>>

\* g_thread_pool_push: when no thread waits for work another one is started,
\* as long as the pool may have it.  A thread that cannot be started is
\* reported, and the request is queued all the same.
thread_pool_push ==
  LET needed == Cardinality(Idle) <= Len(queue) /\ Unborn # {}
  IN  /\ mpc = "push"
      /\ queue' = Append(queue, mmsg)
      /\ \/ /\ ~needed
            /\ mpc' = "loop" /\ mmsg' = None
            /\ UNCHANGED wpc
         \/ /\ needed
            /\ mpc' = "loop" /\ mmsg' = None
            /\ \E w \in Unborn : wpc' = [wpc EXCEPT ![w] = "idle"]
         \/ /\ needed /\ SpawnFails
            /\ mpc' = "failed"
            /\ UNCHANGED <<mmsg, wpc>>
      /\ UNCHANGED <<targets, msg, kind, wreq, lock, freed>>

\* The push failed: the request is freed and the message resumed with 503.
server_callback_unqueued ==
  /\ mpc = "failed"
  /\ freed' = freed \cup {mmsg}
  /\ Answered
  /\ UNCHANGED <<targets, kind, queue, workerVars, lock>>

\* libsoup writes the answer of a message that is not paused, and lets go of
\* the message.
soup_write(m) ==
  /\ mpc = "loop"
  /\ msg[m] = "answered"
  /\ msg' = [msg EXCEPT ![m] = "done"]
  /\ kind' = [kind EXCEPT ![m] = None]
  /\ UNCHANGED <<mainVars, queue, workerVars, lock, freed>>

\* int_term_handler ends the main loop, and gstd_stop calls gstd_http_stop.
http_stop ==
  /\ mpc = "loop"
  /\ mpc' = "stop"
  /\ UNCHANGED <<mmsg, targets, msg, kind, queue, workerVars, lock, freed>>

\* g_thread_pool_free (pool, FALSE, TRUE) returns when the queue is empty and
\* the workers are idle.  (Faulty: it drops the queue.)
DropQueue == Busy = {}
Drained == queue = <<>> /\ Busy = {}

http_stop_free ==
  /\ mpc = "stop"
  /\ Drained
  /\ mpc' = "off"
  /\ UNCHANGED <<mmsg, targets, msg, kind, queue, workerVars, lock, freed>>
-----------------------------------------------------------------------------
(* The workers of the pool *)

Goto(w, l) == wpc' = [wpc EXCEPT ![w] = l]

\* An idle worker takes a request and copies its fields.
do_request(w) ==
  /\ w \in Idle
  /\ queue # <<>>
  /\ wreq' = [wreq EXCEPT ![w] = Head(queue)]
  /\ queue' = Tail(queue)
  /\ Goto(w, "parse")
  /\ UNCHANGED <<mainVars, msg, kind, lock, freed>>

\* do_get, do_post, do_put and do_delete: a request without a name it needs is
\* refused before it reaches the parser.  Others look their object up in the
\* list, under its lock; a deletion keeps that lock while it stops the pipeline.
parse_cmd(w) ==
  /\ wpc[w] = "parse"
  /\ \/ /\ kind[wreq[w]] = "refused"
        /\ Goto(w, "respond")
        /\ UNCHANGED lock
     \/ /\ kind[wreq[w]] = "delete"
        /\ lock = None
        /\ lock' = w
        /\ Goto(w, "work")
     \/ /\ kind[wreq[w]] \notin {"refused", "delete"}
        /\ lock = None
        /\ Goto(w, "work")
        /\ UNCHANGED lock
  /\ UNCHANGED <<mainVars, msg, kind, queue, wreq, freed>>

\* What the lock is after a command.  (Faulty: a path leaves it held.)
LockKept(w) == lock
Released(w) == IF lock = w THEN None ELSE lock

\* The command ends, whatever it asked GStreamer to do.
command_ends(w) ==
  /\ wpc[w] = "work"
  /\ lock' = Released(w)
  /\ Goto(w, "respond")
  /\ UNCHANGED <<mainVars, msg, kind, queue, wreq, freed>>

\* The answer is set, the message resumed and the request freed.
do_request_unpause(w) ==
  /\ wpc[w] = "respond"
  /\ msg' = Unpaused(wreq[w])
  /\ freed' = freed \cup {wreq[w]}
  /\ wreq' = [wreq EXCEPT ![w] = None]
  /\ Goto(w, "idle")
  /\ UNCHANGED <<mainVars, kind, queue, lock>>
-----------------------------------------------------------------------------
\* gstd_http_start: the server listens and the pool has no thread yet.
Init ==
  /\ mpc = "loop" /\ mmsg = None /\ targets = 0
  /\ msg = [m \in Message |-> "unsent"]
  /\ kind = [m \in Message |-> None]
  /\ queue = <<>>
  /\ wpc = [w \in Worker |-> "none"] /\ wreq = [w \in Worker |-> None]
  /\ lock = None
  /\ freed = {}

Main ==
  \/ \E m \in Message : server_callback(m) \/ soup_write(m)
  \/ handle_pipelines_status
  \/ handle_clock_sync
  \/ clock_sync_target
  \/ clock_sync_iterate
  \/ thread_pool_push
  \/ server_callback_unqueued
  \/ http_stop_free

Work(w) ==
  \/ do_request(w)
  \/ parse_cmd(w)
  \/ command_ends(w)
  \/ do_request_unpause(w)

Next ==
  \/ \E m \in Message : soup_receive(m)
  \/ http_stop
  \/ Main
  \/ \E w \in Worker : Work(w)

Spec == Init /\ [][Next]_vars

\* The main thread is scheduled, and bins do not change forever while it goes
\* through them.  A command may take forever.
FairSpec == Spec /\ WF_vars(Main)
-----------------------------------------------------------------------------
(* Properties *)

\* Type invariant of the HTTP server; the list lock is held across steps only
\* by a worker that runs a command.
TypeOK ==
  /\ mpc \in {"loop", "status", "clock_sync", "target", "iterate", "push", "failed",
              "stop", "off"}
  /\ mmsg \in Message \cup {None}
  /\ targets \in 0 .. MaxTargets
  /\ msg \in [Message -> {"unsent", "arrived", "handled", "paused", "answered",
                          "done"}]
  /\ kind \in [Message -> Kinds \cup {None}]
  /\ queue \in Seq(Message)
  /\ wpc \in [Worker -> {"none", "idle", "parse", "work", "respond"}]
  /\ wreq \in [Worker -> Message \cup {None}]
  /\ lock \in Worker \cup {None}
  /\ lock # None => wpc[lock] = "work"
  /\ freed \subseteq Message

\* What the liveness of pooled messages needs on top: that commands end.
CommandsEnd == \A w \in Worker : WF_vars(Work(w))
Stopping == mpc \in {"stop", "off"}

\* gstd_http_stop waits for pending requests: once the pool is gone every
\* message that was paused has been resumed.
PendingServed == mpc = "off" => \A m \in Message : msg[m] # "paused"

\* As long as commands end, every message is answered unless the server stops,
\* one the pool could not start a thread for included.
MessagesAnswered ==
  CommandsEnd =>
    \A m \in Message : (msg[m] = "arrived") ~> (msg[m] = "done" \/ Stopping)

\* As long as commands end, gstd_http_stop returns, unless there are requests
\* and the pool has no thread at all: nothing it waits for waits for the main
\* thread.
StopEnds ==
  CommandsEnd =>
    (mpc = "stop" /\ (queue = <<>> \/ Unborn # Worker)) ~> (mpc = "off")

\* The fast paths bypass the pool: as long as deletions let go of the list they
\* are answered, even when every worker is stuck in another command or no
\* thread can be started.
FastAnswered ==
  []<>(lock = None) =>
    \A m \in Message :
      (msg[m] = "arrived" /\ kind[m] \in Fast) ~> (msg[m] = "done" \/ Stopping)

\* handle_health_request is a liveness check that "Avoids GStreamer calls that
\* could hang": it is answered whatever the commands do.
HealthAnswered ==
  \A m \in Message :
    (msg[m] = "arrived" /\ kind[m] = "health") ~> (msg[m] = "done" \/ Stopping)

\* A request has one owner, who frees it: no worker serves one whose memory was
\* given back, by do_request or by server_callback, which means to free only a
\* "request that couldn't be queued".  True where every thread starts.
ServedNotFreed == \A w \in Busy : wreq[w] \notin freed
=============================================================================
