----------------------------- MODULE PipelineBus -----------------------------
(***************************************************************************)
(* The bus of one pipeline and those who read it: gstd_pipeline_bus.c,     *)
(* gstd_msg_reader.c, the error report of gstd_state.c, and the client's   *)
(* gstc_pipeline_bus_wait (libgstc.c, libgstc_thread.c).                   *)
(*                                                                         *)
(* A wait is three requests: the filter, the timeout, and the read, which  *)
(* a detached thread sends while the caller sleeps on a condition variable *)
(* of its own stack.  The filter and the timeout are properties of one     *)
(* object that all clients share; GStreamer's bus is external.             *)
(***************************************************************************)
EXTENDS Naturals, Sequences

CONSTANTS
  Waiter,    \* client programs that call gstc_pipeline_bus_wait
  Changer,   \* daemon threads that change the pipeline's state in vain
  Wants,     \* Wants[w]: the waits w may ask for: [types, timeout]
  Type,      \* the types of the messages that are posted
  MaxPosts,  \* bound on the messages posted
  MaxWaits,  \* bound on the waits of a waiter
  Unlucky,   \* waiters whose requests, threads and memory may fail
  MayDelete, \* whether the pipeline may be deleted
  Nobody

Timeout == {"now", "timed", "forever"}
ASSUME WantsAssumption ==
  \A w \in Waiter : Wants[w] # {} /\ Wants[w] \subseteq [types : SUBSET Type, timeout : Timeout]
ASSUME BusAssumption ==
  /\ MaxPosts \in Nat /\ MaxWaits \in Nat /\ Unlucky \subseteq Waiter /\ MayDelete \in BOOLEAN
  /\ Nobody \notin Waiter /\ Waiter \cap Changer = {} /\ "error" \in Type
  /\ Type \cap {"null", "refusal", "garbage"} = {}

Reader == Waiter \cup Changer

\* What a waiter may be answered: a message of some type; null, no message came in time; an
\* error, with a null as well; or what an uninitialised pointer points at.
Reply == Type \cup {"null", "refusal", "garbage"}

VARIABLES
  types, timeout,  \* the properties of the GstdPipelineBus
  setBy,           \* the wait that wrote them last
  queue,           \* the messages on the GstBus
  posted,          \* how many there have been
  flushing,        \* the GstBus drops what is posted
  deleted,         \* the pipeline is gone
  caller,          \* where a waiter's calling thread is
  req,             \* what it asked for
  waits,           \* how many waits it has begun
  thread,          \* where its bus thread is, or the worker that serves that one
  snap,            \* the worker's copies of timeout and types
  own,             \* whether its wait itself had written both
  reply,           \* what the worker answers
  mutex,           \* who holds GstcSyncBusData's mutex
  waiting,         \* its "waiting"
  signalled,       \* its condition has been signalled to a sleeping caller
  status           \* what the wait returns, beside the reply

props == <<types, timeout, setBy>>
gstbus == <<queue, posted, flushing>>
data == <<mutex, waiting, signalled, status>>
vars == <<props, gstbus, deleted, caller, req, waits, thread, snap, own, reply, data>>

CallerGoto(w, l) == caller' = [caller EXCEPT ![w] = l]
ThreadGoto(r, l) == thread' = [thread EXCEPT ![r] = l]

TypeOK ==
  /\ types \in SUBSET Type /\ timeout \in Timeout
  /\ setBy \in [{"types", "timeout"} -> Waiter \cup {Nobody}]
  /\ queue \in Seq(Type) /\ posted \in 0 .. MaxPosts
  /\ flushing \in BOOLEAN /\ deleted \in BOOLEAN
  /\ caller \in [Waiter -> {"idle", "types", "timeout", "lock", "check", "cond", "dead"}]
  /\ req \in [Waiter -> [types : SUBSET Type, timeout : Timeout]]
  /\ waits \in [Waiter -> 0 .. MaxWaits]
  /\ thread \in [Reader -> {"none", "send", "get_timeout", "get_types", "pop", "flush",
                            "callback", "unlock", "gone", "unanswered", "dead"}]
  /\ snap \in [Reader -> [types : SUBSET Type, timeout : Timeout]]
  /\ own \in [Waiter -> BOOLEAN]
  /\ reply \in [Waiter -> Reply]
  /\ mutex \in [Waiter -> {"free", "caller", "thread"}]
  /\ \A w \in Waiter : /\ caller[w] = "check" => mutex[w] = "caller"
                       /\ thread[w] = "unlock" => mutex[w] = "thread"
  /\ waiting \in [Waiter -> BOOLEAN] /\ signalled \in [Waiter -> BOOLEAN]
  /\ status \in [Waiter -> {"none", "OK", "BUS_TIMEOUT", "MALFORMED", "OOM", "THREAD_ERROR"}]

-----------------------------------------------------------------------------
(* GStreamer's bus *)

post ==
  /\ posted < MaxPosts /\ ~deleted
  /\ posted' = posted + 1
  /\ \E t \in Type :
       queue' = IF flushing THEN queue ELSE Append(queue, t)
  /\ UNCHANGED <<props, flushing, deleted, caller, req, waits, thread, snap, own, reply, data>>

\* The pipeline goes to NULL, which flushes its bus; its name is gone.
delete ==
  /\ MayDelete /\ ~deleted
  /\ deleted' = TRUE
  /\ queue' = <<>>
  /\ UNCHANGED <<props, posted, flushing, caller, req, waits, thread, snap, own, reply, data>>

-----------------------------------------------------------------------------
(* gstc_pipeline_bus_wait and gstc_pipeline_bus_wait_async: the caller *)

bus_wait(w) ==
  /\ caller[w] = "idle" /\ waits[w] < MaxWaits
  /\ \E q \in Wants[w] : req' = [req EXCEPT ![w] = q]
  /\ waits' = [waits EXCEPT ![w] = @ + 1]
  /\ waiting' = [waiting EXCEPT ![w] = TRUE]
  /\ status' = [status EXCEPT ![w] = "none"]
  /\ setBy' = [p \in {"types", "timeout"} |-> IF setBy[p] = w THEN Nobody ELSE setBy[p]]
  /\ CallerGoto(w, "types")
  /\ UNCHANGED <<types, timeout, gstbus, deleted, thread, snap, own, reply, mutex, signalled>>

\* An update is one request; the daemon refuses it for a pipeline it does not find, and
\* the caller does not look at the result.
Refused(w) == w \in Unlucky \/ deleted

\* gstd_pipeline_bus_set_property
set_types(w) ==
  /\ ~deleted
  /\ types' = req[w].types
  /\ setBy' = [setBy EXCEPT !["types"] = w]
  /\ UNCHANGED timeout
set_timeout(w) ==
  /\ ~deleted
  /\ timeout' = req[w].timeout
  /\ setBy' = [setBy EXCEPT !["timeout"] = w]
  /\ UNCHANGED types

\* The texts of both updates are put together before the first is sent; without memory for
\* them the wait returns at once.
update_types(w) ==
  /\ caller[w] = "types"
  /\ \/ /\ CallerGoto(w, "timeout")
        /\ set_types(w) \/ (Refused(w) /\ UNCHANGED props)
        /\ UNCHANGED status
     \/ /\ w \in Unlucky
        /\ CallerGoto(w, "idle")
        /\ status' = [status EXCEPT ![w] = "OOM"]
        /\ UNCHANGED props
  /\ UNCHANGED <<gstbus, deleted, req, waits, thread, snap, own, reply, mutex, waiting, signalled>>

\* The wait returns at once if there is no thread.
thread_new(w) ==
  \/ CallerGoto(w, "lock") /\ ThreadGoto(w, "send") /\ UNCHANGED status
  \/ /\ w \in Unlucky
     /\ CallerGoto(w, "idle")
     /\ status' = [status EXCEPT ![w] = "THREAD_ERROR"]
     /\ UNCHANGED thread

update_timeout(w) ==
  /\ caller[w] = "timeout"
  /\ set_timeout(w) \/ (Refused(w) /\ UNCHANGED props)
  /\ thread_new(w)
  /\ UNCHANGED <<gstbus, deleted, req, waits, snap, own, reply, mutex, waiting, signalled>>

\* A faulty variant: nobody's lock keeps another out.
AlwaysFree(w) == TRUE
MutexFree(w) == mutex[w] = "free"

\* A faulty variant: the wait returns as soon as it is woken.
ReturnsAtOnce(w) == UNCHANGED mutex /\ CallerGoto(w, "idle")
\* The caller holds the mutex again and looks at "waiting".
Woken(w) == mutex' = [mutex EXCEPT ![w] = "caller"] /\ CallerGoto(w, "check")

\* The caller locks the mutex, at first or when cond_wait has been signalled.
mutex_lock(w) ==
  /\ caller[w] = "lock" \/ (caller[w] = "cond" /\ signalled[w])
  /\ MutexFree(w)
  /\ signalled' = [signalled EXCEPT ![w] = FALSE]
  /\ Woken(w)
  /\ UNCHANGED <<props, gstbus, deleted, req, waits, thread, snap, own, reply, waiting, status>>

\* cond_wait may return without a signal.
spurious_wakeup(w) ==
  /\ caller[w] = "cond" /\ ~signalled[w]
  /\ MutexFree(w)
  /\ Woken(w)
  /\ UNCHANGED <<props, gstbus, deleted, req, waits, thread, snap, own, reply, waiting, signalled,
                 status>>

\* while (1 == data.waiting) cond_wait: the mutex is given up to sleep, or for good, and
\* then the wait returns and its frame is gone.
cond_wait(w) ==
  /\ caller[w] = "check"
  /\ mutex' = [mutex EXCEPT ![w] = "free"]
  /\ CallerGoto(w, IF waiting[w] THEN "cond" ELSE "idle")
  /\ UNCHANGED <<props, gstbus, deleted, req, waits, thread, snap, own, reply, waiting, signalled,
                 status>>

-----------------------------------------------------------------------------
(* gstc_bus_thread, and the daemon's worker while it serves the read *)

\* The worker finds the bus, and keeps a reference to it.
bus_read(w) ==
  IF deleted
  THEN ThreadGoto(w, "callback") /\ reply' = [reply EXCEPT ![w] = "refusal"]
  ELSE ThreadGoto(w, "get_timeout") /\ UNCHANGED reply

\* Without memory for its request the thread returns and calls nobody back.  Its read has no
\* time limit: the thread stays in it if the daemon or the network never ends it.  A read that
\* fails leaves "response" uninitialised: the program dies of it, or goes on.
bus_thread(w) ==
  /\ thread[w] = "send"
  /\ \/ bus_read(w) /\ UNCHANGED caller
     \/ /\ w \in Unlucky
        /\ ThreadGoto(w, "callback")
        /\ reply' = [reply EXCEPT ![w] = "garbage"]
        /\ UNCHANGED caller
     \/ /\ w \in Unlucky
        /\ ThreadGoto(w, "dead") /\ CallerGoto(w, "dead")
        /\ UNCHANGED reply
     \/ /\ w \in Unlucky
        /\ ThreadGoto(w, "gone") \/ ThreadGoto(w, "unanswered")
        /\ UNCHANGED <<caller, reply>>
  /\ UNCHANGED <<props, gstbus, deleted, req, waits, snap, own, data>>

get_timeout(w) ==
  /\ thread[w] = "get_timeout"
  /\ snap' = [snap EXCEPT ![w] = [types |-> {}, timeout |-> timeout]]
  /\ own' = [own EXCEPT ![w] = setBy["timeout"] = w]
  /\ ThreadGoto(w, "get_types")
  /\ UNCHANGED <<props, gstbus, deleted, caller, req, waits, reply, data>>

\* GST_MESSAGE_UNKNOWN is no filter: the read flushes the bus.
get_types(w) ==
  /\ thread[w] = "get_types"
  /\ snap' = [snap EXCEPT ![w] = [types |-> types, timeout |-> snap[w].timeout]]
  /\ own' = [own EXCEPT ![w] = @ /\ setBy["types"] = w]
  /\ ThreadGoto(w, IF types = {} THEN "flush" ELSE "pop")
  /\ queue' = IF types = {} THEN <<>> ELSE queue
  /\ flushing' = (types = {} \/ flushing)
  /\ UNCHANGED <<props, posted, deleted, caller, req, waits, reply, data>>

NoFilter == [types |-> {}, timeout |-> "now"]

\* A waiter's worker answers; a state change has only something to print.
Answered(r, m) ==
  /\ ThreadGoto(r, IF r \in Waiter THEN "callback" ELSE "none")
  /\ reply' = IF r \in Waiter THEN [reply EXCEPT ![r] = m] ELSE reply
  /\ snap' = [snap EXCEPT ![r] = NoFilter]

\* The reader has slept for the timeout; one of -1 is no time at all.
end_flush(w) ==
  /\ thread[w] = "flush"
  /\ flushing' = FALSE
  /\ Answered(w, "null")
  /\ UNCHANGED <<props, queue, posted, deleted, caller, req, waits, own, data>>

\* A faulty variant: the filter is not passed on.
AnyMessage(r, m) == TRUE
Matches(r, m) == m \in snap[r].types

\* gst_bus_timed_pop_filtered takes one message after the other and drops those that do
\* not match; the time is looked at when there is none.
timed_pop_filtered(r) ==
  /\ thread[r] = "pop"
  /\ \/ /\ queue # <<>>
        /\ queue' = Tail(queue)
        /\ \/ /\ Matches(r, Head(queue))
              /\ Answered(r, Head(queue))
           \/ ~Matches(r, Head(queue)) /\ UNCHANGED <<reply, thread, snap>>
     \/ /\ queue = <<>> /\ snap[r].timeout # "forever"
        /\ Answered(r, "null")
        /\ UNCHANGED queue
  /\ UNCHANGED <<props, posted, flushing, deleted, caller, req, waits, own, data>>

\* gstd_state_update, the state change failed: gst_bus_pop_filtered for an error.
state_update_failed(r) ==
  /\ thread[r] = "none" /\ ~deleted
  /\ snap' = [snap EXCEPT ![r] = [types |-> {"error"}, timeout |-> "now"]]
  /\ ThreadGoto(r, "pop")
  /\ UNCHANGED <<props, gstbus, deleted, caller, req, waits, own, reply, data>>

-----------------------------------------------------------------------------
(* gstc_pipeline_bus_wait_callback, on the bus thread *)

\* gstc_json_is_null of the answer.
StatusOf(m) ==
  IF m \in Type THEN "OK" ELSE IF m \in {"null", "refusal"} THEN "BUS_TIMEOUT" ELSE "MALFORMED"

\* A faulty variant: nobody is woken.
SignalsNone(w) == FALSE
cond_signal(w) == caller[w] = "cond"

\* The mutex is taken, and under it the result stored and the caller woken if it sleeps.
bus_wait_callback(w) ==
  /\ thread[w] = "callback" /\ mutex[w] = "free"
  /\ mutex' = [mutex EXCEPT ![w] = "thread"]
  /\ waiting' = [waiting EXCEPT ![w] = FALSE]
  /\ status' = [status EXCEPT ![w] = StatusOf(reply[w])]
  /\ signalled' = [signalled EXCEPT ![w] = cond_signal(w)]
  /\ ThreadGoto(w, "unlock")
  /\ UNCHANGED <<props, gstbus, deleted, caller, req, waits, snap, own, reply>>

callback_unlock(w) ==
  /\ thread[w] = "unlock"
  /\ mutex' = [mutex EXCEPT ![w] = "free"]
  /\ ThreadGoto(w, "none")
  /\ UNCHANGED <<props, gstbus, deleted, caller, req, waits, snap, own, reply, waiting, signalled,
                 status>>

-----------------------------------------------------------------------------
\* gstd_pipeline_bus_init; nobody waits.
Init ==
  /\ types = {"error", "warning", "info"} \cap Type /\ timeout = "forever"
  /\ setBy = [p \in {"types", "timeout"} |-> Nobody]
  /\ queue = <<>> /\ posted = 0 /\ flushing = FALSE /\ deleted = FALSE
  /\ caller = [w \in Waiter |-> "idle"]
  /\ req = [w \in Waiter |-> CHOOSE q \in Wants[w] : TRUE]
  /\ waits = [w \in Waiter |-> 0]
  /\ thread = [r \in Reader |-> "none"]
  /\ snap = [r \in Reader |-> NoFilter]
  /\ own = [w \in Waiter |-> FALSE]
  /\ reply = [r \in Waiter |-> "null"]
  /\ mutex = [w \in Waiter |-> "free"]
  /\ waiting = [w \in Waiter |-> FALSE]
  /\ signalled = [w \in Waiter |-> FALSE]
  /\ status = [w \in Waiter |-> "none"]

CallerStep(w) == update_types(w) \/ update_timeout(w) \/ mutex_lock(w) \/ cond_wait(w)
ThreadStep(w) ==
  \/ bus_thread(w) \/ get_timeout(w) \/ get_types(w) \/ end_flush(w)
  \/ bus_wait_callback(w) \/ callback_unlock(w)

Next ==
  \/ post \/ delete
  \/ \E w \in Waiter : bus_wait(w) \/ CallerStep(w) \/ spurious_wakeup(w) \/ ThreadStep(w)
  \/ \E r \in Reader : timed_pop_filtered(r)
  \/ \E r \in Changer : state_update_failed(r)

Spec == Init /\ [][Next]_vars

\* The threads on both sides are scheduled.  A bus thread that finds the mutex taken gets it
\* in the end although wake-ups without a signal may take it again and again.
FairSpec ==
  /\ Spec
  /\ \A w \in Waiter : WF_vars(CallerStep(w)) /\ SF_vars(ThreadStep(w))
  /\ \A r \in Reader : WF_vars(timed_pop_filtered(r))

-----------------------------------------------------------------------------
(* Properties *)

\* gstc_pipeline_bus_wait_callback writes into the caller's stack frame: the frame is
\* there, whatever the order of signals, wake-ups and locks.
StackAlive ==
  \A w \in Waiter : thread[w] \in {"send", "get_timeout", "get_types", "pop", "flush",
                                   "callback", "unlock"} => caller[w] # "idle"

Returned(w) == caller[w] = "idle" /\ status[w] \in {"OK", "BUS_TIMEOUT"}

\* A wait whose own filter and timeout were the ones the read found returns a message of
\* a type it asked for, and runs out of time only if it had one.
AskedFor ==
  \A w \in Waiter : Returned(w) /\ own[w] /\ reply[w] # "refusal" =>
    IF status[w] = "OK" THEN reply[w] \in req[w].types
                        ELSE req[w].timeout # "forever" \/ req[w].types = {}

\* libgstc.h:574: gstc_pipeline_bus_wait returns a message of type @message_name.
ReceivesAsked ==
  \A w \in Waiter : Returned(w) /\ status[w] = "OK" => reply[w] \in req[w].types

\* A wait ends or its program dies of a failed read, unless its thread never calls back: it
\* had no memory for its request, its read is never answered, or the read waits without a
\* limit for a message.  So no signal is lost between thread and caller, and neither a
\* deleted pipeline nor a flush nor a timeout of the daemon's leaves the caller asleep.
WaitEnds ==
  \A w \in Waiter :
    (caller[w] = "lock") ~> \/ caller[w] \in {"idle", "dead"}
                           \/ thread[w] \in {"gone", "unanswered"}
                           \/ (thread[w] = "pop" /\ snap[w].timeout = "forever")

\* libgstc.h:574: gstc_pipeline_bus_wait blocks until the message is received or a timeout
\* occurs.
TimedWaitEnds ==
  \A w \in Waiter :
    (caller[w] = "lock" /\ req[w].timeout = "timed") ~> (caller[w] \in {"idle", "dead"})
=============================================================================
