----------------------------- MODULE SignalReader -----------------------------
(***************************************************************************)
(* One GstdSignal and its GstdSignalReader: requests that read "callback"  *)
(* connect a closure of their own to the element's signal and sleep on the *)
(* reader's condition variable; streaming threads that emit the signal run *)
(* the closures; a request that reads "disconnect" wakes everybody up.     *)
(*                                                                         *)
(* All requests share one waiting flag and one callback pointer, and the   *)
(* marshaller writes that pointer without the lock.                        *)
(***************************************************************************)
EXTENDS Integers, FiniteSets, FiniteSetsExt

CONSTANTS
  Reader,        \* worker threads that serve reads of the signal's callback
  Emitter,       \* streaming threads that emit the signal
  Timeouts,      \* TRUE: clients give the signal a finite timeout
  MaxReads,      \* bound on the reads, and so on the closures connected
  MaxEmissions,  \* bound on the emissions of the signal
  MaxDisconnects,\* bound on the disconnect requests
  None           \* the null pointer, the free lock, no closure

ASSUME SignalReaderAssumption ==
  /\ Timeouts \in BOOLEAN
  /\ MaxReads \in Nat /\ MaxEmissions \in Nat /\ MaxDisconnects \in Nat
  /\ None \notin Reader \cup Nat

VARIABLES
  lock,      \* signal_lock, held across steps only by a read that returns
  waiting,   \* waiting_signal
  callback,  \* callback: <<emission, closure>> it was made by, or None
  finite,    \* the signal's timeout is finite
  rpc,       \* where each reader is
  timed,     \* the read took a finite timeout
  closure,   \* the closure the read connected
  out,       \* what the read returns
  epc,       \* where each emitter is
  event,     \* the emission it runs
  todo,      \* closures the emission has yet to run
  running,   \* the closure it runs
  reads, emissions, disconnects,  \* how many there were
  given      \* callbacks returned to clients

readerVars == <<rpc, timed, closure, out>>
emitterVars == <<epc, event, todo, running, emissions>>
vars == <<lock, waiting, callback, finite, readerVars, emitterVars, reads,
          disconnects, given>>

Callback == (1 .. MaxEmissions) \X (1 .. MaxReads)
Connected == {closure[r] : r \in Reader} \ {None}
Asleep == {r \in Reader : rpc[r] = "asleep"}
-----------------------------------------------------------------------------
(* Requests *)

\* gstd_signal_set_property: signal_timeout.
signal_set_timeout ==
  /\ Timeouts
  /\ finite' = ~finite
  /\ UNCHANGED <<lock, waiting, callback, readerVars, emitterVars, reads,
                 disconnects, given>>

\* gstd_signal_reader_read_signal up to its wait: the lock is taken and given
\* back by g_cond_wait with nothing in between that another thread sees.
signal_reader_read_signal(r) ==
  /\ rpc[r] = "idle"
  /\ reads < MaxReads
  /\ lock = None
  /\ waiting' = TRUE
  /\ reads' = reads + 1
  /\ closure' = [closure EXCEPT ![r] = reads + 1]
  /\ timed' = [timed EXCEPT ![r] = finite]
  /\ rpc' = [rpc EXCEPT ![r] = "asleep"]
  /\ UNCHANGED <<lock, callback, finite, out, emitterVars, disconnects, given>>

\* g_cond_wait returned, and so did the lock: the flag is read again.
cond_wait_returns(r) ==
  /\ rpc[r] = "woken"
  /\ lock = None
  /\ \/ /\ waiting
        /\ rpc' = [rpc EXCEPT ![r] = "asleep"]
        /\ UNCHANGED lock
     \/ /\ ~waiting
        /\ rpc' = [rpc EXCEPT ![r] = "take"]
        /\ lock' = r
  /\ UNCHANGED <<waiting, callback, finite, timed, closure, out,
                 emitterVars, reads, disconnects, given>>

take_callback(r) ==
  /\ rpc[r] = "take"
  /\ out' = [out EXCEPT ![r] = callback]
  /\ rpc' = [rpc EXCEPT ![r] = "clear"]
  /\ UNCHANGED <<lock, waiting, callback, finite, timed, closure,
                 emitterVars, reads, disconnects, given>>

\* What is left in the callback pointer.  (Faulty: the pointer stays.)
KeepCallback == callback
ResetCallback == None

\* The lock when a read ends.  (Faulty: a return without unlocking.)
StillLocked(r) == r
Unlocked(r) == None

\* The end of a read that was woken: the closure is disconnected and the lock
\* let go.
clear_callback(r) ==
  /\ rpc[r] = "clear"
  /\ callback' = ResetCallback
  /\ closure' = [closure EXCEPT ![r] = None]
  /\ lock' = Unlocked(r)
  /\ rpc' = [rpc EXCEPT ![r] = "idle"]
  /\ given' = given \cup ({out[r]} \ {None})
  /\ out' = [out EXCEPT ![r] = None]
  /\ UNCHANGED <<waiting, finite, timed, emitterVars, reads,
                 disconnects>>

\* g_cond_wait_until timed out ...
cond_wait_expires(r) ==
  /\ rpc[r] = "asleep"
  /\ timed[r]
  /\ rpc' = [rpc EXCEPT ![r] = "expired"]
  /\ UNCHANGED <<lock, waiting, callback, finite, timed, closure, out,
                 emitterVars, reads, disconnects, given>>

\* ... and the read gives up, with whatever is in the callback pointer left
\* there.
read_signal_gives_up(r) ==
  /\ rpc[r] = "expired"
  /\ lock = None
  /\ closure' = [closure EXCEPT ![r] = None]
  /\ lock' = Unlocked(r)
  /\ rpc' = [rpc EXCEPT ![r] = "idle"]
  /\ UNCHANGED <<waiting, callback, finite, timed, out,
                 emitterVars, reads, disconnects, given>>

\* gstd_signal_reader_disconnect.
signal_reader_disconnect ==
  /\ disconnects < MaxDisconnects
  /\ lock = None
  /\ waiting' = FALSE
  /\ disconnects' = disconnects + 1
  /\ rpc' = [r \in Reader |-> IF r \in Asleep THEN "woken" ELSE rpc[r]]
  /\ UNCHANGED <<lock, callback, finite, timed, closure, out,
                 emitterVars, reads, given>>
-----------------------------------------------------------------------------
(* Emission *)

\* g_signal_emit: the closures connected now, in the order they were
\* connected.
signal_emit(e) ==
  /\ epc[e] = "idle"
  /\ emissions < MaxEmissions
  /\ emissions' = emissions + 1
  /\ event' = [event EXCEPT ![e] = emissions + 1]
  /\ todo' = [todo EXCEPT ![e] = Connected]
  /\ epc' = [epc EXCEPT ![e] = "next"]
  /\ UNCHANGED <<lock, waiting, callback, finite, readerVars, running, reads,
                 disconnects, given>>

\* It runs the next closure that is still connected, and ends after the last.
signal_emit_next(e) ==
  /\ epc[e] = "next"
  /\ LET left == todo[e] \cap Connected
     IN  \/ /\ left = {}
            /\ epc' = [epc EXCEPT ![e] = "idle"]
            /\ todo' = [todo EXCEPT ![e] = {}]
            /\ UNCHANGED running
         \/ /\ left # {}
            /\ epc' = [epc EXCEPT ![e] = "write"]
            /\ running' = [running EXCEPT ![e] = Min(left)]
            /\ todo' = [todo EXCEPT ![e] = left \ {Min(left)}]
  /\ UNCHANGED <<lock, waiting, callback, finite, readerVars, event, emissions,
                 reads, disconnects, given>>

\* gstd_signal_marshal first stores a new callback, without the lock ...
signal_marshal(e) ==
  /\ epc[e] = "write"
  /\ callback' = <<event[e], running[e]>>
  /\ epc' = [epc EXCEPT ![e] = "signal"]
  /\ UNCHANGED <<lock, waiting, finite, readerVars, event, todo, running,
                 emissions, reads, disconnects, given>>

\* The value gstd_signal_marshal gives waiting_signal.  (Faulty: it forgets.)
FlagKept == waiting
FlagCleared == FALSE

\* ... then takes the lock, clears the flag and wakes one reader.
signal_marshal_signal(e) ==
  /\ epc[e] = "signal"
  /\ lock = None
  /\ waiting' = FlagCleared
  /\ epc' = [epc EXCEPT ![e] = "next"]
  /\ \/ \E r \in Asleep : rpc' = [rpc EXCEPT ![r] = "woken"]
     \/ Asleep = {} /\ UNCHANGED rpc
  /\ UNCHANGED <<lock, callback, finite, timed, closure, out, event,
                 todo, running, emissions, reads, disconnects, given>>
-----------------------------------------------------------------------------
Init ==
  /\ lock = None /\ waiting = FALSE /\ callback = None /\ finite = FALSE
  /\ rpc = [r \in Reader |-> "idle"] /\ timed = [r \in Reader |-> FALSE]
  /\ closure = [r \in Reader |-> None]
  /\ out = [r \in Reader |-> None]
  /\ epc = [e \in Emitter |-> "idle"] /\ event = [e \in Emitter |-> 0]
  /\ todo = [e \in Emitter |-> {}] /\ running = [e \in Emitter |-> None]
  /\ reads = 0 /\ emissions = 0 /\ disconnects = 0
  /\ given = {}

\* The steps of a read once it waits, and of an emission once it runs.
Read(r) ==
  \/ cond_wait_returns(r)
  \/ take_callback(r)
  \/ clear_callback(r)
  \/ cond_wait_expires(r)
  \/ read_signal_gives_up(r)

Emit(e) ==
  \/ signal_emit_next(e)
  \/ signal_marshal(e)
  \/ signal_marshal_signal(e)

Next ==
  \/ signal_set_timeout
  \/ signal_reader_disconnect
  \/ \E r \in Reader : signal_reader_read_signal(r) \/ Read(r)
  \/ \E e \in Emitter : signal_emit(e) \/ Emit(e)

Spec == Init /\ [][Next]_vars

\* Threads that can step are scheduled, and a timeout that is due happens.
\* Nobody has to ask for the signal, to emit it or to disconnect.
FairSpec ==
  /\ Spec
  /\ \A r \in Reader : WF_vars(Read(r))
  /\ \A e \in Emitter : WF_vars(Emit(e))
-----------------------------------------------------------------------------
(* Properties *)

\* Type invariant of the signal reader, its requests and the emissions; the
\* lock is held across steps by a read about to return, and only then.
TypeOK ==
  /\ lock \in Reader \cup {None}
  /\ \A r \in Reader : lock = r <=> rpc[r] \in {"take", "clear"}
  /\ waiting \in BOOLEAN /\ finite \in BOOLEAN
  /\ callback \in Callback \cup {None}
  /\ rpc \in [Reader -> {"idle", "asleep", "woken", "expired", "take", "clear"}]
  /\ timed \in [Reader -> BOOLEAN]
  /\ closure \in [Reader -> (1 .. MaxReads) \cup {None}]
  /\ out \in [Reader -> Callback \cup {None}]
  /\ epc \in [Emitter -> {"idle", "next", "write", "signal"}]
  /\ event \in [Emitter -> 0 .. MaxEmissions]
  /\ todo \in [Emitter -> SUBSET (1 .. MaxReads)]
  /\ running \in [Emitter -> (1 .. MaxReads) \cup {None}]
  /\ reads \in 0 .. MaxReads /\ emissions \in 0 .. MaxEmissions
  /\ disconnects \in 0 .. MaxDisconnects
  /\ given \subseteq Callback

\* A callback is handed to one request at most (each drops a reference to it
\* when it has answered), although the marshaller writes the pointer without
\* the lock while a read takes it.
HandedOutOnce ==
  \A r \in Reader : out[r] # None =>
    /\ out[r] \notin given
    /\ \A s \in Reader \ {r} : out[s] # out[r]

\* Nobody but r reads the signal.
Alone(r) == \A s \in Reader \ {r} : rpc[s] = "idle"

\* A read whose closure the signal runs ends, unless another read comes and
\* takes its wakeup: whatever the emissions, the timeout and a disconnect do to
\* the flag and the callback, a reader on its own does not miss the signal.
SignalEndsRead ==
  \A r \in Reader, e \in Emitter :
    (epc[e] = "write" /\ running[e] = closure[r] /\ Alone(r))
      ~> (rpc[r] = "idle" \/ ~Alone(r))

\* A read with a timeout ends, whatever becomes of the signal.
TimedReadEnds == \A r \in Reader : timed[r] ~> (rpc[r] = "idle")
=============================================================================
