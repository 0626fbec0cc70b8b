-------------------------- MODULE PipelineBusProofs --------------------------
(***************************************************************************)
(* Proofs about PipelineBus for any waiters, message types and bounds.     *)
(***************************************************************************)
EXTENDS PipelineBus, TLAPS

(* The inductive invariant. *)

\* A bus thread that has still to write its result.
Reading == {"send", "get_timeout", "get_types", "pop", "flush", "callback"}

\* A thread runs only while its caller waits, and "waiting" is 1 until it has answered.
Sync(w) ==
  /\ caller[w] \in {"idle", "types", "timeout"} => thread[w] = "none"
  /\ thread[w] \in Reading \cup {"gone", "unanswered"} => waiting[w]
  /\ caller[w] \in {"types", "timeout"} => waiting[w]
  /\ thread[w] = "dead" <=> caller[w] = "dead"

\* Settings that a wait wrote last are what it asked for.
Settings(w) ==
  /\ caller[w] = "types" => setBy["types"] # w
  /\ caller[w] \in {"types", "timeout"} => setBy["timeout"] # w
  /\ caller[w] \in {"timeout", "lock", "check", "cond"} /\ setBy["types"] = w
       => types = req[w].types
  /\ caller[w] \in {"lock", "check", "cond"} /\ setBy["timeout"] = w
       => timeout = req[w].timeout

\* So are the worker's copies of them.
Snapped(w) ==
  /\ thread[w] \in {"get_types", "pop", "flush"} /\ own[w] => snap[w].timeout = req[w].timeout
  /\ thread[w] \in {"pop", "flush"} /\ own[w] => snap[w].types = req[w].types
  /\ thread[w] = "flush" => snap[w].types = {}

\* What a wait with settings of its own may be answered.
Fits(w) ==
  /\ reply[w] \in Type => reply[w] \in req[w].types
  /\ reply[w] = "null" => req[w].timeout # "forever" \/ req[w].types = {}

\* A result is there once the thread has written it, and fits from the answer on.
Result(w) ==
  /\ thread[w] \in Reading \/ caller[w] \in {"types", "timeout"} => status[w] = "none"
  /\ status[w] = "OK" => reply[w] \in Type
  /\ status[w] = "BUS_TIMEOUT" => reply[w] \in {"null", "refusal"}
  /\ own[w] /\ (thread[w] = "callback" \/ status[w] \in {"OK", "BUS_TIMEOUT"}) => Fits(w)

Wait(w) == Sync(w) /\ Settings(w) /\ Snapped(w) /\ Result(w)
Waits == \A w \in Waiter : Wait(w)

\* A step leaves a wait alone: what is its own stays, and the shared settings are no more its
\* own than they were.
Alone(w) ==
  /\ caller'[w] = caller[w] /\ thread'[w] = thread[w] /\ req'[w] = req[w] /\ snap'[w] = snap[w]
  /\ own'[w] = own[w] /\ reply'[w] = reply[w] /\ waiting'[w] = waiting[w] /\ status'[w] = status[w]
  /\ setBy'["types"] = w => setBy["types"] = w /\ types' = types
  /\ setBy'["timeout"] = w => setBy["timeout"] = w /\ timeout' = timeout

-----------------------------------------------------------------------------
(* Types *)

\* What is left of a queue is a queue.
LEMMA TailType ==
  ASSUME NEW S, NEW q \in Seq(S), q # <<>>
  PROVE  Head(q) \in S /\ Tail(q) \in Seq(S)
OBVIOUS

USE WantsAssumption, BusAssumption DEF Timeout, Reader, Reply

\* The bus and its readers start well typed.
LEMMA InitType == Init => TypeOK
<1> SUFFICES ASSUME Init PROVE TypeOK
  OBVIOUS
<1>1. \A w \in Waiter :
        (CHOOSE q \in Wants[w] : TRUE) \in [types : SUBSET Type, timeout : {"now", "timed", "forever"}]
  OBVIOUS
<1>2. req \in [Waiter -> [types : SUBSET Type, timeout : {"now", "timed", "forever"}]]
  BY <1>1 DEF Init
<1>3. types \in SUBSET Type
  BY DEF Init
<1>4. snap \in [Reader -> [types : SUBSET Type, timeout : {"now", "timed", "forever"}]]
  BY DEF Init, NoFilter
<1>5. queue \in Seq(Type) /\ posted \in 0 .. MaxPosts
  BY DEF Init
<1>6. setBy \in [{"types", "timeout"} -> Waiter \cup {Nobody}]
  BY DEF Init
<1>7. waits \in [Waiter -> 0 .. MaxWaits]
  BY DEF Init
<1> QED
  BY <1>2, <1>3, <1>4, <1>5, <1>6, <1>7 DEF Init, TypeOK

\* Every step keeps them so.
LEMMA TypeStep == TypeOK /\ [Next]_vars => TypeOK'
<1> SUFFICES ASSUME TypeOK, [Next]_vars PROVE TypeOK'
  OBVIOUS
<1> USE DEF TypeOK, props, gstbus, data, CallerGoto, ThreadGoto
<1>1. CASE post
  BY <1>1 DEF post
<1>2. CASE delete
  BY <1>2 DEF delete
<1>3. ASSUME NEW w \in Waiter, bus_wait(w) PROVE TypeOK'
  BY <1>3 DEF bus_wait
<1>4. ASSUME NEW w \in Waiter, update_types(w) PROVE TypeOK'
  <2>1. CASE CallerGoto(w, "timeout") /\ set_types(w) /\ UNCHANGED status
    BY <1>4, <2>1 DEF update_types, set_types
  <2>2. CASE UNCHANGED props
    <3>1. CASE CallerGoto(w, "timeout") /\ UNCHANGED status
      BY <1>4, <2>2, <3>1 DEF update_types
    <3>2. CASE CallerGoto(w, "idle") /\ status' = [status EXCEPT ![w] = "OOM"]
      BY <1>4, <2>2, <3>2 DEF update_types
    <3> QED
      BY <1>4, <3>1, <3>2 DEF update_types
  <2> QED
    BY <1>4, <2>1, <2>2 DEF update_types
<1>5. ASSUME NEW w \in Waiter, update_timeout(w) PROVE TypeOK'
  <2>1. timeout' \in Timeout /\ types' \in SUBSET Type
    BY <1>5 DEF update_timeout, set_timeout
  <2>2. setBy' \in [{"types", "timeout"} -> Waiter \cup {Nobody}]
    <3>1. CASE set_timeout(w)
      BY <3>1 DEF set_timeout
    <3>2. CASE UNCHANGED props
      BY <3>2
    <3> QED
      BY <1>5, <3>1, <3>2 DEF update_timeout
  <2>3. CASE CallerGoto(w, "lock") /\ ThreadGoto(w, "send") /\ UNCHANGED status
    BY <1>5, <2>1, <2>2, <2>3 DEF update_timeout
  <2>4. CASE CallerGoto(w, "idle") /\ status' = [status EXCEPT ![w] = "THREAD_ERROR"] /\ UNCHANGED thread
    BY <1>5, <2>1, <2>2, <2>4 DEF update_timeout
  <2> QED
    BY <1>5, <2>3, <2>4 DEF update_timeout, thread_new
<1>6. ASSUME NEW w \in Waiter, mutex_lock(w) PROVE TypeOK'
  BY <1>6 DEF mutex_lock, MutexFree, Woken
<1>7. ASSUME NEW w \in Waiter, cond_wait(w) PROVE TypeOK'
  BY <1>7 DEF cond_wait
<1>8. ASSUME NEW w \in Waiter, spurious_wakeup(w) PROVE TypeOK'
  BY <1>8 DEF spurious_wakeup, MutexFree, Woken
<1>9. ASSUME NEW w \in Waiter, bus_thread(w) PROVE TypeOK'
  <2>1. CASE ThreadGoto(w, "get_timeout") /\ UNCHANGED <<reply, caller>>
    BY <1>9, <2>1 DEF bus_thread
  <2>2. ASSUME NEW m \in {"refusal", "garbage"},
               ThreadGoto(w, "callback"), reply' = [reply EXCEPT ![w] = m], UNCHANGED caller
        PROVE  TypeOK'
    BY <1>9, <2>2 DEF bus_thread
  <2>3. CASE ThreadGoto(w, "dead") /\ CallerGoto(w, "dead") /\ UNCHANGED reply
    BY <1>9, <2>3 DEF bus_thread
  <2>4. ASSUME NEW l \in {"gone", "unanswered"}, ThreadGoto(w, l), UNCHANGED <<caller, reply>>
        PROVE  TypeOK'
    BY <1>9, <2>4 DEF bus_thread
  <2> QED
    BY <1>9, <2>1, <2>2, <2>3, <2>4 DEF bus_thread, bus_read
<1>10. ASSUME NEW w \in Waiter, get_timeout(w) PROVE TypeOK'
  BY <1>10 DEF get_timeout
<1>11. ASSUME NEW w \in Waiter, get_types(w) PROVE TypeOK'
  BY <1>11 DEF get_types
<1>12. ASSUME NEW w \in Waiter, end_flush(w) PROVE TypeOK'
  BY <1>12 DEF end_flush, Answered, NoFilter
<1>13. ASSUME NEW w \in Waiter, bus_wait_callback(w) PROVE TypeOK'
  BY <1>13 DEF bus_wait_callback, StatusOf, cond_signal
<1>14. ASSUME NEW w \in Waiter, callback_unlock(w) PROVE TypeOK'
  BY <1>14 DEF callback_unlock
<1>15. ASSUME NEW r \in Reader, timed_pop_filtered(r) PROVE TypeOK'
  <2>1. queue' \in Seq(Type)
    <3>1. queue' = queue \/ (queue # <<>> /\ queue' = Tail(queue))
      BY <1>15 DEF timed_pop_filtered
    <3>2. queue # <<>> => Tail(queue) \in Seq(Type)
      BY TailType
    <3> QED
      BY <3>1, <3>2
  <2>2. ASSUME NEW m \in Type \cup {"null"}, Answered(r, m) PROVE TypeOK'
    BY <1>15, <2>1, <2>2 DEF timed_pop_filtered, Answered, NoFilter
  <2>3. CASE UNCHANGED <<reply, thread, snap>>
    BY <1>15, <2>1, <2>3 DEF timed_pop_filtered
  <2>4. queue # <<>> => Head(queue) \in Type
    BY TailType
  <2> QED
    BY <1>15, <2>2, <2>3, <2>4 DEF timed_pop_filtered
<1>16. ASSUME NEW r \in Changer, state_update_failed(r) PROVE TypeOK'
  BY <1>16 DEF state_update_failed
<1>17. CASE UNCHANGED vars
  BY <1>17 DEF vars
<1> QED
  BY <1>1, <1>2, <1>3, <1>4, <1>5, <1>6, <1>7, <1>8, <1>9, <1>10, <1>11, <1>12, <1>13, <1>14,
     <1>15, <1>16, <1>17 DEF Next, CallerStep, ThreadStep

\* The bus, its readers and the waits of the client library are well typed, and whoever
\* holds the mutex is where the code holds it.
THEOREM BusTypeCorrect == Spec => []TypeOK
BY InitType, TypeStep, PTL DEF Spec

-----------------------------------------------------------------------------
(* The waits *)

\* A wait that a step leaves alone stays as it is.
LEMMA AloneStep ==
  ASSUME NEW w \in Waiter, Wait(w), Alone(w)
  PROVE  Wait(w)'
<1>1. Sync(w)'
  BY DEF Wait, Alone, Sync, Reading
<1>2. Settings(w)'
  BY DEF Wait, Alone, Settings
<1>3. Snapped(w)'
  BY DEF Wait, Alone, Snapped
<1>4. Result(w)'
  BY DEF Wait, Alone, Result, Fits, Reading
<1> QED
  BY <1>1, <1>2, <1>3, <1>4 DEF Wait

\* A step of one wait keeps them all if it keeps that one and leaves the others alone.
LEMMA OneStep ==
  ASSUME Waits, NEW w \in Waiter, Wait(w)', \A v \in Waiter \ {w} : Alone(v)
  PROVE  Waits'
BY AloneStep DEF Waits

\* Nobody waits at first.
LEMMA InitWaits == Init => Waits
<1> SUFFICES ASSUME Init, NEW w \in Waiter PROVE Wait(w)
  BY DEF Waits
<1>1. caller[w] = "idle" /\ thread[w] = "none" /\ status[w] = "none" /\ own[w] = FALSE
  BY DEF Init
<1> QED
  BY <1>1 DEF Wait, Sync, Settings, Snapped, Result, Reading

\* A step that changes neither a thread nor a setting keeps the waits.
LEMMA WaitsFrame ==
  ASSUME Waits, UNCHANGED <<props, caller, req, thread, snap, own, reply, waiting, status>>
  PROVE  Waits'
BY AloneStep DEF Waits, Alone, props

\* The calling thread's steps keep them.
LEMMA CallerWaits ==
  ASSUME TypeOK, Waits, NEW w \in Waiter,
         bus_wait(w) \/ CallerStep(w) \/ spurious_wakeup(w)
  PROVE  Waits'
<1> USE DEF TypeOK, CallerGoto
<1>0. Wait(w)
  BY DEF Waits
<1>1. CASE bus_wait(w)
  <2>1. \A v \in Waiter \ {w} : Alone(v)
    BY <1>1 DEF bus_wait, Alone
  <2>2. /\ caller[w] = "idle" /\ caller'[w] = "types" /\ status'[w] = "none"
        /\ thread'[w] = thread[w] /\ waiting'[w]
        /\ setBy'["types"] # w /\ setBy'["timeout"] # w
    BY <1>1 DEF bus_wait
  <2>3. thread'[w] = "none"
    BY <1>0, <2>2 DEF Wait, Sync
  <2>4. Wait(w)'
    BY <2>2, <2>3 DEF Wait, Sync, Settings, Snapped, Result, Reading
  <2> QED
    BY <2>1, <2>4, OneStep
<1>2. CASE update_types(w)
  <2>1. \A v \in Waiter \ {w} : Alone(v)
    BY <1>2 DEF update_types, set_types, props, Alone
  <2>2. /\ caller[w] = "types" /\ UNCHANGED <<req, thread, snap, own, reply, waiting>>
        /\ \/ caller'[w] = "timeout" /\ status'[w] = status[w]
           \/ caller'[w] = "idle" /\ status'[w] = "OOM"
    BY <1>2 DEF update_types
  <2>3. /\ setBy'["timeout"] = setBy["timeout"]
        /\ setBy'["types"] = w => types' = req[w].types
    <3>1. CASE set_types(w)
      BY <3>1 DEF set_types
    <3>2. CASE UNCHANGED props
      BY <1>0, <2>2, <3>2 DEF props, Wait, Settings
    <3> QED
      BY <1>2, <3>1, <3>2 DEF update_types
  <2>4. Sync(w)' /\ Settings(w)'
    BY <1>0, <2>2, <2>3 DEF Wait, Sync, Settings, Reading
  <2>5. Snapped(w)' /\ Result(w)'
    BY <1>0, <2>2 DEF Wait, Sync, Snapped, Result, Fits, Reading
  <2> QED
    BY <2>1, <2>4, <2>5, OneStep DEF Wait
<1>3. CASE update_timeout(w)
  <2>1. \A v \in Waiter \ {w} : Alone(v)
    <3>1. \A v \in Waiter \ {w} :
            /\ caller'[v] = caller[v] /\ thread'[v] = thread[v] /\ status'[v] = status[v]
      BY <1>3 DEF update_timeout, thread_new, ThreadGoto
    <3>2. \A v \in Waiter \ {w} :
            /\ setBy'["types"] = v => setBy["types"] = v /\ types' = types
            /\ setBy'["timeout"] = v => setBy["timeout"] = v /\ timeout' = timeout
      BY <1>3 DEF update_timeout, set_timeout, props
    <3> QED
      BY <1>3, <3>1, <3>2 DEF update_timeout, Alone
  <2>2. /\ caller[w] = "timeout" /\ UNCHANGED <<req, snap, own, reply, waiting>>
        /\ \/ caller'[w] = "lock" /\ thread'[w] = "send" /\ status'[w] = status[w]
           \/ caller'[w] = "idle" /\ thread'[w] = thread[w] /\ status'[w] = "THREAD_ERROR"
    BY <1>3 DEF update_timeout, thread_new, ThreadGoto
  <2>3. /\ setBy'["types"] = setBy["types"] /\ types' = types
        /\ setBy'["timeout"] = w => timeout' = req[w].timeout
    <3>1. CASE set_timeout(w)
      BY <3>1 DEF set_timeout
    <3>2. CASE UNCHANGED props
      BY <1>0, <2>2, <3>2 DEF props, Wait, Settings
    <3> QED
      BY <1>3, <3>1, <3>2 DEF update_timeout
  <2>4. Sync(w)'
    BY <1>0, <2>2 DEF Wait, Sync, Reading
  <2>5. Settings(w)'
    BY <1>0, <2>2, <2>3 DEF Wait, Settings
  <2>6. Snapped(w)' /\ Result(w)'
    BY <1>0, <2>2 DEF Wait, Sync, Snapped, Result, Fits, Reading
  <2> QED
    BY <2>1, <2>4, <2>5, <2>6, OneStep DEF Wait
<1>4. CASE mutex_lock(w) \/ cond_wait(w) \/ spurious_wakeup(w)
  <2>1. /\ UNCHANGED <<props, req, thread, snap, own, reply, waiting, status>>
        /\ \A v \in Waiter \ {w} : caller'[v] = caller[v]
        /\ caller[w] \in {"lock", "check", "cond"}
        /\ \/ caller'[w] \in {"check", "cond"}
           \/ caller'[w] = "idle" /\ caller[w] = "check" /\ ~waiting[w]
    BY <1>4 DEF mutex_lock, cond_wait, spurious_wakeup, Woken
  <2>2. \A v \in Waiter \ {w} : Alone(v)
    BY <2>1 DEF props, Alone
  <2>3. Sync(w)'
    BY <1>0, <2>1 DEF Wait, Sync, Reading
  <2>4. Settings(w)' /\ Snapped(w)' /\ Result(w)'
    BY <1>0, <2>1 DEF props, Wait, Settings, Snapped, Result, Fits, Reading
  <2> QED
    BY <2>2, <2>3, <2>4, OneStep DEF Wait
<1> QED
  BY <1>1, <1>2, <1>3, <1>4 DEF CallerStep

\* A caller whose thread runs has sent its settings, and waits.
LEMMA ThreadRuns ==
  ASSUME TypeOK, NEW w \in Waiter, Wait(w), thread[w] \in Reading \cup {"unlock"}
  PROVE  caller[w] \in {"lock", "check", "cond"}
BY DEF TypeOK, Wait, Sync, Reading

\* What the worker's answer does to a wait.
LEMMA AnswerWaits ==
  ASSUME TypeOK, Waits, NEW w \in Waiter, NEW m \in Type \cup {"null"},
         thread[w] \in {"pop", "flush"}, Answered(w, m),
         m \in Type => m \in snap[w].types,
         m = "null" => snap[w].timeout # "forever" \/ snap[w].types = {},
         UNCHANGED <<props, caller, req, own, waiting, status>>
  PROVE  Waits'
<1> USE DEF TypeOK, ThreadGoto
<1>0. Wait(w)
  BY DEF Waits
<1>1. \A v \in Waiter \ {w} : Alone(v)
  BY DEF Answered, props, Alone
<1>2. thread'[w] = "callback" /\ reply'[w] = m
  BY DEF Answered
<1>3. Sync(w)'
  BY <1>0, <1>2 DEF Wait, Sync, Reading
<1>4. Settings(w)' /\ Snapped(w)'
  BY <1>0, <1>2 DEF props, Wait, Settings, Snapped
<1>5. own[w] => snap[w].timeout = req[w].timeout /\ snap[w].types = req[w].types
  BY <1>0 DEF Wait, Snapped
<1>6. Result(w)'
  BY <1>0, <1>2, <1>5 DEF Wait, Result, Fits, Reading
<1> QED
  BY <1>1, <1>3, <1>4, <1>6, OneStep DEF Wait

\* The bus thread's steps keep them, and those of the worker that serves it.
LEMMA ThreadWaits ==
  ASSUME TypeOK, Waits, NEW w \in Waiter, ThreadStep(w)
  PROVE  Waits'
<1> USE DEF TypeOK, ThreadGoto
<1>0. Wait(w)
  BY DEF Waits
<1>1. CASE bus_thread(w)
  <2>1. \A v \in Waiter \ {w} : Alone(v)
    BY <1>1 DEF bus_thread, bus_read, CallerGoto, props, data, Alone
  <2>2. /\ thread[w] = "send" /\ UNCHANGED <<props, req, snap, own, waiting, status>>
        /\ \/ thread'[w] = "get_timeout" /\ reply'[w] = reply[w] /\ caller'[w] = caller[w]
           \/ /\ thread'[w] = "callback" /\ reply'[w] \in {"refusal", "garbage"}
              /\ caller'[w] = caller[w]
           \/ thread'[w] = "dead" /\ caller'[w] = "dead" /\ reply'[w] = reply[w]
           \/ /\ thread'[w] \in {"gone", "unanswered"} /\ reply'[w] = reply[w]
              /\ caller'[w] = caller[w]
    BY <1>1 DEF bus_thread, bus_read, CallerGoto, data
  <2>3. Sync(w)'
    BY <1>0, <2>2 DEF Wait, Sync, Reading
  <2>4. Settings(w)' /\ Snapped(w)'
    BY <1>0, <2>2 DEF props, Wait, Settings, Snapped
  <2>5. Result(w)'
    BY <1>0, <2>2 DEF Wait, Result, Fits, Reading
  <2> QED
    BY <2>1, <2>3, <2>4, <2>5, OneStep DEF Wait
<1>2. CASE get_timeout(w)
  <2>1. \A v \in Waiter \ {w} : Alone(v)
    BY <1>2 DEF get_timeout, props, data, Alone
  <2>2. /\ thread[w] = "get_timeout" /\ thread'[w] = "get_types"
        /\ UNCHANGED <<props, caller, req, reply, waiting, status>>
        /\ snap'[w].timeout = timeout /\ own'[w] = (setBy["timeout"] = w)
    BY <1>2 DEF get_timeout, data
  <2>3. caller[w] \in {"lock", "check", "cond"}
    BY <1>0, <2>2, ThreadRuns DEF Reading
  <2>4. Sync(w)' /\ Settings(w)'
    BY <1>0, <2>2 DEF props, Wait, Sync, Settings, Reading
  <2>5. Snapped(w)'
    BY <1>0, <2>2, <2>3 DEF Wait, Settings, Snapped
  <2>6. Result(w)'
    BY <1>0, <2>2 DEF Wait, Result, Reading
  <2> QED
    BY <2>1, <2>4, <2>5, <2>6, OneStep DEF Wait
<1>3. CASE get_types(w)
  <2>1. \A v \in Waiter \ {w} : Alone(v)
    BY <1>3 DEF get_types, props, data, Alone
  <2>2. /\ thread[w] = "get_types" /\ thread'[w] = IF types = {} THEN "flush" ELSE "pop"
        /\ UNCHANGED <<props, caller, req, reply, waiting, status>>
        /\ snap'[w].timeout = snap[w].timeout /\ snap'[w].types = types
        /\ own'[w] = (own[w] /\ setBy["types"] = w)
    BY <1>3 DEF get_types, data
  <2>3. caller[w] \in {"lock", "check", "cond"}
    BY <1>0, <2>2, ThreadRuns DEF Reading
  <2>4. Sync(w)' /\ Settings(w)'
    BY <1>0, <2>2 DEF props, Wait, Sync, Settings, Reading
  <2>5. Snapped(w)'
    BY <1>0, <2>2, <2>3 DEF Wait, Settings, Snapped
  <2>6. Result(w)'
    BY <1>0, <2>2 DEF Wait, Result, Reading
  <2> QED
    BY <2>1, <2>4, <2>5, <2>6, OneStep DEF Wait
<1>4. CASE end_flush(w)
  <2>1. thread[w] = "flush" /\ snap[w].types = {}
    BY <1>0, <1>4 DEF end_flush, Wait, Snapped
  <2> QED
    BY <1>4, <2>1, AnswerWaits DEF end_flush, data
<1>5. CASE bus_wait_callback(w)
  <2>1. \A v \in Waiter \ {w} : Alone(v)
    BY <1>5 DEF bus_wait_callback, props, Alone
  <2>2. /\ thread[w] = "callback" /\ thread'[w] = "unlock"
        /\ UNCHANGED <<props, caller, req, snap, own, reply>>
        /\ waiting'[w] = FALSE /\ status'[w] = StatusOf(reply[w])
    BY <1>5 DEF bus_wait_callback
  <2>3. caller[w] \in {"lock", "check", "cond"}
    BY <1>0, <2>2, ThreadRuns DEF Reading
  <2>4. Sync(w)' /\ Settings(w)' /\ Snapped(w)'
    BY <1>0, <2>2, <2>3 DEF props, Wait, Sync, Settings, Snapped, Reading
  <2>5. Result(w)'
    BY <1>0, <2>2, <2>3 DEF Wait, Result, Fits, StatusOf, Reading
  <2> QED
    BY <2>1, <2>4, <2>5, OneStep DEF Wait
<1>6. CASE callback_unlock(w)
  <2>1. \A v \in Waiter \ {w} : Alone(v)
    BY <1>6 DEF callback_unlock, props, Alone
  <2>2. /\ thread[w] = "unlock" /\ thread'[w] = "none"
        /\ UNCHANGED <<props, caller, req, snap, own, reply, waiting, status>>
    BY <1>6 DEF callback_unlock
  <2>3. caller[w] \in {"lock", "check", "cond"}
    BY <1>0, <2>2, ThreadRuns
  <2>4. Sync(w)' /\ Settings(w)' /\ Snapped(w)'
    BY <1>0, <2>2, <2>3 DEF props, Wait, Sync, Settings, Snapped, Reading
  <2>5. Result(w)'
    BY <1>0, <2>2, <2>3 DEF Wait, Result, Fits, Reading
  <2> QED
    BY <2>1, <2>4, <2>5, OneStep DEF Wait
<1> QED
  BY <1>1, <1>2, <1>3, <1>4, <1>5, <1>6 DEF ThreadStep

\* A message that is taken off the bus, by a worker or by a change of state.
LEMMA PopWaits ==
  ASSUME TypeOK, Waits, NEW r \in Reader, timed_pop_filtered(r)
  PROVE  Waits'
<1> USE DEF TypeOK, ThreadGoto
<1>1. /\ thread[r] = "pop" /\ UNCHANGED <<props, caller, req, own, waiting, status>>
  BY DEF timed_pop_filtered, data
<1>2. CASE UNCHANGED <<reply, thread, snap>>
  BY <1>1, <1>2, WaitsFrame
<1>3. ASSUME NEW m \in Type \cup {"null"}, Answered(r, m),
             m \in Type => m \in snap[r].types,
             m = "null" => snap[r].timeout # "forever"
      PROVE  Waits'
  <2>1. CASE r \in Waiter
    BY <1>1, <1>3, <2>1, AnswerWaits
  <2>2. CASE r \notin Waiter
    BY <1>1, <1>3, <2>2, AloneStep DEF Answered, props, Alone, Waits
  <2> QED
    BY <2>1, <2>2
<1>4. queue # <<>> => Head(queue) \in Type
  BY TailType
<1> QED
  BY <1>2, <1>3, <1>4 DEF timed_pop_filtered, Matches

\* Every step keeps the waits.
LEMMA WaitsStep == TypeOK /\ Waits /\ [Next]_vars => Waits'
<1> SUFFICES ASSUME TypeOK, Waits, [Next]_vars PROVE Waits'
  OBVIOUS
<1>1. CASE post \/ delete
  BY <1>1, WaitsFrame DEF post, delete, data
<1>2. ASSUME NEW r \in Changer, state_update_failed(r) PROVE Waits'
  <2>1. \A w \in Waiter : Alone(w)
    BY <1>2 DEF TypeOK, state_update_failed, ThreadGoto, props, data, Alone
  <2> QED
    BY <2>1, AloneStep DEF Waits
<1>3. CASE UNCHANGED vars
  BY <1>3, WaitsFrame DEF vars, data
<1> QED
  BY <1>1, <1>2, <1>3, CallerWaits, ThreadWaits, PopWaits DEF Next

\* The waits are as they should be in every state.
LEMMA WaitsHold == Spec => [](TypeOK /\ Waits)
BY InitType, InitWaits, TypeStep, WaitsStep, PTL DEF Spec

\* gstc_pipeline_bus_wait_callback never writes into a stack frame that is gone.
THEOREM FrameAlive == Spec => []StackAlive
<1>1. Waits => StackAlive
  BY DEF Waits, Wait, Sync, StackAlive
<1> QED
  BY <1>1, WaitsHold, PTL

\* A wait whose settings nobody changed returns what it asked for.
THEOREM AnswersAsked == Spec => []AskedFor
<1>1. TypeOK /\ Waits => AskedFor
  BY DEF TypeOK, Waits, Wait, Result, Fits, AskedFor, Returned
<1> QED
  BY <1>1, WaitsHold, PTL
=============================================================================
