-------------------------- MODULE HttpServerProofs --------------------------
(***************************************************************************)
(* Proofs about HttpServer for any number of messages and of workers.      *)
(***************************************************************************)
EXTENDS HttpServer, TLAPS

(* The inductive invariant. *)

\* The callback has a message while it handles one, and a worker while it serves one.
Handling ==
  /\ mpc \in {"status", "clock_sync", "target", "iterate", "push", "failed"} => mmsg \in Message
  /\ mpc = "iterate" => targets > 0
Serving == \A w \in Worker : wpc[w] \in {"parse", "work", "respond"} => wreq[w] \in Message

\* Who is to resume a paused message: the callback that has yet to push it, the queue, or a
\* worker.
Holds(q, m) == \E i \in 1 .. Len(q) : q[i] = m
Served(m) == \E w \in Worker : wpc[w] \in {"parse", "work", "respond"} /\ wreq[w] = m
Pending ==
  \A m \in Message : msg[m] = "paused" =>
    (mpc = "push" /\ mmsg = m) \/ Holds(queue, m) \/ Served(m)

\* The pool that was freed has neither requests nor threads at work, and gets none.
PoolFreed == mpc = "off" => queue = <<>> /\ Busy = {}

HttpInv == TypeOK /\ Handling /\ Serving /\ Pending /\ PoolFreed

-----------------------------------------------------------------------------

USE HttpServerAssumption DEF Message, mainVars, workerVars

\* What a queue holds after a push ...
LEMMA PushQueue ==
  ASSUME NEW S, NEW q \in Seq(S), NEW m \in S, NEW x
  PROVE  Holds(Append(q, m), x) <=> Holds(q, x) \/ x = m
<1>1. ASSUME Holds(q, x) PROVE Holds(Append(q, m), x)
  BY <1>1 DEF Holds
<1>2. Append(q, m)[Len(q) + 1] = m
  OBVIOUS
<1>3. Holds(Append(q, m), x) => Holds(q, x) \/ x = m
  BY DEF Holds
<1> QED
  BY <1>1, <1>2, <1>3 DEF Holds

\* ... and after a request was taken.
LEMMA TailQueue ==
  ASSUME NEW S, NEW q \in Seq(S), q # <<>>
  PROVE  /\ Head(q) \in S /\ Tail(q) \in Seq(S) /\ Holds(q, Head(q))
         /\ \A x : Holds(q, x) => x = Head(q) \/ Holds(Tail(q), x)
         /\ \A x : Holds(Tail(q), x) => Holds(q, x)
<1>1. Head(q) \in S /\ Tail(q) \in Seq(S) /\ Head(q) = q[1] /\ Len(q) > 0
  OBVIOUS
<1>2. ASSUME NEW i \in 1 .. Len(q), i # 1
      PROVE  i - 1 \in 1 .. Len(Tail(q)) /\ Tail(q)[i - 1] = q[i]
  <2>1. Len(q) \in Nat /\ Len(Tail(q)) = Len(q) - 1 /\ i - 1 \in 1 .. Len(q) - 1
    BY <1>1, <1>2
  <2>2. \A j \in 1 .. Len(q) - 1 : Tail(q)[j] = q[j + 1]
    BY <1>1
  <2>3. (i - 1) + 1 = i
    OBVIOUS
  <2> QED
    BY <2>1, <2>2, <2>3
<1>3. ASSUME NEW i \in 1 .. Len(Tail(q)) PROVE i + 1 \in 1 .. Len(q) /\ Tail(q)[i] = q[i + 1]
  OBVIOUS
<1> QED
  BY <1>1, <1>2, <1>3 DEF Holds

\* The server starts with nothing to do.
LEMMA InitHttp == Init => HttpInv
<1> SUFFICES ASSUME Init PROVE HttpInv
  OBVIOUS
<1>1. TypeOK
  BY DEF Init, TypeOK
<1>2. Handling /\ Serving /\ Pending /\ PoolFreed
  BY DEF Init, Handling, Serving, Pending, PoolFreed
<1> QED
  BY <1>1, <1>2 DEF HttpInv

\* Every step keeps the types.
LEMMA TypeStep ==
  ASSUME TypeOK, Handling, Serving, [Next]_vars
  PROVE  TypeOK'
<1> USE DEF TypeOK, Fast, Pooled
<1>1. ASSUME NEW m \in Message, soup_receive(m) PROVE TypeOK'
  BY <1>1 DEF soup_receive
<1>2. CASE http_stop
  BY <1>2 DEF http_stop
<1>3. ASSUME NEW m \in Message, server_callback(m) PROVE TypeOK'
  BY <1>3 DEF server_callback, FastPath
<1>4. ASSUME NEW m \in Message, soup_write(m) PROVE TypeOK'
  BY <1>4 DEF soup_write
<1>5. CASE handle_pipelines_status
  BY <1>5 DEF handle_pipelines_status, Answered, Unpaused
<1>6. CASE handle_clock_sync
  BY <1>6 DEF handle_clock_sync, Answered, Unpaused
<1>7. CASE clock_sync_target \/ clock_sync_iterate
  <2>1. /\ mpc' \in {"loop", "target", "iterate"} /\ targets' \in {targets, targets - 1}
        /\ targets' = targets - 1 => targets > 0
        /\ UNCHANGED <<kind, queue, wpc, wreq, lock, freed>>
    BY <1>7 DEF clock_sync_target, clock_sync_iterate, Answered, Handling
  <2>2. mmsg' \in {mmsg, None} /\ msg' \in {msg, [msg EXCEPT ![mmsg] = "answered"]}
    BY <1>7 DEF clock_sync_target, clock_sync_iterate, Answered, Unpaused
  <2>3. targets' \in 0 .. MaxTargets
    BY <2>1
  <2> QED
    BY <2>1, <2>2, <2>3
<1>8. CASE thread_pool_push
  <2>1. mmsg \in Message
    BY <1>8 DEF thread_pool_push, Handling
  <2>2. queue' \in Seq(Message)
    BY <1>8, <2>1 DEF thread_pool_push
  <2>3. wpc' \in [Worker -> {"none", "idle", "parse", "work", "respond"}]
    BY <1>8 DEF thread_pool_push, Unborn
  <2>4. lock # None => wpc'[lock] = "work"
    BY <1>8 DEF thread_pool_push, Unborn
  <2> QED
    BY <1>8, <2>2, <2>3, <2>4 DEF thread_pool_push
<1>9. CASE server_callback_unqueued
  BY <1>9 DEF server_callback_unqueued, Answered, Unpaused, Handling
<1>10. CASE http_stop_free
  BY <1>10 DEF http_stop_free
<1>11. ASSUME NEW w \in Worker, do_request(w) PROVE TypeOK'
  <2>1. Head(queue) \in Message /\ Tail(queue) \in Seq(Message)
    BY <1>11, TailQueue DEF do_request
  <2> QED
    BY <1>11, <2>1 DEF do_request, Goto, Idle
<1>12. ASSUME NEW w \in Worker, parse_cmd(w) PROVE TypeOK'
  <2>1. wpc[w] = "parse" /\ wpc' \in [Worker -> {"none", "idle", "parse", "work", "respond"}]
    BY <1>12 DEF parse_cmd, Goto
  <2>2. lock' = lock \/ (lock' = w /\ wpc'[w] = "work")
    BY <1>12 DEF parse_cmd, Goto
  <2>3. \A v \in Worker \ {w} : wpc'[v] = wpc[v]
    BY <1>12 DEF parse_cmd, Goto
  <2>4. lock' \in Worker \cup {None} /\ (lock' # None => wpc'[lock'] = "work")
    BY <2>1, <2>2, <2>3
  <2> QED
    BY <1>12, <2>1, <2>4 DEF parse_cmd
<1>13. ASSUME NEW w \in Worker, command_ends(w) PROVE TypeOK'
  BY <1>13 DEF command_ends, Goto, Released
<1>14. ASSUME NEW w \in Worker, do_request_unpause(w) PROVE TypeOK'
  BY <1>14 DEF do_request_unpause, Goto, Unpaused, Serving
<1>15. CASE UNCHANGED vars
  BY <1>15 DEF vars
<1> QED
  BY <1>1, <1>2, <1>3, <1>4, <1>5, <1>6, <1>7, <1>8, <1>9, <1>10, <1>11, <1>12, <1>13, <1>14,
     <1>15 DEF Next, Main, Work

\* Every step keeps what is said of the message that is handled and of those that are served.
LEMMA HandlingStep ==
  ASSUME TypeOK, Handling, Serving, [Next]_vars
  PROVE  Handling' /\ Serving'
<1> USE DEF TypeOK, Handling, Serving, Fast, Pooled
<1>1. ASSUME NEW m \in Message, soup_receive(m) \/ server_callback(m) \/ soup_write(m)
      PROVE  Handling' /\ Serving'
  <2>1. mpc' # "iterate" \/ UNCHANGED <<mpc, mmsg, targets>>
    BY <1>1 DEF soup_receive, server_callback, soup_write, FastPath
  <2> QED
    BY <1>1, <2>1 DEF soup_receive, server_callback, soup_write
<1>2. CASE handle_pipelines_status \/ handle_clock_sync \/ clock_sync_target
           \/ clock_sync_iterate \/ server_callback_unqueued \/ http_stop \/ http_stop_free
  BY <1>2 DEF handle_pipelines_status, handle_clock_sync, clock_sync_target,
              clock_sync_iterate, server_callback_unqueued, http_stop, http_stop_free, Answered
<1>3. CASE thread_pool_push
  BY <1>3 DEF thread_pool_push, Unborn
<1>4. ASSUME NEW w \in Worker, do_request(w) PROVE Handling' /\ Serving'
  <2>1. Head(queue) \in Message
    BY <1>4, TailQueue DEF do_request
  <2> QED
    BY <1>4, <2>1 DEF do_request, Goto
<1>5. ASSUME NEW w \in Worker, parse_cmd(w) \/ command_ends(w) \/ do_request_unpause(w)
      PROVE  Handling' /\ Serving'
  BY <1>5 DEF parse_cmd, command_ends, do_request_unpause, Goto
<1>6. CASE UNCHANGED vars
  BY <1>6 DEF vars
<1> QED
  BY <1>1, <1>2, <1>3, <1>4, <1>5, <1>6 DEF Next, Main, Work

\* Every paused message still has someone to resume it after a step.
LEMMA PendingStep ==
  ASSUME TypeOK, Handling, Serving, Pending, [Next]_vars
  PROVE  Pending'
<1> USE DEF TypeOK
<1> SUFFICES ASSUME NEW m \in Message, msg'[m] = "paused"
             PROVE  (mpc' = "push" /\ mmsg' = m) \/ Holds(queue', m)
                    \/ \E w \in Worker : wpc'[w] \in {"parse", "work", "respond"} /\ wreq'[w] = m
  BY DEF Pending, Served, Holds
<1>1. ASSUME NEW k \in Message, soup_receive(k) \/ server_callback(k) \/ soup_write(k)
      PROVE  (mpc' = "push" /\ mmsg' = m) \/ Holds(queue', m)
             \/ \E w \in Worker : wpc'[w] \in {"parse", "work", "respond"} /\ wreq'[w] = m
  <2>1. UNCHANGED <<queue, wpc, wreq>>
    BY <1>1 DEF soup_receive, server_callback, soup_write
  <2>2. CASE msg[m] = "paused"
    <3>1. mpc = "push" => UNCHANGED <<mpc, mmsg>>
      BY <1>1 DEF soup_receive, server_callback, soup_write
    <3> QED
      BY <2>1, <2>2, <3>1 DEF Pending, Served
  <2>3. CASE msg[m] # "paused"
    BY <1>1, <2>3 DEF soup_receive, server_callback, soup_write
  <2> QED
    BY <2>2, <2>3
<1>2. CASE handle_pipelines_status \/ handle_clock_sync \/ clock_sync_target
           \/ clock_sync_iterate \/ server_callback_unqueued \/ http_stop \/ http_stop_free
  <2>1. msg[m] = "paused" /\ mpc # "push" /\ UNCHANGED <<queue, wpc, wreq>>
    BY <1>2 DEF handle_pipelines_status, handle_clock_sync, clock_sync_target, clock_sync_iterate,
                server_callback_unqueued, http_stop, http_stop_free, Answered, Unpaused
  <2> QED
    BY <2>1 DEF Pending, Served
<1>3. CASE thread_pool_push
  <2>1. /\ mpc = "push" /\ mmsg \in Message /\ queue' = Append(queue, mmsg)
        /\ UNCHANGED <<msg, wreq>>
    BY <1>3 DEF thread_pool_push, Handling
  <2>2. \A w \in Worker : wpc[w] \in {"parse", "work", "respond"} => wpc'[w] = wpc[w]
    BY <1>3 DEF thread_pool_push, Unborn
  <2> QED
    <3>1. mmsg = m \/ Holds(queue, m) \/ Served(m)
      BY <2>1 DEF Pending
    <3>2. Holds(queue', m) <=> Holds(queue, m) \/ m = mmsg
      BY <2>1, PushQueue
    <3>3. CASE Served(m)
      BY <2>1, <2>2, <3>3 DEF Served
    <3> QED
      BY <3>1, <3>2, <3>3
<1>4. ASSUME NEW v \in Worker, do_request(v)
      PROVE  (mpc' = "push" /\ mmsg' = m) \/ Holds(queue', m)
             \/ \E w \in Worker : wpc'[w] \in {"parse", "work", "respond"} /\ wreq'[w] = m
  <2>1. /\ queue # <<>> /\ queue' = Tail(queue) /\ wpc[v] = "idle" /\ wpc'[v] = "parse"
        /\ wreq'[v] = Head(queue) /\ UNCHANGED <<mpc, mmsg, msg>>
        /\ \A w \in Worker \ {v} : wpc'[w] = wpc[w] /\ wreq'[w] = wreq[w]
    BY <1>4 DEF do_request, Goto, Idle
  <2>2. Holds(queue, m) => m = Head(queue) \/ Holds(Tail(queue), m)
    BY <2>1, TailQueue
  <2> QED
    <3>1. (mpc = "push" /\ mmsg = m) \/ Holds(queue, m) \/ Served(m)
      BY <2>1 DEF Pending
    <3>2. CASE Served(m)
      BY <2>1, <3>2 DEF Served
    <3> QED
      BY <2>1, <2>2, <3>1, <3>2
<1>5. ASSUME NEW v \in Worker, parse_cmd(v) \/ command_ends(v) \/ do_request_unpause(v)
      PROVE  (mpc' = "push" /\ mmsg' = m) \/ Holds(queue', m)
             \/ \E w \in Worker : wpc'[w] \in {"parse", "work", "respond"} /\ wreq'[w] = m
  <2>1. /\ UNCHANGED <<mpc, mmsg, queue>> /\ msg[m] = "paused"
        /\ \A w \in Worker \ {v} : wpc'[w] = wpc[w] /\ wreq'[w] = wreq[w]
        /\ \/ wpc'[v] \in {"parse", "work", "respond"} /\ wreq'[v] = wreq[v]
           \/ wreq[v] # m
    BY <1>5 DEF parse_cmd, command_ends, do_request_unpause, Goto, Unpaused
  <2> QED
    BY <2>1 DEF Pending, Served
<1>6. CASE UNCHANGED vars
  BY <1>6 DEF vars, Pending, Served
<1> QED
  BY <1>1, <1>2, <1>3, <1>4, <1>5, <1>6 DEF Next, Main, Work

\* The pool that was freed stays as it was.
LEMMA PoolStep ==
  ASSUME TypeOK, PoolFreed, [Next]_vars
  PROVE  PoolFreed'
<1> USE DEF TypeOK, PoolFreed, Busy
<1>1. CASE mpc' # "off"
  BY <1>1
<1>2. CASE mpc' = "off" /\ mpc # "off"
  <2>1. http_stop_free
    BY <1>2 DEF Next, Main, Work, vars, soup_receive, http_stop, server_callback, soup_write,
       handle_pipelines_status, handle_clock_sync, clock_sync_target, clock_sync_iterate,
       thread_pool_push,
       server_callback_unqueued, do_request, parse_cmd, command_ends, do_request_unpause,
       Answered, FastPath, Fast
  <2> QED
    BY <2>1 DEF http_stop_free, Drained
<1>3. CASE mpc' = "off" /\ mpc = "off"
  <2>1. queue = <<>> /\ \A w \in Worker : wpc[w] \in {"none", "idle"}
    BY <1>3
  <2>2. UNCHANGED <<queue, wpc>>
    BY <1>3, <2>1 DEF Next, Main, Work, vars, soup_receive, http_stop, server_callback, soup_write,
       handle_pipelines_status, handle_clock_sync, clock_sync_target, clock_sync_iterate,
       thread_pool_push,
       server_callback_unqueued, http_stop_free, do_request, parse_cmd, command_ends,
       do_request_unpause
  <2> QED
    BY <2>1, <2>2
<1> QED
  BY <1>1, <1>2, <1>3

\* The invariant of the server holds in every state.
LEMMA HttpHolds == Spec => []HttpInv
<1>1. HttpInv /\ [Next]_vars => HttpInv'
  BY TypeStep, HandlingStep, PendingStep, PoolStep DEF HttpInv
<1> QED
  BY InitHttp, <1>1, PTL DEF Spec

-----------------------------------------------------------------------------

\* The HTTP server is well typed, and only a worker that runs a command holds the lock of
\* the list across steps.
THEOREM HttpTypeCorrect == Spec => []TypeOK
BY HttpHolds, PTL DEF HttpInv

\* Once the pool is gone no message is left paused.
THEOREM AllResumed == Spec => []PendingServed
<1>1. HttpInv => PendingServed
  BY DEF HttpInv, PoolFreed, Pending, PendingServed, Served, Holds, Busy
<1> QED
  BY HttpHolds, <1>1, PTL
=============================================================================
