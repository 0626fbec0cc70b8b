------------------------- MODULE SignalReaderProofs -------------------------
(***************************************************************************)
(* Proofs about SignalReader for any number of readers and of emitting     *)
(* threads, and any bounds on the reads and emissions.                     *)
(***************************************************************************)
EXTENDS SignalReader, WellFoundedInduction, TLAPS

(* The inductive invariant. *)

\* A read has something to return only between taking the callback and letting go of the
\* lock.
OutWhileLocked == \A r \in Reader : out[r] # None => rpc[r] = "clear"

\* An emission that runs has a number of its own, and runs each closure once.
Emitting(e) == epc[e] # "idle"
EmissionsApart ==
  /\ \A e \in Emitter : Emitting(e) => event[e] \in 1 .. emissions
  /\ \A e, f \in Emitter : e # f /\ Emitting(e) /\ Emitting(f) => event[e] # event[f]
  /\ \A e \in Emitter : epc[e] \in {"write", "signal"} =>
       running[e] \in 1 .. MaxReads /\ running[e] \notin todo[e]

\* The callback c was made, and no emission makes it again.
Spent(c) ==
  /\ c[1] <= emissions
  /\ \A e \in Emitter : Emitting(e) /\ event[e] = c[1] =>
       c[2] \notin todo[e] /\ (epc[e] = "write" => running[e] # c[2])

\* Every callback that is anywhere was made, and the one in the pointer is not with a client.
Made ==
  /\ callback # None => Spent(callback) /\ callback \notin given
  /\ \A r \in Reader : out[r] # None => Spent(out[r]) /\ out[r] \notin given
  /\ \A c \in given : Spent(c)

ReaderInv == TypeOK /\ OutWhileLocked /\ EmissionsApart /\ Made

-----------------------------------------------------------------------------

USE SignalReaderAssumption DEF readerVars, emitterVars, Callback, Emitting

\* The first of a set of closures is one of them.
LEMMA MinOf ==
  ASSUME NEW S \in SUBSET Nat, S # {}
  PROVE  Min(S) \in S
<1> DEFINE R == OpToRel(<, Nat)
<1>1. IsWellFoundedOn(R, Nat)
  BY NatLessThanWellFounded
<1>2. PICK x \in S : \A y \in S : ~ (<<y, x>> \in R)
  BY <1>1, WFMin
<1>3. \A y \in S : ~ (y < x)
  <2> SUFFICES ASSUME NEW y \in S, y < x PROVE FALSE
    OBVIOUS
  <2>1. <<y, x>> \in R
    BY DEF OpToRel
  <2> QED
    BY <1>2, <2>1
<1>4. \A y \in S : x =< y
  BY <1>3
<1> QED
  BY <1>4 DEF Min

\* Nothing was read or emitted at first.
LEMMA InitReader == Init => ReaderInv
<1> SUFFICES ASSUME Init PROVE ReaderInv
  OBVIOUS
<1>1. TypeOK
  <2> USE DEF Init
  <2>1. /\ rpc \in [Reader -> {"idle", "asleep", "woken", "expired", "take", "clear"}]
        /\ timed \in [Reader -> BOOLEAN] /\ \A r \in Reader : lock = r <=> rpc[r] \in {"take", "clear"}
    OBVIOUS
  <2>2. /\ closure \in [Reader -> (1 .. MaxReads) \cup {None}]
        /\ out \in [Reader -> Callback \cup {None}]
        /\ running \in [Emitter -> (1 .. MaxReads) \cup {None}]
    OBVIOUS
  <2>3. /\ epc \in [Emitter -> {"idle", "next", "write", "signal"}]
        /\ event \in [Emitter -> 0 .. MaxEmissions] /\ todo \in [Emitter -> SUBSET (1 .. MaxReads)]
    OBVIOUS
  <2>4. waiting \in BOOLEAN /\ finite \in BOOLEAN
    BY Zenon
  <2>5. /\ lock \in Reader \cup {None} /\ callback \in Callback \cup {None} /\ given \subseteq Callback
        /\ reads \in 0 .. MaxReads /\ emissions \in 0 .. MaxEmissions
        /\ disconnects \in 0 .. MaxDisconnects
    OBVIOUS
  <2> QED
    BY <2>1, <2>2, <2>3, <2>4, <2>5, Zenon DEF TypeOK
<1> QED
  BY <1>1 DEF Init, ReaderInv, OutWhileLocked, EmissionsApart, Made

\* Every step keeps the types, and the lock with the read that returns.
LEMMA TypeStep ==
  ASSUME TypeOK, EmissionsApart, [Next]_vars
  PROVE  TypeOK'
<1> USE DEF TypeOK
<1>1. CASE signal_set_timeout
  BY <1>1 DEF signal_set_timeout
<1>2. CASE signal_reader_disconnect
  <2>1. rpc' = [r \in Reader |-> IF rpc[r] = "asleep" THEN "woken" ELSE rpc[r]]
    BY <1>2 DEF signal_reader_disconnect, Asleep
  <2>2. rpc' \in [Reader -> {"idle", "asleep", "woken", "expired", "take", "clear"}]
    BY <2>1
  <2>3. \A r \in Reader : rpc'[r] \in {"take", "clear"} <=> rpc[r] \in {"take", "clear"}
    BY <2>1
  <2>4. /\ UNCHANGED <<lock, callback, finite, timed, closure, out, emitterVars, reads, given>>
        /\ disconnects' \in 0 .. MaxDisconnects
    BY <1>2 DEF signal_reader_disconnect
  <2>5. waiting' \in BOOLEAN
    BY <1>2, Zenon DEF signal_reader_disconnect
  <2>6. \A r \in Reader : lock' = r <=> rpc'[r] \in {"take", "clear"}
    BY <2>3, <2>4
  <2> QED
    BY <2>2, <2>4, <2>5, <2>6
<1>3. ASSUME NEW r \in Reader, signal_reader_read_signal(r) PROVE TypeOK'
  BY <1>3 DEF signal_reader_read_signal
<1>4. ASSUME NEW r \in Reader, cond_wait_returns(r) PROVE TypeOK'
  BY <1>4 DEF cond_wait_returns
<1>5. ASSUME NEW r \in Reader, take_callback(r) PROVE TypeOK'
  BY <1>5 DEF take_callback
<1>6. ASSUME NEW r \in Reader, clear_callback(r) PROVE TypeOK'
  BY <1>6 DEF clear_callback, ResetCallback, Unlocked
<1>7. ASSUME NEW r \in Reader, cond_wait_expires(r) PROVE TypeOK'
  BY <1>7 DEF cond_wait_expires
<1>8. ASSUME NEW r \in Reader, read_signal_gives_up(r) PROVE TypeOK'
  BY <1>8 DEF read_signal_gives_up, Unlocked
<1>9. ASSUME NEW e \in Emitter, signal_emit(e) PROVE TypeOK'
  <2>1. Connected \subseteq 1 .. MaxReads
    BY DEF Connected
  <2> QED
    BY <1>9, <2>1 DEF signal_emit
<1>10. ASSUME NEW e \in Emitter, signal_emit_next(e) PROVE TypeOK'
  <2> DEFINE left == todo[e] \cap Connected
  <2>1. left # {} => Min(left) \in left
    <3>1. left \in SUBSET Nat
      OBVIOUS
    <3> HIDE DEF left
    <3> QED
      BY <3>1, MinOf
  <2>2. todo' \in [Emitter -> SUBSET (1 .. MaxReads)]
    BY <1>10 DEF signal_emit_next
  <2>3. running' \in [Emitter -> (1 .. MaxReads) \cup {None}]
    BY <1>10, <2>1 DEF signal_emit_next
  <2> QED
    BY <1>10, <2>2, <2>3 DEF signal_emit_next
<1>11. ASSUME NEW e \in Emitter, signal_marshal(e) PROVE TypeOK'
  <2>1. <<event[e], running[e]>> \in Callback
    BY <1>11 DEF signal_marshal, EmissionsApart
  <2> QED
    BY <1>11, <2>1 DEF signal_marshal
<1>12. ASSUME NEW e \in Emitter, signal_marshal_signal(e) PROVE TypeOK'
  BY <1>12 DEF signal_marshal_signal, FlagCleared, Asleep
<1>13. CASE UNCHANGED vars
  BY <1>13 DEF vars
<1> QED
  BY <1>1, <1>2, <1>3, <1>4, <1>5, <1>6, <1>7, <1>8, <1>9, <1>10, <1>11, <1>12, <1>13
     DEF Next, Read, Emit

\* Every step leaves the callback that is returned with the read that has the lock.
LEMMA OutStep ==
  ASSUME TypeOK, OutWhileLocked, [Next]_vars
  PROVE  OutWhileLocked'
<1> USE DEF TypeOK, OutWhileLocked
<1>1. CASE signal_set_timeout \/ signal_reader_disconnect
  BY <1>1 DEF signal_set_timeout, signal_reader_disconnect, Asleep
<1>2. ASSUME NEW r \in Reader, signal_reader_read_signal(r) \/ Read(r) PROVE OutWhileLocked'
  BY <1>2 DEF signal_reader_read_signal, Read, cond_wait_returns, take_callback, clear_callback,
     cond_wait_expires, read_signal_gives_up
<1>3. ASSUME NEW e \in Emitter, signal_emit(e) \/ Emit(e) PROVE OutWhileLocked'
  BY <1>3 DEF signal_emit, Emit, signal_emit_next, signal_marshal, signal_marshal_signal, Asleep
<1>4. CASE UNCHANGED vars
  BY <1>4 DEF vars
<1> QED
  BY <1>1, <1>2, <1>3, <1>4 DEF Next

\* An emission goes on to a closure it has left, or ends.
LEMMA NextClosure ==
  ASSUME TypeOK, NEW e \in Emitter, signal_emit_next(e)
  PROVE  /\ epc[e] = "next" /\ UNCHANGED <<event, emissions>>
         /\ \A f \in Emitter \ {e} : epc'[f] = epc[f] /\ todo'[f] = todo[f] /\ running'[f] = running[f]
         /\ epc'[e] # "idle" =>
              /\ epc'[e] = "write" /\ running'[e] \in todo[e] /\ running'[e] \notin todo'[e]
              /\ todo'[e] \subseteq todo[e]
<1> USE DEF TypeOK
<1> DEFINE left == todo[e] \cap Connected
<1>1. left # {} => Min(left) \in left
  <2>1. left \in SUBSET Nat
    OBVIOUS
  <2> HIDE DEF left
  <2> QED
    BY <2>1, MinOf
<1>2. /\ epc[e] = "next" /\ UNCHANGED <<event, emissions>>
      /\ \A f \in Emitter \ {e} : epc'[f] = epc[f] /\ todo'[f] = todo[f] /\ running'[f] = running[f]
      /\ \/ epc'[e] = "idle"
         \/ /\ epc'[e] = "write" /\ left # {} /\ running'[e] = Min(left)
            /\ todo'[e] = left \ {Min(left)}
  BY DEF signal_emit_next
<1> QED
  BY <1>1, <1>2

\* Every step keeps the emissions and their closures apart.
LEMMA EmissionsStep ==
  ASSUME TypeOK, EmissionsApart, [Next]_vars
  PROVE  EmissionsApart'
<1> USE DEF TypeOK, EmissionsApart
<1>1. ASSUME NEW e \in Emitter, signal_emit(e) PROVE EmissionsApart'
  <2>1. /\ epc[e] = "idle" /\ epc'[e] = "next" /\ event'[e] = emissions + 1
        /\ emissions' = emissions + 1
        /\ \A f \in Emitter \ {e} : epc'[f] = epc[f] /\ event'[f] = event[f] /\ todo'[f] = todo[f]
        /\ running' = running
    BY <1>1 DEF signal_emit
  <2>2. \A f \in Emitter \ {e} : epc'[f] # "idle" => event'[f] \in 1 .. emissions
    BY <2>1
  <2>3. emissions \in Nat
    OBVIOUS
  <2> QED
    BY <2>1, <2>2, <2>3
<1>2. ASSUME NEW e \in Emitter, signal_emit_next(e) PROVE EmissionsApart'
  BY <1>2, NextClosure
<1>3. ASSUME NEW e \in Emitter, signal_marshal(e) \/ signal_marshal_signal(e) PROVE EmissionsApart'
  <2>1. UNCHANGED <<event, todo, running, emissions>>
    BY <1>3 DEF signal_marshal, signal_marshal_signal
  <2>2. /\ epc[e] \in {"write", "signal"} /\ epc'[e] \in {"signal", "next"}
        /\ \A f \in Emitter \ {e} : epc'[f] = epc[f]
    BY <1>3 DEF signal_marshal, signal_marshal_signal
  <2> QED
    BY <2>1, <2>2
<1>4. CASE UNCHANGED emitterVars
  BY <1>4
<1> QED
  BY <1>1, <1>2, <1>3, <1>4 DEF Next, Read, Emit, signal_set_timeout, signal_reader_disconnect,
     signal_reader_read_signal, cond_wait_returns, take_callback, clear_callback,
     cond_wait_expires, read_signal_gives_up, vars

\* A callback that was made is not made again.
LEMMA SpentStep ==
  ASSUME TypeOK, EmissionsApart, [Next]_vars, NEW c \in Callback, Spent(c)
  PROVE  Spent(c)'
<1> USE DEF TypeOK, EmissionsApart, Spent
<1>1. ASSUME NEW e \in Emitter, signal_emit(e) PROVE Spent(c)'
  <2>1. /\ event'[e] = emissions + 1 /\ emissions' = emissions + 1
        /\ \A f \in Emitter \ {e} : epc'[f] = epc[f] /\ event'[f] = event[f] /\ todo'[f] = todo[f]
        /\ running' = running
    BY <1>1 DEF signal_emit
  <2>2. c[1] \in Nat /\ emissions \in Nat /\ c[1] <= emissions
    OBVIOUS
  <2>3. event'[e] # c[1] /\ c[1] <= emissions'
    BY <2>1, <2>2
  <2> QED
    BY <2>1, <2>3
<1>2. ASSUME NEW e \in Emitter, signal_emit_next(e) PROVE Spent(c)'
  BY <1>2, NextClosure
<1>3. ASSUME NEW e \in Emitter, signal_marshal(e) \/ signal_marshal_signal(e) PROVE Spent(c)'
  <2>1. UNCHANGED <<event, todo, running, emissions>>
    BY <1>3 DEF signal_marshal, signal_marshal_signal
  <2>2. /\ epc[e] \in {"write", "signal"} /\ epc'[e] \in {"signal", "next"}
        /\ \A f \in Emitter \ {e} : epc'[f] = epc[f]
    BY <1>3 DEF signal_marshal, signal_marshal_signal
  <2> QED
    BY <2>1, <2>2
<1>4. CASE UNCHANGED emitterVars
  BY <1>4
<1> QED
  BY <1>1, <1>2, <1>3, <1>4 DEF Next, Read, Emit, signal_set_timeout, signal_reader_disconnect,
     signal_reader_read_signal, cond_wait_returns, take_callback, clear_callback,
     cond_wait_expires, read_signal_gives_up, vars

\* The callback that the marshaller stores was not made before, and is not made again.
LEMMA FreshCallback ==
  ASSUME TypeOK, EmissionsApart, NEW e \in Emitter, signal_marshal(e)
  PROVE  /\ callback' \in Callback /\ Spent(callback)'
         /\ \A c \in Callback : Spent(c) => c # callback'
<1> USE DEF TypeOK, EmissionsApart
<1>1. /\ epc[e] = "write" /\ epc'[e] = "signal" /\ callback' = <<event[e], running[e]>>
      /\ UNCHANGED <<event, todo, running, emissions>>
      /\ \A f \in Emitter \ {e} : epc'[f] = epc[f]
  BY DEF signal_marshal
<1>2. callback' \in Callback /\ callback'[1] = event[e] /\ callback'[2] = running[e]
  BY <1>1
<1>3. event[e] <= emissions /\ running[e] \notin todo[e]
  BY <1>1
<1>4. Spent(callback)'
  BY <1>1, <1>2, <1>3 DEF Spent
<1>5. \A c \in Callback : Spent(c) => c # callback'
  BY <1>1, <1>2 DEF Spent
<1> QED
  BY <1>2, <1>4, <1>5

\* Every step hands a callback on to one place only.
LEMMA MadeStep ==
  ASSUME TypeOK, OutWhileLocked, EmissionsApart, Made, [Next]_vars
  PROVE  Made'
<1> USE DEF TypeOK
<1>s. \A c \in Callback : Spent(c) => Spent(c)'
  BY SpentStep
<1>1. ASSUME NEW r \in Reader, take_callback(r) PROVE Made'
  <2>1. /\ out'[r] = callback /\ \A s \in Reader \ {r} : out'[s] = out[s]
        /\ UNCHANGED <<callback, given>>
    BY <1>1 DEF take_callback
  <2> QED
    BY <2>1, <1>s DEF Made
<1>2. ASSUME NEW r \in Reader, clear_callback(r) PROVE Made'
  <2>1. /\ rpc[r] = "clear" /\ out'[r] = None /\ \A s \in Reader \ {r} : out'[s] = out[s]
        /\ callback' = None /\ given' = given \cup ({out[r]} \ {None})
    BY <1>2 DEF clear_callback, ResetCallback
  <2>2. \A s \in Reader \ {r} : out[s] = None
    BY <2>1 DEF OutWhileLocked
  <2>3. \A c \in given' : c \in Callback /\ Spent(c)
    BY <2>1 DEF Made
  <2> QED
    BY <2>1, <2>2, <2>3, <1>s DEF Made
<1>3. ASSUME NEW e \in Emitter, signal_marshal(e) PROVE Made'
  <2>1. UNCHANGED <<out, given>>
    BY <1>3 DEF signal_marshal
  <2>2. callback' \notin given
    BY <1>3, FreshCallback DEF Made
  <2>3. Spent(callback)'
    BY <1>3, FreshCallback
  <2> QED
    BY <2>1, <2>2, <2>3, <1>s DEF Made
<1>4. CASE UNCHANGED <<callback, out, given>>
  BY <1>4, <1>s DEF Made
<1> QED
  BY <1>1, <1>2, <1>3, <1>4 DEF Next, Read, Emit, signal_set_timeout, signal_reader_disconnect,
     signal_reader_read_signal, cond_wait_returns, cond_wait_expires, read_signal_gives_up,
     signal_emit, signal_emit_next, signal_marshal_signal, vars

\* The invariant holds in every state.
LEMMA ReaderHolds == Spec => []ReaderInv
<1>1. ReaderInv /\ [Next]_vars => ReaderInv'
  BY TypeStep, OutStep, EmissionsStep, MadeStep DEF ReaderInv
<1> QED
  BY InitReader, <1>1, PTL DEF Spec

-----------------------------------------------------------------------------

\* The reader is well typed, and its lock is held by the read that is about to return.
THEOREM ReaderTypeCorrect == Spec => []TypeOK
BY ReaderHolds, PTL DEF ReaderInv

\* No callback is returned by two reads, although gstd_signal_marshal stores it without the
\* lock: a read takes and clears the pointer under the lock, and what is stored in between
\* is lost, not handed out again.
THEOREM CallbackHandedOutOnce == Spec => []HandedOutOnce
<1>1. ReaderInv => HandedOutOnce
  <2> SUFFICES ASSUME ReaderInv, NEW r \in Reader, out[r] # None
               PROVE  out[r] \notin given /\ \A s \in Reader \ {r} : out[s] # out[r]
    BY DEF HandedOutOnce
  <2>1. rpc[r] = "clear" /\ lock = r
    BY DEF ReaderInv, OutWhileLocked, TypeOK
  <2>2. \A s \in Reader \ {r} : out[s] = None
    BY <2>1 DEF ReaderInv, OutWhileLocked, TypeOK
  <2> QED
    BY <2>2 DEF ReaderInv, Made
<1> QED
  BY ReaderHolds, <1>1, PTL
=============================================================================
