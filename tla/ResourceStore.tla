--------------------------- MODULE ResourceStore ----------------------------
(***************************************************************************)
(* What the daemon and its client library promise together: a store of     *)
(* named pipelines that several clients use.                               *)
(*                                                                         *)
(* A call is a sequence of operations.  Each one is bound to the pipeline  *)
(* that has its name at one instant, is applied to that pipeline at one    *)
(* later instant, and the next follows only if it succeeded; the call then *)
(* reports success exactly if all of its operations took effect.  An       *)
(* operation fails only if what it names is not there, if what it asks for *)
(* makes no sense, or if GStreamer refuses; and then it changes nothing,   *)
(* except that a refused change of state may stop half way.                *)
(*                                                                         *)
(* Four promises are as weak as the code makes them.  A "try_set" may be   *)
(* told of success whatever became of it: gstc_element_set does not look   *)
(* at the answer, and the HTTP server answers a bad value with 204.  A     *)
(* "drop" takes an entry out of a list that has no deleter: the deleter's  *)
(* refusal is a success to the list.  And a list cannot be read while it   *)
(* holds a name that would have to be escaped.                             *)
(***************************************************************************)
EXTENDS Naturals, Sequences, SequencesExt

CONSTANTS
  Clients,
  Launch,      \* accepted descriptions, and the names of the elements they build
  Unquotable   \* names that would have to be escaped

VARIABLES
  store,       \* the pipelines, listed or still in use, and the debug settings
  pend         \* what each client is doing

vars == <<store, pend>>

\* An operation on the pipeline called pipe; valid if GStreamer can do what it asks for.
Op(type, pipe, elem, prop, value, valid) ==
  [type |-> type, pipe |-> pipe, elem |-> elem, prop |-> prop, value |-> value, valid |-> valid]

Idle == [phase |-> "idle", ops |-> <<>>, at |-> 0, target |-> 0, ok |-> TRUE, out |-> <<>>]

-----------------------------------------------------------------------------

Listed(s, name) == {i \in DOMAIN s.pipes : s.inst[s.pipes[i]].name = name}
IdOf(s, name) == s.pipes[CHOOSE i \in Listed(s, name) : TRUE]

\* These operations find their pipeline by its name only when they are applied.
ByName == {"create", "delete", "list", "debug", "look_session"}

\* Nor do these need it once it was found.
Effectless == {"ask", "look"}

\* What has to be in the store for an operation to find its target.
Present(s, op) ==
  \/ op.type \in ByName
  \/ /\ Listed(s, op.pipe) # {}
     /\ LET obj == s.inst[IdOf(s, op.pipe)] IN
        /\ op.elem # "" => Contains(obj.elements, op.elem)
        /\ op.type \in {"get", "set"} => Contains(obj.lists[op.elem].properties, op.prop.entry)
        /\ op.type = "signal_timeout" => Contains(obj.lists[op.elem].signals, op.prop)

\* The part of the store that only this operation on this pipeline may change.
Only(s, t, id, obj) == t = [s EXCEPT !.inst[id] = obj]

\* The states that a pipeline which is set to goal may be in.
Toward(obj, goal) ==
  {[obj EXCEPT !.goal = goal, !.cur = c] : c \in {obj.cur, goal}}
StoppedHalfWay(obj) ==
  {[obj EXCEPT !.goal = c, !.cur = c] : c \in {"null", "ready", "paused", "playing"}}

\* With debugging on, a new threshold or switching it on puts the threshold in force, with
\* reset alone.
DebugSet(d, e, op) ==
  /\ e[op.prop] = op.value
  /\ \A f \in {"enable", "color", "threshold", "reset"} \ {op.prop} : e[f] = d[f]
  /\ IF e.enable /\ op.prop \in {"enable", "threshold"}
     THEN e.level = (IF e.reset THEN {} ELSE d.level) \cup {e.threshold}
     ELSE e.level = d.level

\* A new pipeline is stopped, has its name, its description and all of its elements.
Fresh(obj, op) ==
  /\ obj.name = op.pipe /\ obj.desc = op.value /\ obj.elements = Launch[op.value]
  /\ obj.goal = "null" /\ obj.cur = "null"
Created(s, t, op) ==
  /\ Listed(s, op.pipe) = {}
  /\ Len(t.inst) = Len(s.inst) + 1 /\ Fresh(Last(t.inst), op)
  /\ t = [s EXCEPT !.inst = Append(@, Last(t.inst)), !.pipes = Append(@, Len(s.inst) + 1)]

\* The pipeline is stopped and no longer listed.
Deleted(s, t, op) ==
  /\ Listed(s, op.pipe) # {}
  /\ LET id == IdOf(s, op.pipe) IN
     \E obj \in Toward(s.inst[id], "null") :
       t = [s EXCEPT !.inst[id] = obj, !.pipes = SelectSeq(@, LAMBDA i : i # id)]

\* The names that a reading operation shows.
Listing(op, id, s) ==
  CASE op.type \in {"list", "look_session"} -> [i \in DOMAIN s.pipes |-> s.inst[s.pipes[i]].name]
    [] op.type = "elements" -> s.inst[id].elements
    [] op.type = "names" -> s.inst[id].lists[op.elem][op.prop]
    [] OTHER -> <<>>

\* The store s becomes t and out is the result: operation op on pipeline id took effect.
Effect(op, id, s, t, out) ==
  CASE op.type = "create" -> Created(s, t, op) /\ out = <<>>
    [] op.type = "delete" -> Deleted(s, t, op) /\ out = <<>>
    [] op.type = "state" ->
         out = <<>> /\ \E obj \in Toward(s.inst[id], op.value) : Only(s, t, id, obj)
    [] op.type = "get_state" -> t = s /\ out = <<s.inst[id].cur>>
    [] op.type = "get" -> t = s /\ out = op.prop.shown[s.inst[id].vals[op.prop.target][op.prop.name]]
    [] op.type = "set" ->
         out = <<>> /\ Only(s, t, id, [s.inst[id] EXCEPT !.vals[op.prop.target][op.prop.name] = op.value])
    [] op.type = "try_set" ->
         out = <<>> /\ (t = s \/ Only(s, t, id, [s.inst[id] EXCEPT !.vals[op.prop.target][op.prop.name] = op.value]))
    [] op.type = "drop" ->
         out = <<>> /\ Only(s, t, id, [s.inst[id] EXCEPT !.lists[op.elem][op.prop] =
                                         SelectSeq(@, LAMBDA name : name # op.value)])
    [] op.type = "drop_element" ->
         out = <<>> /\ Only(s, t, id, [s.inst[id] EXCEPT !.elements =
                                         SelectSeq(@, LAMBDA name : name # op.value)])
    [] op.type = "field" -> out = <<>> /\ Only(s, t, id, [s.inst[id] EXCEPT ![op.prop] = op.value])
    [] op.type = "signal_timeout" ->
         out = <<>> /\ Only(s, t, id, [s.inst[id] EXCEPT !.sigtimes[op.elem][op.prop] = op.value])
    [] op.type = "debug" ->
         out = <<>> /\ DebugSet(s.debug, t.debug, op) /\ t = [s EXCEPT !.debug = t.debug]
    [] op.type \in {"list", "elements", "names"} -> t = s /\ out = Listing(op, id, s)
    [] op.type \in {"ask", "look", "look_session"} -> t = s /\ out = <<>>

\* The operations that GStreamer may refuse.
Refusable == {"state", "delete", "ask"}

\* The operation may fail, and leave the store as t.
Refused(op, id, s, t) ==
  \/ ~op.valid /\ t = s
  \/ op.type = "create" /\ Listed(s, op.pipe) # {} /\ t = s
  \/ op.type = "delete" /\ Listed(s, op.pipe) = {} /\ t = s
  \/ (\E i \in DOMAIN Listing(op, id, s) : Listing(op, id, s)[i] \in Unquotable) /\ t = s
  \/ op.type = "drop_element" /\ ~Contains(s.inst[id].elements, op.value) /\ t = s
  \/ op.type = "drop" /\ ~Contains(s.inst[id].lists[op.elem][op.prop], op.value) /\ t = s
  \/ op.type = "ask" /\ t = s
  \/ /\ op.type \in Refusable \ {"ask"}
     /\ id # 0 \/ Listed(s, op.pipe) # {}
     /\ LET i == IF id # 0 THEN id ELSE IdOf(s, op.pipe) IN
        \E obj \in StoppedHalfWay(s.inst[i]) : Only(s, t, i, obj)

-----------------------------------------------------------------------------

Init ==
  /\ pend = [c \in Clients |-> Idle]
  /\ \A i, j \in DOMAIN store.pipes :
       store.inst[store.pipes[i]].name = store.inst[store.pipes[j]].name => i = j

Become(c, p) == pend' = [pend EXCEPT ![c] = p]

\* A call of no operations is one that is refused at once.
Invoke(c) ==
  /\ pend[c].phase \in {"idle", "returned"}
  /\ \E ops \in {pend'[c].ops} :
       IF ops = <<>> THEN Become(c, [Idle EXCEPT !.phase = "returned", !.ok = FALSE])
       ELSE Become(c, [Idle EXCEPT !.phase = "called", !.ops = ops, !.at = 1])
  /\ UNCHANGED store

Current(c) == pend[c].ops[pend[c].at]

Bind(c) ==
  /\ pend[c].phase = "called"
  /\ \/ /\ Present(store, Current(c))
        /\ Become(c, [pend[c] EXCEPT !.phase = "bound",
                        !.target = IF Current(c).type \in ByName \cup Effectless THEN 0
                                   ELSE IdOf(store, Current(c).pipe)])
     \/ /\ ~Present(store, Current(c)) \/ ~Current(c).valid
        /\ \E ok \in {FALSE, Current(c).type = "try_set"} :
             Become(c, [pend[c] EXCEPT !.phase = "applied", !.ok = ok])
  /\ UNCHANGED store

Apply(c) ==
  /\ pend[c].phase = "bound"
  /\ \E out \in {pend'[c].out} :
       \/ /\ Current(c).valid
          /\ Effect(Current(c), pend[c].target, store, store', out)
          /\ Become(c, [pend[c] EXCEPT !.phase = "applied", !.target = 0, !.out = out])
       \/ /\ Refused(Current(c), pend[c].target, store, store') /\ out = <<>>
          /\ Become(c, [pend[c] EXCEPT !.phase = "applied", !.target = 0, !.ok = FALSE])

Return(c) ==
  /\ pend[c].phase = "applied"
  /\ IF pend[c].ok /\ pend[c].at < Len(pend[c].ops)
     THEN Become(c, [pend[c] EXCEPT !.phase = "called", !.at = @ + 1, !.out = <<>>])
     ELSE Become(c, [Idle EXCEPT !.phase = "returned", !.ok = pend[c].ok, !.out = pend[c].out])
  /\ UNCHANGED store

\* A change of state that GStreamer accepted completes, or fails to.
Settle ==
  \E id \in DOMAIN store.inst :
    /\ \/ Only(store, store', id, [store.inst[id] EXCEPT !.cur = store.inst[id].goal])
       \/ Only(store, store', id, [store.inst[id] EXCEPT !.goal = store.inst[id].cur])
    /\ UNCHANGED pend

Next == Settle \/ \E c \in Clients : Invoke(c) \/ Bind(c) \/ Apply(c) \/ Return(c)
Spec == Init /\ [][Next]_vars
=============================================================================
