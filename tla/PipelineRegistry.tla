--------------------------- MODULE PipelineRegistry ---------------------------
(***************************************************************************)
(* The daemon's table of pipelines and the requests that change it.        *)
(*                                                                         *)
(* Every request runs on a worker thread of one of the IPC servers.  The   *)
(* threads share the session, its list of pipelines, the pipelines and     *)
(* their state objects.  A pipeline lives at an address: the GstdPipeline, *)
(* its GstdState and its GstElement are created together and share it, but *)
(* the first two are reference counted apart and die apart.                *)
(*                                                                         *)
(* Steps are cut where another thread can get in: at each lock and at each *)
(* access to shared memory made without one.                               *)
(***************************************************************************)
EXTENDS Integers, FiniteSets

CONSTANTS
  Thread,     \* worker threads
  Name,       \* pipeline names clients use
  Desc,       \* pipeline descriptions clients use
  Pipe,       \* addresses at which a pipeline can live
  Api,        \* the requests clients send in this instance
  Contract,   \* TRUE: clients stop and delete only what they started
  Faults,     \* TRUE: building and changing state may fail
  MaxRefs,    \* bound on each of the two client reference counts
  MaxStateRefs, \* bound on the GObject references to a state that failed
                \* deletions can pile up
  None        \* the null pointer, the free lock

RefApi == {"create_ref", "delete_ref"}
PlayApi == {"play_ref", "stop_ref"}
RawApi == {"create", "delete", "play", "stop"}

ASSUME RegistryAssumption ==
  /\ IsFiniteSet(Thread)
  /\ IsFiniteSet(Pipe)
  /\ Api \subseteq RefApi \cup PlayApi \cup RawApi
  /\ Contract \in BOOLEAN
  /\ Faults \in BOOLEAN
  /\ MaxRefs \in Nat /\ MaxStateRefs \in Nat
  /\ None \notin Thread \cup Pipe \cup Name \cup Desc

VARIABLES
  list,      \* self->list of session->pipelines: the pipelines it owns
  count,     \* self->count of that list
  name,      \* name of the pipeline at an address
  desc,      \* description of the pipeline at an address
  prefs,     \* GstdPipeline refcount: creation references
  srefs,     \* GstdState refcount: play references
  elem,      \* state of the GstElement
  gref,      \* GObject references to the GstdPipeline
  sgref,     \* GObject references to the GstdState
  session,   \* holder of the session's object lock
  listLock,  \* holder of the list's object lock
  pipeLock,  \* holder of each pipeline's object lock
  pc,        \* where each thread is
  req,       \* the request it serves: operation, pipeline name, description
  node,      \* pipeline_node: a counted pointer
  snode,     \* state_node: a counted pointer
  inner,     \* the pipeline an inner call created or found: counted
  isnode,    \* the state an inner call found: counted
  found,     \* the pipeline gstd_list_delete found: borrowed from the list
  rc,        \* return code of the request
  ledger,    \* references clients took with create_ref and did not return
  plays      \* references clients took with play_ref and did not return

objVars == <<name, desc, prefs, srefs, elem, gref, sgref>>
lockVars == <<session, listLock, pipeLock>>
ptrVars == <<node, snode, inner, isnode, found>>
clientVars == <<ledger, plays>>
vars == <<list, count, objVars, lockVars, pc, req, ptrVars, rc, clientVars>>

States == {"NULL", "PLAYING"}
CreateOps == {"create", "create_ref"}
Request ==
  [op : Api \cap CreateOps, name : Name, desc : Desc] \cup
  [op : Api \ CreateOps, name : Name, desc : {None}]
NoRequest == [op |-> "none", name |-> None, desc |-> None]
Codes == {"EOK", "EXISTING_RESOURCE", "EXISTING_NAME", "BAD_DESCRIPTION",
          "NO_RESOURCE", "NO_PIPELINE", "STATE_ERROR", "BAD_COMMAND",
          "NULL_ARGUMENT"}

\* Labels inside create and delete, inside a state update, and of the four
\* reference counted requests.
CreateLabels == {"create", "append", "readback", "print"}
DeleteLabels == {"delete", "stop", "unlink"}
UpdateLabels == {"find", "state", "update"}
RefLabels == {"lock", "lookup", "relookup", "increment", "count", "decrement",
              "unlock"}
PlayLabels == {"node", "again", "snode", "plock", "scount", "sadjust",
               "punlock"}
Labels == {"idle"} \cup CreateLabels \cup DeleteLabels \cup UpdateLabels
            \cup RefLabels \cup PlayLabels

-----------------------------------------------------------------------------
(* Helpers *)

Goto(t, l) == pc' = [pc EXCEPT ![t] = l]

Named(n) == {p \in list : name[p] = n}

Busy(n, ops) == {t \in Thread : req[t].op \in ops /\ req[t].name = n}

\* gstd_list_append_child refuses a name that is taken.  (Faulty: any name goes.)
NameTakenUnchecked(n) == FALSE
NameTaken(n) == Named(n) # {}

\* A lock is taken only while it is free.  (Faulty: the lock is left out.)
SessionUnguarded == TRUE
SessionFree == session = None
PipelineUnguarded(p) == TRUE
PipelineFree(p) == pipeLock[p] = None

\* gstd_list_find_child references the child before it lets the list go.
\* (Faulty: a borrowed pointer is returned.)
BorrowChild(p) == gref
RefChild(p) == [gref EXCEPT ![p] = @ + 1]

\* The decrements of both refcounts stop at 0.  (Faulty: they do not.)
DecrementUnclamped(c) == c - 1
Decrement(c) == IF c > 0 THEN c - 1 ELSE c

\* The references to its state that a pipeline drops with its own last one:
\* gstd_pipeline_dispose drops one.  (Faulty: it drops none.)
DisposeKeepsState(p) == 0
DisposeDropsState(p) == IF gref[p] = 1 THEN 1 ELSE 0

\* An address no object lives at.
Free == {p \in Pipe : gref[p] = 0 /\ sgref[p] = 0}

\* The outcomes of gst_element_set_state(target, s): GST_STATE_CHANGE_FAILURE
\* leaves the element where it was.
set_state(p, s) ==
  {[ok |-> TRUE, elem |-> s]} \cup
  (IF Faults THEN {[ok |-> FALSE, elem |-> elem[p]]} ELSE {})

\* g_object_unref of a pipeline.  The last one disposes it: the element is
\* sent to NULL, whatever comes of it, and the pipeline's reference to its
\* state object is dropped; others counts the caller's own to drop with it.
unref_pipeline(p, others) ==
  /\ gref' = [gref EXCEPT ![p] = @ - 1]
  /\ sgref' = [sgref EXCEPT ![p] = @ - DisposeDropsState(p) - others]
  /\ IF gref[p] = 1
       THEN \E r \in set_state(p, "NULL") : elem' = [elem EXCEPT ![p] = r.elem]
       ELSE UNCHANGED elem

\* What the clients make of an answer: EOK to takes is a reference more, EOK
\* to its opposite one less.
Tally(t, takes, c) ==
  CASE rc[t] # "EOK" -> c
    [] rc[t] = "EOK" /\ req[t].op = takes -> c + 1
    [] rc[t] = "EOK" /\ req[t].op # takes -> IF c > 0 THEN c - 1 ELSE 0

\* The return of an inner create, delete or update with code c: to the
\* client for a raw request, else into the reference counted request.
\* (Faulty: create_ref returns without unlocking when create fails.)
ReturnLocked(t, c) ==
  CASE req[t].op = "create_ref" -> IF c = "EOK" THEN "relookup" ELSE "idle"
    [] req[t].op = "delete_ref" -> "unlock"
    [] req[t].op \in PlayApi -> IF c = "EOK" THEN "sadjust" ELSE "punlock"

ReturnTo(t, c) ==
  CASE req[t].op = "create_ref" -> IF c = "EOK" THEN "relookup" ELSE "unlock"
    [] req[t].op = "delete_ref" -> "unlock"
    [] req[t].op \in PlayApi -> IF c = "EOK" THEN "sadjust" ELSE "punlock"

Finish(t) ==
  /\ Goto(t, "idle")
  /\ req' = [req EXCEPT ![t] = NoRequest]
  /\ rc' = [rc EXCEPT ![t] = "EOK"]

Return(t, c) ==
  \/ /\ req[t].op \in RawApi
     /\ Finish(t)
  \/ /\ req[t].op \notin RawApi
     /\ Goto(t, ReturnTo(t, c))
     /\ rc' = [rc EXCEPT ![t] = c]
     /\ UNCHANGED req
-----------------------------------------------------------------------------
(* Requests *)

\* What a client may ask.  Under the contract a client plays a pipeline only
\* while it holds a creation reference, stops what it played, and returns the
\* last creation reference when nobody plays.
MayCall(o, n) ==
  LET kept == ledger[n] - Cardinality(Busy(n, {"delete_ref"}))
      playing == plays[n] - Cardinality(Busy(n, {"stop_ref"}))
      creating == {t \in Thread : req[t].op \in CreateOps}
  IN  /\ o \in CreateOps => Cardinality(creating) < Cardinality(Free)
      /\ o = "create_ref" =>
           ledger[n] + Cardinality(Busy(n, {"create_ref"})) < MaxRefs
      /\ o = "play_ref" =>
           plays[n] + Cardinality(Busy(n, {"play_ref"})) < MaxRefs
      /\ Contract =>
           /\ o = "play_ref" => kept > 0
           /\ o = "stop_ref" => playing > 0
           /\ o = "delete_ref" =>
                \/ kept > 1
                \/ kept = 1 /\ plays[n] = 0 /\ Busy(n, PlayApi) = {}

FirstLabel(o) ==
  CASE o = "create" -> "create"
    [] o = "delete" -> "delete"
    [] o \in {"play", "stop"} -> "find"
    [] o \in RefApi -> "lock"
    [] o \in PlayApi -> "node"

\* gstd_parser_parse_cmd: a worker thread starts on a request.
parser_parse_cmd(t) ==
  /\ pc[t] = "idle"
  /\ \E r \in Request :
       /\ MayCall(r.op, r.name)
       /\ req' = [req EXCEPT ![t] = r]
       /\ Goto(t, FirstLabel(r.op))
  /\ UNCHANGED <<list, count, objVars, lockVars, ptrVars, rc, clientVars>>
-----------------------------------------------------------------------------
(* create /pipelines <name> <description> *)

\* gstd_pipeline_creator_create: a new pipeline, not listed yet.  A failed
\* build disposes what was built, and the request fails.
pipeline_creator_create(t) ==
  /\ pc[t] = "create"
  /\ \/ \E p \in Free :
          /\ name' = [name EXCEPT ![p] = req[t].name]
          /\ desc' = [desc EXCEPT ![p] = req[t].desc]
          /\ prefs' = [prefs EXCEPT ![p] = 0]
          /\ srefs' = [srefs EXCEPT ![p] = 0]
          /\ elem' = [elem EXCEPT ![p] = "NULL"]
          /\ gref' = [gref EXCEPT ![p] = 1]
          /\ sgref' = [sgref EXCEPT ![p] = 1]
          /\ inner' = [inner EXCEPT ![t] = p]
          /\ Goto(t, "append")
          /\ UNCHANGED <<req, rc>>
     \/ /\ Faults
        /\ Return(t, "BAD_DESCRIPTION")
        /\ UNCHANGED <<objVars, inner>>
  /\ UNCHANGED <<list, count, lockVars, node, snode, isnode, found,
                 clientVars>>

\* gstd_list_append_child inside gstd_list_create: the list takes over the
\* creator's reference, or the new pipeline is dropped.
list_append_child(t) ==
  /\ pc[t] = "append"
  /\ listLock = None
  /\ \/ /\ ~NameTaken(req[t].name)
        /\ list' = list \cup {inner[t]}
        /\ count' = Cardinality(list) + 1
        /\ Goto(t, "readback")
        /\ UNCHANGED <<gref, sgref, elem, req, rc>>
     \/ /\ NameTaken(req[t].name)
        /\ unref_pipeline(inner[t], 0)
        /\ Return(t, "EXISTING_RESOURCE")
        /\ UNCHANGED <<list, count>>
  /\ inner' = [inner EXCEPT ![t] = None]
  /\ UNCHANGED <<name, desc, prefs, srefs, lockVars, node, snode,
                 isnode, found, clientVars>>

\* gstd_list_find_child: the child called n with a reference, or NULL.
list_find_child(t, n, ptr) ==
  /\ listLock = None
  /\ \/ \E p \in Named(n) :
          /\ gref' = RefChild(p)
          /\ ptr' = [ptr EXCEPT ![t] = p]
     \/ /\ Named(n) = {}
        /\ ptr' = [ptr EXCEPT ![t] = None]
        /\ UNCHANGED gref

\* gstd_parser_create looks the new pipeline up again to print it; it may be
\* gone, or be another one, by now.
parser_create_read(t) ==
  /\ pc[t] = "readback"
  /\ list_find_child(t, req[t].name, inner)
  /\ IF inner'[t] = None
       THEN Return(t, "EOK")
       ELSE Goto(t, "print") /\ UNCHANGED <<req, rc>>
  /\ UNCHANGED <<list, count, name, desc, prefs, srefs, elem, sgref, lockVars,
                 node, snode, isnode, found, clientVars>>

\* gstd_object_to_string of the pipeline reads its refcount under its lock;
\* then the reference is dropped.
parser_create_to_string(t) ==
  /\ pc[t] = "print"
  /\ PipelineFree(inner[t])
  /\ unref_pipeline(inner[t], 0)
  /\ inner' = [inner EXCEPT ![t] = None]
  /\ Return(t, "EOK")
  /\ UNCHANGED <<list, count, name, desc, prefs, srefs, lockVars, node, snode, isnode, found, clientVars>>
-----------------------------------------------------------------------------
(* delete /pipelines <name> *)

\* gstd_list_delete takes the list lock, finds the child and hands it to the
\* deleter, which takes a reference to its state.
list_delete(t) ==
  /\ pc[t] = "delete"
  /\ listLock = None
  /\ \/ \E p \in Named(req[t].name) :
          /\ found' = [found EXCEPT ![t] = p]
          /\ sgref' = [sgref EXCEPT ![p] = @ + 1]
          /\ listLock' = t
          /\ Goto(t, "stop")
          /\ UNCHANGED <<req, rc>>
     \/ /\ Named(req[t].name) = {}
        /\ Return(t, "NO_RESOURCE")
        /\ UNCHANGED <<found, sgref, listLock>>
  /\ UNCHANGED <<list, count, name, desc, prefs, srefs, elem, gref, session,
                 pipeLock, node, snode, inner, isnode, clientVars>>

\* gstd_pipeline_deleter_delete stops the pipeline.  When that fails the
\* child stays listed and the deleter's reference to the state is not dropped.
pipeline_deleter_stop(t) ==
  /\ pc[t] = "stop"
  /\ \E r \in set_state(found[t], "NULL") :
       /\ r.ok \/ sgref[found[t]] <= MaxStateRefs
       /\ elem' = [elem EXCEPT ![found[t]] = r.elem]
       /\ IF r.ok
            THEN Goto(t, "unlink") /\ UNCHANGED <<found, listLock, req, rc>>
            ELSE /\ found' = [found EXCEPT ![t] = None]
                 /\ listLock' = None
                 /\ Return(t, "STATE_ERROR")
  /\ UNCHANGED <<list, count, name, desc, prefs, srefs, gref, sgref, session,
                 pipeLock, node, snode, inner, isnode, clientVars>>

\* The deleter drops the state and the pipeline; gstd_list_delete unlinks the
\* child and lets the list go.
list_delete_link(t) ==
  /\ pc[t] = "unlink"
  /\ unref_pipeline(found[t], 1)
  /\ count' = count - 1
  /\ list' = list \ {found[t]}
  /\ listLock' = None
  /\ found' = [found EXCEPT ![t] = None]
  /\ Return(t, "EOK")
  /\ UNCHANGED <<name, desc, prefs, srefs, session, pipeLock, node,
                 snode, inner, isnode, clientVars>>
-----------------------------------------------------------------------------
(* update /pipelines/<name>/state <state> *)

Target(t) == IF req[t].op \in {"play", "play_ref"} THEN "PLAYING" ELSE "NULL"

\* gstd_get_by_uri, the pipeline's step.
get_by_uri_pipeline(t) ==
  /\ pc[t] = "find"
  /\ list_find_child(t, req[t].name, inner)
  /\ IF inner'[t] = None
       THEN Return(t, "BAD_COMMAND")
       ELSE Goto(t, "state") /\ UNCHANGED <<req, rc>>
  /\ UNCHANGED <<list, count, name, desc, prefs, srefs, elem, sgref, lockVars,
                 node, snode, isnode, found, clientVars>>

\* gstd_get_by_uri, the state's step: the state is referenced by reading the
\* pipeline's property, then the pipeline is dropped.
get_by_uri_state(t) ==
  /\ pc[t] = "state"
  /\ unref_pipeline(inner[t], -1)
  /\ isnode' = [isnode EXCEPT ![t] = inner[t]]
  /\ inner' = [inner EXCEPT ![t] = None]
  /\ Goto(t, "update")
  /\ UNCHANGED <<list, count, name, desc, prefs, srefs, lockVars, req,
                 node, snode, found, rc, clientVars>>

\* gstd_state_update on whatever pipeline the state belongs to, listed or not;
\* then the state is dropped.
state_update(t) ==
  /\ pc[t] = "update"
  /\ \E r \in set_state(isnode[t], Target(t)) :
       /\ elem' = [elem EXCEPT ![isnode[t]] = r.elem]
       /\ Return(t, IF r.ok THEN "EOK" ELSE "STATE_ERROR")
  /\ sgref' = [sgref EXCEPT ![isnode[t]] = @ - 1]
  /\ isnode' = [isnode EXCEPT ![t] = None]
  /\ UNCHANGED <<list, count, name, desc, prefs, srefs, gref, lockVars,
                 node, snode, inner, found, clientVars>>
-----------------------------------------------------------------------------
(* pipeline_create_ref and pipeline_delete_ref, under the session lock *)

lock_session(t) ==
  /\ pc[t] = "lock"
  /\ SessionFree
  /\ session' = t
  /\ Goto(t, "lookup")
  /\ UNCHANGED <<list, count, objVars, listLock, pipeLock, req, ptrVars, rc,
                 clientVars>>

create_ref_lookup(t) ==
  /\ pc[t] = "lookup" /\ req[t].op = "create_ref"
  /\ list_find_child(t, req[t].name, node)
  /\ \/ /\ node'[t] = None
        /\ Goto(t, "create")
        /\ UNCHANGED rc
     \/ /\ node'[t] # None
        /\ desc[node'[t]] = req[t].desc
        /\ Goto(t, "increment")
        /\ UNCHANGED rc
     \/ /\ node'[t] # None
        /\ desc[node'[t]] # req[t].desc
        /\ Goto(t, "unlock")
        /\ rc' = [rc EXCEPT ![t] = "EXISTING_NAME"]
  /\ UNCHANGED <<list, count, name, desc, prefs, srefs, elem, sgref, lockVars,
                 req, snode, inner, isnode, found, clientVars>>

create_ref_relookup(t) ==
  /\ pc[t] = "relookup"
  /\ list_find_child(t, req[t].name, node)
  /\ Goto(t, "increment")
  /\ UNCHANGED <<list, count, name, desc, prefs, srefs, elem, sgref, lockVars,
                 req, snode, inner, isnode, found, rc, clientVars>>

pipeline_increment_refcount(t) ==
  /\ pc[t] = "increment"
  /\ \/ /\ node[t] = None
        /\ rc' = [rc EXCEPT ![t] = "NULL_ARGUMENT"]
        /\ UNCHANGED prefs
     \/ /\ node[t] # None
        /\ PipelineFree(node[t])
        /\ prefs' = [prefs EXCEPT ![node[t]] = @ + 1]
        /\ rc' = [rc EXCEPT ![t] = "EOK"]
  /\ Goto(t, "unlock")
  /\ UNCHANGED <<list, count, name, desc, srefs, elem, gref, sgref, lockVars,
                 req, ptrVars, clientVars>>

delete_ref_lookup(t) ==
  /\ pc[t] = "lookup" /\ req[t].op = "delete_ref"
  /\ list_find_child(t, req[t].name, node)
  /\ IF node'[t] = None
       THEN Goto(t, "unlock") /\ rc' = [rc EXCEPT ![t] = "NO_PIPELINE"]
       ELSE Goto(t, "count") /\ UNCHANGED rc
  /\ UNCHANGED <<list, count, name, desc, prefs, srefs, elem, sgref, lockVars,
                 req, snode, inner, isnode, found, clientVars>>

\* The last reference deletes, by name.
delete_ref_count(t) ==
  /\ pc[t] = "count"
  /\ PipelineFree(node[t])
  /\ Goto(t, IF prefs[node[t]] = 1 THEN "delete" ELSE "decrement")
  /\ UNCHANGED <<list, count, objVars, lockVars, req, ptrVars, rc,
                 clientVars>>

pipeline_decrement_refcount(t) ==
  /\ pc[t] = "decrement"
  /\ PipelineFree(node[t])
  /\ prefs' = [prefs EXCEPT ![node[t]] = Decrement(@)]
  /\ rc' = [rc EXCEPT ![t] = "EOK"]
  /\ Goto(t, "unlock")
  /\ UNCHANGED <<list, count, name, desc, srefs, elem, gref, sgref, lockVars,
                 req, ptrVars, clientVars>>

\* The epilogue of both: drop the node, unlock the session, answer.
unlock_session(t) ==
  /\ pc[t] = "unlock"
  /\ IF node[t] = None
       THEN UNCHANGED <<gref, sgref, elem>>
       ELSE unref_pipeline(node[t], 0)
  /\ node' = [node EXCEPT ![t] = None]
  /\ session' = None
  /\ ledger' = [ledger EXCEPT ![req[t].name] = Tally(t, "create_ref", @)]
  /\ Finish(t)
  /\ UNCHANGED <<list, count, name, desc, prefs, srefs, listLock, pipeLock,
                 snode, inner, isnode, found, plays>>
-----------------------------------------------------------------------------
(* pipeline_play_ref and pipeline_stop_ref, under the pipeline lock *)

\* Two lookups by name, before the lock: the pipeline ...
play_ref_pipeline_node(t) ==
  /\ pc[t] = "node"
  /\ list_find_child(t, req[t].name, node)
  /\ IF node'[t] = None
       THEN Finish(t)
       ELSE Goto(t, "again") /\ UNCHANGED <<req, rc>>
  /\ UNCHANGED <<list, count, name, desc, prefs, srefs, elem, sgref, lockVars,
                 snode, inner, isnode, found, clientVars>>

\* ... and, from the root again, the pipeline whose state is wanted.
play_ref_lookup_again(t) ==
  /\ pc[t] = "again"
  /\ list_find_child(t, req[t].name, inner)
  /\ Goto(t, IF inner'[t] = None THEN "punlock" ELSE "snode")
  /\ rc' = [rc EXCEPT ![t] = IF inner'[t] = None THEN "BAD_COMMAND" ELSE "EOK"]
  /\ UNCHANGED <<list, count, name, desc, prefs, srefs, elem, sgref, lockVars,
                 req, node, snode, isnode, found, clientVars>>

play_ref_state_node(t) ==
  /\ pc[t] = "snode"
  /\ unref_pipeline(inner[t], -1)
  /\ snode' = [snode EXCEPT ![t] = inner[t]]
  /\ inner' = [inner EXCEPT ![t] = None]
  /\ Goto(t, "plock")
  /\ UNCHANGED <<list, count, name, desc, prefs, srefs, lockVars, req,
                 node, isnode, found, rc, clientVars>>

lock_pipeline(t) ==
  /\ pc[t] = "plock"
  /\ PipelineFree(node[t])
  /\ pipeLock' = [pipeLock EXCEPT ![node[t]] = t]
  /\ Goto(t, "scount")
  /\ UNCHANGED <<list, count, objVars, session, listLock, req, ptrVars, rc,
                 clientVars>>

\* The first play plays and the last stop stops, by name; the others print.
play_ref_count(t) ==
  /\ pc[t] = "scount"
  /\ Goto(t, IF srefs[snode[t]] = (IF req[t].op = "play_ref" THEN 0 ELSE 1)
               THEN "find" ELSE "sadjust")
  /\ UNCHANGED <<list, count, objVars, lockVars, req, ptrVars, rc,
                 clientVars>>

\* gstd_state_increment_refcount and gstd_state_decrement_refcount.
state_adjust_refcount(t) ==
  /\ pc[t] = "sadjust"
  /\ srefs' = [srefs EXCEPT ![snode[t]] =
        CASE req[t].op = "play_ref" -> @ + 1
          [] req[t].op = "stop_ref" -> Decrement(@)]
  /\ rc' = [rc EXCEPT ![t] = "EOK"]
  /\ Goto(t, "punlock")
  /\ UNCHANGED <<list, count, name, desc, prefs, elem, gref, sgref, lockVars,
                 req, ptrVars, clientVars>>

\* The epilogue of both: unlock the pipeline, drop the state, answer.  The
\* pipeline is dropped in a last step: the two may be different pipelines.
unlock_pipeline(t) ==
  /\ pc[t] = "punlock" /\ snode[t] # None
  /\ pipeLock' = [pipeLock EXCEPT ![node[t]] = None]
  /\ sgref' = [sgref EXCEPT ![snode[t]] = @ - 1]
  /\ snode' = [snode EXCEPT ![t] = None]
  /\ UNCHANGED <<list, count, name, desc, prefs, srefs, elem, gref, session,
                 listLock, pc, req, node, inner, isnode, found, rc,
                 clientVars>>

play_ref_return(t) ==
  /\ pc[t] = "punlock" /\ snode[t] = None
  /\ unref_pipeline(node[t], 0)
  /\ node' = [node EXCEPT ![t] = None]
  /\ plays' = [plays EXCEPT ![req[t].name] = Tally(t, "play_ref", @)]
  /\ Finish(t)
  /\ UNCHANGED <<list, count, name, desc, prefs, srefs, lockVars, snode, inner, isnode, found, ledger>>
-----------------------------------------------------------------------------
Init ==
  /\ list = {} /\ count = 0
  /\ name = [p \in Pipe |-> None] /\ desc = [p \in Pipe |-> None]
  /\ prefs = [p \in Pipe |-> 0] /\ srefs = [p \in Pipe |-> 0]
  /\ elem = [p \in Pipe |-> "NULL"]
  /\ gref = [p \in Pipe |-> 0] /\ sgref = [p \in Pipe |-> 0]
  /\ session = None /\ listLock = None
  /\ pipeLock = [p \in Pipe |-> None]
  /\ pc = [t \in Thread |-> "idle"]
  /\ req = [t \in Thread |-> NoRequest]
  /\ node = [t \in Thread |-> None] /\ snode = [t \in Thread |-> None]
  /\ inner = [t \in Thread |-> None] /\ isnode = [t \in Thread |-> None]
  /\ found = [t \in Thread |-> None]
  /\ rc = [t \in Thread |-> "EOK"]
  /\ ledger = [n \in Name |-> 0] /\ plays = [n \in Name |-> 0]

\* A thread at work on a request.
Serve(t) ==
  \/ pipeline_creator_create(t)
  \/ list_append_child(t)
  \/ parser_create_read(t)
  \/ parser_create_to_string(t)
  \/ list_delete(t)
  \/ pipeline_deleter_stop(t)
  \/ list_delete_link(t)
  \/ get_by_uri_pipeline(t)
  \/ get_by_uri_state(t)
  \/ state_update(t)
  \/ lock_session(t)
  \/ create_ref_lookup(t)
  \/ create_ref_relookup(t)
  \/ pipeline_increment_refcount(t)
  \/ delete_ref_lookup(t)
  \/ delete_ref_count(t)
  \/ pipeline_decrement_refcount(t)
  \/ unlock_session(t)
  \/ play_ref_pipeline_node(t)
  \/ play_ref_lookup_again(t)
  \/ play_ref_state_node(t)
  \/ lock_pipeline(t)
  \/ play_ref_count(t)
  \/ state_adjust_refcount(t)
  \/ unlock_pipeline(t)
  \/ play_ref_return(t)

Next == \E t \in Thread : parser_parse_cmd(t) \/ Serve(t)

Spec == Init /\ [][Next]_vars

\* A thread at work on a request that can step is eventually scheduled.
FairSpec == Spec /\ \A t \in Thread : WF_vars(Serve(t))
-----------------------------------------------------------------------------
(* Properties *)

\* Type invariant of the table, the locks and the threads.
TypeOK ==
  /\ list \subseteq Pipe /\ count \in Int
  /\ name \in [Pipe -> Name \cup {None}] /\ desc \in [Pipe -> Desc \cup {None}]
  /\ prefs \in [Pipe -> Nat] /\ srefs \in [Pipe -> Nat]
  /\ elem \in [Pipe -> States]
  /\ gref \in [Pipe -> Int] /\ sgref \in [Pipe -> Int]
  /\ session \in Thread \cup {None} /\ listLock \in Thread \cup {None}
  /\ pipeLock \in [Pipe -> Thread \cup {None}]
  /\ pc \in [Thread -> Labels]
  /\ req \in [Thread -> Request \cup {NoRequest}]
  /\ node \in [Thread -> Pipe \cup {None}] /\ snode \in [Thread -> Pipe \cup {None}]
  /\ inner \in [Thread -> Pipe \cup {None}] /\ isnode \in [Thread -> Pipe \cup {None}]
  /\ found \in [Thread -> Pipe \cup {None}]
  /\ rc \in [Thread -> Codes]
  /\ ledger \in [Name -> Nat] /\ plays \in [Name -> Nat]

\* gstd_list_create and gstd_list_delete from several threads: no two listed
\* pipelines answer to the same name, and the count property the list keeps
\* beside it is the number of its pipelines.
UniqueNames ==
  /\ \A p, q \in list : name[p] = name[q] => p = q
  /\ count = Cardinality(list)

\* Who holds a counted reference to the pipeline at p: the list, and the
\* pointers of the threads.
Holders(p) ==
  {t \in Thread : node[t] = p} \X {"node"} \cup
  {t \in Thread : inner[t] = p} \X {"inner"} \cup
  (IF p \in list THEN {<<None, "list">>} ELSE {})

StateHolders(p) ==
  {t \in Thread : snode[t] = p} \X {"snode"} \cup
  {t \in Thread : isnode[t] = p} \X {"isnode"} \cup
  {t \in Thread : found[t] = p} \X {"deleter"} \cup
  (IF gref[p] > 0 THEN {<<None, "pipeline">>} ELSE {})

\* GObject counting over the find, ref, unlock, use, unref paths: a pipeline is
\* never disposed while the list or a thread can reach it, and is disposed once
\* nobody can.
PipelineRefsExact == \A p \in Pipe : gref[p] = Cardinality(Holders(p))

\* The same for state objects, which outlive their pipeline in the hands of a
\* request.  A deleter whose stop failed keeps its reference: with faults the
\* count may be too high, never too low.
StateRefsExact ==
  \A p \in Pipe :
    /\ sgref[p] >= Cardinality(StateHolders(p))
    /\ ~Faults => sgref[p] = Cardinality(StateHolders(p))

\* The pipeline called n is listed exactly while clients hold references to it,
\* and its refcount is their number.
Settled(n) ==
  IF Named(n) = {}
    THEN ledger[n] = 0
    ELSE \A p \in Named(n) : prefs[p] = ledger[n] /\ ledger[n] > 0

\* create_ref and delete_ref, when clients use nothing else to create and
\* delete: whenever no thread is inside the session lock, the refcount of every
\* pipeline is the number of references clients hold, and the pipeline exists
\* exactly while there are some.
RefcountMatchesClients == session = None => \A n \in Name : Settled(n)

\* play_ref and stop_ref: when nobody is inside one of them on a listed
\* pipeline, it plays exactly while clients hold play references, and the
\* state's refcount is their number.
PlaysWhilePlayed ==
  \A p \in list : Busy(name[p], PlayApi) = {} =>
    /\ srefs[p] = plays[name[p]]
    /\ srefs[p] > 0 <=> elem[p] = "PLAYING"

\* gstd_state.c on the play refcount: when it reaches 0 the pipeline is
\* stopped.
StoppedAtZero ==
  [][\A p \in Pipe : srefs[p] > 0 /\ srefs'[p] = 0 => elem'[p] = "NULL"]_vars

\* Requests end: if no new ones come, the locks and the scheduling of threads
\* let every one that is being served return.
RequestsReturn ==
  <>[][\A t \in Thread : ~parser_parse_cmd(t)]_vars
    => <>[](\A t \in Thread : pc[t] = "idle")
=============================================================================
