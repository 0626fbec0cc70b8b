---------------------------- MODULE RefCountProofs ----------------------------
(***************************************************************************)
(* When clients create and delete pipelines with pipeline_create_ref and   *)
(* pipeline_delete_ref only, the refcount of a pipeline is the number of   *)
(* references they hold, and the pipeline exists exactly while there are   *)
(* some.                                                                   *)
(*                                                                         *)
(* When they also play and stop with pipeline_play_ref and                 *)
(* pipeline_stop_ref only and keep to the contract (stop what they played, *)
(* return the last creation reference when nobody plays), and elements     *)
(* change their state when told, a pipeline plays exactly while clients    *)
(* hold play references, as many as the refcount of its state says.        *)
(***************************************************************************)
EXTENDS PipelineRegistryProofs

USE RegistryAssumption
  DEF RefApi, PlayApi, RawApi, CreateOps, CreateLabels, DeleteLabels,
      UpdateLabels, RefLabels, PlayLabels, Labels, Codes, States

\* The clients use the reference counted interfaces only.
RefsOnly == Api \subseteq RefApi \cup PlayApi

\* A pipeline called n is listed, with k creation references.
Counts(n, k) == Named(n) # {} /\ \A p \in Named(n) : prefs[p] = k

\* What the holder t of the session lock has done so far.  The names it does
\* not work on are settled; on its own name it may be halfway.
Stage(t) ==
  LET n == req[t].name
  IN  /\ \A m \in Name \ {n} : Settled(m)
      /\ pc[t] = "lookup" => Settled(n)
      /\ pc[t] \in {"create", "append"} => Named(n) = {} /\ ledger[n] = 0
      /\ pc[t] = "append" => prefs[inner[t]] = 0
      /\ pc[t] \in {"readback", "print", "relookup"} =>
           Counts(n, 0) /\ ledger[n] = 0
      /\ pc[t] = "increment" => node[t] \in Named(n) /\ Counts(n, ledger[n])
      /\ pc[t] = "unlock" /\ rc[t] # "EOK" => Settled(n)
      /\ pc[t] = "unlock" /\ rc[t] = "EOK" /\ req[t].op = "create_ref" =>
           Counts(n, ledger[n] + 1)
      /\ pc[t] \in {"count", "decrement"} \cup DeleteLabels =>
           node[t] \in Named(n) /\ Settled(n)
      /\ pc[t] = "decrement" => ledger[n] # 1
      /\ pc[t] \in DeleteLabels => ledger[n] = 1
      /\ pc[t] \in {"stop", "unlink"} => found[t] = node[t]
      /\ pc[t] = "unlock" /\ rc[t] = "EOK" /\ req[t].op = "delete_ref" =>
           \/ Named(n) = {} /\ ledger[n] = 1
           \/ Counts(n, ledger[n] - 1) /\ ledger[n] > 1

\* Outside the session lock every name is settled; inside, see Stage.
RefInv ==
  /\ RefcountMatchesClients
  /\ \A t \in Thread : session = t => Stage(t)

\* Every thread works for the two interfaces.
LEMMA RefsOnlyOps ==
  ASSUME RefsOnly, TypeOK
  PROVE  \A t \in Thread : req[t].op \in RefApi \cup PlayApi \cup {"none"}
<1> SUFFICES ASSUME NEW t \in Thread
             PROVE  req[t].op \in RefApi \cup PlayApi \cup {"none"}
  OBVIOUS
<1>1. CASE req[t] \in Request
  <2>1. req[t].op \in Api
    BY <1>1 DEF Request
  <2> QED
    BY <2>1 DEF RefsOnly
<1>2. CASE req[t] = NoRequest
  BY <1>2 DEF NoRequest
<1> QED
  BY <1>1, <1>2 DEF TypeOK

\* A thread at work has the name of a pipeline to work on.
LEMMA RequestName ==
  ASSUME TypeOK, NEW t \in Thread, req[t].op # "none"
  PROVE  req[t].name \in Name
BY DEF TypeOK, Request, NoRequest

\* The holder of the session lock is where it was.
LEMMA SessionFrame ==
  ASSUME RefInv, TypeOK, NEW t \in Thread, session # t,
         UNCHANGED <<list, name, prefs, ledger, session>>,
         \A u \in Thread \ {t} :
           /\ pc'[u] = pc[u] /\ req'[u] = req[u] /\ rc'[u] = rc[u]
           /\ node'[u] = node[u] /\ inner'[u] = inner[u] /\ found'[u] = found[u]
  PROVE  RefInv'
<1>1. \A n : Named(n)' = Named(n) /\ Settled(n)' = Settled(n)
  BY DEF Named, Settled
<1>2. \A n, k : Counts(n, k)' = Counts(n, k)
  BY <1>1 DEF Counts, Named
<1> QED
  BY <1>1, <1>2 DEF RefInv, RefcountMatchesClients, Stage

\* The holder of the session lock moved, and changed nothing that is shared.
LEMMA SessionMove ==
  ASSUME UNCHANGED <<list, name, prefs, ledger>>
  PROVE  /\ \A n : Named(n)' = Named(n) /\ Settled(n)' = Settled(n)
         /\ \A n, k : Counts(n, k)' = Counts(n, k)
<1>1. \A n : Named(n)' = Named(n) /\ Settled(n)' = Settled(n)
  BY DEF Named, Settled
<1> QED
  BY <1>1 DEF Counts, Named

\* A name whose pipelines and references are untouched.
LEMMA SettledFrame ==
  ASSUME NEW m \in Name, Named(m)' = Named(m), ledger'[m] = ledger[m],
         \A p \in Named(m) : prefs'[p] = prefs[p]
  PROVE  Settled(m)' = Settled(m)
BY DEF Settled

\* Every step keeps the refcounts right outside the session lock, and the
\* holder of the lock where Stage says.
LEMMA RefStep ==
  ASSUME RefsOnly, IInv, RefInv, NEW t \in Thread, parser_parse_cmd(t) \/ Serve(t)
  PROVE  RefInv'
<1> USE DEF IInv
<1>1. CASE parser_parse_cmd(t)
  <2>1. session # t
    BY <1>1, RefsOnlyOps DEF parser_parse_cmd, Control, Placed, Locking
  <2>2. UNCHANGED <<list, name, prefs, ledger, session>>
    BY <1>1 DEF parser_parse_cmd, objVars, lockVars, clientVars
  <2>3. \A u \in Thread \ {t} :
          /\ pc'[u] = pc[u] /\ req'[u] = req[u] /\ rc'[u] = rc[u]
          /\ node'[u] = node[u] /\ inner'[u] = inner[u] /\ found'[u] = found[u]
    BY <1>1 DEF parser_parse_cmd, Goto, ptrVars, TypeOK
  <2> QED
    BY <2>1, <2>2, <2>3, SessionFrame
<1>2. CASE pipeline_creator_create(t)
  <2>1. session = t /\ Stage(t) /\ req[t].name \in Name
    BY <1>2, RefsOnlyOps, RequestName DEF pipeline_creator_create, Control, Placed, Locking, RefInv
  <2>0. PICK n \in Name : n = req[t].name
    BY <2>1
  <2>2. session' = t
    BY <1>2, <2>1 DEF pipeline_creator_create, lockVars
  <2>3. ASSUME NEW p \in Free,
               name' = [name EXCEPT ![p] = req[t].name],
               prefs' = [prefs EXCEPT ![p] = 0],
               inner' = [inner EXCEPT ![t] = p], UNCHANGED <<req, rc>>,
               pc' = [pc EXCEPT ![t] = "append"]
        PROVE  Stage(t)'
    <3>1. p \notin list /\ p \in Pipe
      BY <2>3, UnheldWhenZero DEF Free
    <3>2. UNCHANGED <<list, ledger>>
      BY <1>2 DEF pipeline_creator_create, clientVars
    <3>3. \A m \in Name : Named(m)' = Named(m)
      BY <2>3, <3>1, <3>2 DEF Named, TypeOK
    <3>4. \A m \in Name : \A q \in Named(m) : prefs'[q] = prefs[q]
      BY <2>3, <3>1 DEF Named, TypeOK
    <3>5. \A m \in Name : Settled(m)' = Settled(m)
      BY <3>2, <3>3, <3>4, SettledFrame
    <3> QED
      BY <1>2, <2>1, <2>3, <3>1, <3>2, <3>3, <3>5 DEF pipeline_creator_create, Stage, TypeOK
  <2>4. ASSUME Return(t, "BAD_DESCRIPTION"), UNCHANGED <<objVars, inner>>
        PROVE  Stage(t)'
    <3>1. pc'[t] = "unlock" /\ rc'[t] = "BAD_DESCRIPTION" /\ req' = req
      BY <1>2, <2>4, RefsOnlyOps DEF pipeline_creator_create, Return, Finish,
         ReturnTo, Goto, TypeOK, Control, Placed
    <3>2. UNCHANGED <<list, name, prefs, ledger>>
      BY <1>2, <2>4 DEF pipeline_creator_create, objVars, clientVars
    <3>3. Settled(n)
      BY <1>2, <2>1, <2>0 DEF pipeline_creator_create, Stage, Settled
    <3>4. \A m \in Name : Settled(m)'
      BY <2>1, <2>0, <3>2, <3>3, SessionMove DEF Stage
    <3>5. req'[t].name = n
      BY <2>0, <3>1
    <3> QED
      BY <3>1, <3>4, <3>5 DEF Stage
  <2>5. Stage(t)'
    <3>1. CASE \E p \in Free :
                 /\ name' = [name EXCEPT ![p] = req[t].name]
                 /\ prefs' = [prefs EXCEPT ![p] = 0]
                 /\ inner' = [inner EXCEPT ![t] = p]
                 /\ pc' = [pc EXCEPT ![t] = "append"]
                 /\ UNCHANGED <<req, rc>>
      BY <2>3, <3>1
    <3>2. CASE Return(t, "BAD_DESCRIPTION") /\ UNCHANGED <<objVars, inner>>
      BY <2>4, <3>2
    <3> QED
      BY <1>2, <3>1, <3>2 DEF pipeline_creator_create, Goto
  <2> QED
    BY <2>2, <2>5 DEF RefInv, RefcountMatchesClients
<1>3. CASE list_append_child(t)
  <2>1. session = t /\ Stage(t) /\ req[t].name \in Name
    BY <1>3, RefsOnlyOps, RequestName DEF list_append_child, Control, Placed, Locking, RefInv
  <2>0. PICK n \in Name : n = req[t].name
    BY <2>1
  <2>2. session' = t /\ ~NameTaken(req[t].name)
    BY <1>3, <2>1 DEF list_append_child, lockVars, Stage, NameTaken
  <2>3. name[inner[t]] = req[t].name
    BY <1>3 DEF list_append_child, CreatedName
  <2>4. Named(req[t].name)' = {inner[t]}
    BY <1>3, <2>1, <2>2, <2>3 DEF list_append_child, Named, NameTaken
  <2>5. \A m \in Name \ {req[t].name} : Named(m)' = Named(m)
    BY <1>3, <2>2, <2>3 DEF list_append_child, Named
  <2>6. Stage(t)'
    BY <1>3, <2>1, <2>2, <2>4, <2>5 DEF list_append_child, Goto, clientVars, Stage, Settled,
       Counts, TypeOK
  <2> QED
    BY <2>2, <2>6 DEF RefInv, RefcountMatchesClients
<1>4. CASE parser_create_read(t)
  <2>1. session = t /\ session' = t /\ Stage(t)
    BY <1>4, RefsOnlyOps DEF parser_create_read, lockVars, Control, Placed, Locking, RefInv
  <2>2. Stage(t)'
    BY <1>4, <2>1, SessionMove, RequestName DEF parser_create_read, Goto, Return, ReturnTo, Finish, list_find_child, Named, Counts, objVars, clientVars,
       ptrVars, Stage, TypeOK, Control, Placed, Pointing
  <2> QED
    BY <2>1, <2>2 DEF RefInv, RefcountMatchesClients
<1>5. CASE parser_create_to_string(t)
  <2>1. session = t /\ Stage(t) /\ req[t].name \in Name
    BY <1>5, RefsOnlyOps, RequestName DEF parser_create_to_string, Control, Placed, Locking, RefInv
  <2>0. PICK n \in Name : n = req[t].name
    BY <2>1
  <2>2. session' = t /\ pc'[t] = "relookup" /\ req' = req
    BY <1>5, <2>1, RefsOnlyOps DEF parser_create_to_string, Return, ReturnTo, Finish, Goto,
       lockVars, TypeOK, Control, Placed
  <2>3. UNCHANGED <<list, name, prefs, ledger>>
    BY <1>5 DEF parser_create_to_string, clientVars
  <2>4. Counts(n, 0) /\ ledger[n] = 0
    BY <1>5, <2>1, <2>0 DEF parser_create_to_string, Stage
  <2>5. Stage(t)'
    BY <2>1, <2>2, <2>3, <2>4, <2>0, SessionMove DEF Stage
  <2> QED
    BY <2>2, <2>5 DEF RefInv, RefcountMatchesClients
<1>6. CASE list_delete(t)
  <2>1. session = t /\ session' = t /\ Stage(t)
    BY <1>6, RefsOnlyOps DEF list_delete, lockVars, Control, Placed, Locking, RefInv
  <2>2. Stage(t)'
    BY <1>6, <2>1, SessionMove, RequestName DEF list_delete, Goto, Return, Finish, ReturnTo, Named, UniqueNames, objVars, clientVars,
       ptrVars, Stage, TypeOK, Control, Placed, Pointing
  <2> QED
    BY <2>1, <2>2 DEF RefInv, RefcountMatchesClients
<1>7. CASE pipeline_deleter_stop(t)
  <2>1. session = t /\ session' = t /\ Stage(t)
    BY <1>7, RefsOnlyOps DEF pipeline_deleter_stop, lockVars, Control, Placed, Locking, RefInv
  <2>2. Stage(t)'
    BY <1>7, <2>1, SessionMove, RequestName DEF pipeline_deleter_stop, Goto, Return, Finish, ReturnTo, objVars, clientVars,
       ptrVars, Stage, TypeOK, Control, Placed, Pointing
  <2> QED
    BY <2>1, <2>2 DEF RefInv, RefcountMatchesClients
<1>8. CASE list_delete_link(t)
  <2>1. session = t /\ Stage(t) /\ req[t].name \in Name
    BY <1>8, RefsOnlyOps, RequestName DEF list_delete_link, Control, Placed, Locking, RefInv
  <2>0. PICK n \in Name : n = req[t].name
    BY <2>1
  <2>2. session' = t /\ pc'[t] = "unlock" /\ rc'[t] = "EOK" /\ req' = req
    BY <1>8, <2>1, RefsOnlyOps DEF list_delete_link, Return, ReturnTo, Finish, Goto, TypeOK,
       Control, Placed
  <2>3. found[t] \in Named(n) /\ ledger[n] = 1 /\ req[t].op = "delete_ref"
    BY <1>8, <2>1, <2>0, RefsOnlyOps DEF list_delete_link, Stage, Control, Placed
  <2>4. list' = list \ {found[t]} /\ UNCHANGED <<name, prefs, ledger>>
    BY <1>8 DEF list_delete_link, clientVars
  <2>5. Named(n)' = {}
    BY <2>3, <2>4 DEF Named, UniqueNames
  <2>6. \A m \in Name \ {n} : Settled(m)' = Settled(m)
    <3>1. \A m \in Name \ {n} : Named(m)' = Named(m)
      BY <2>3, <2>4 DEF Named
    <3> QED
      BY <2>4, <3>1, SettledFrame
  <2>7. Stage(t)'
    BY <2>1, <2>2, <2>3, <2>4, <2>5, <2>6, <2>0 DEF Stage
  <2> QED
    BY <2>2, <2>7 DEF RefInv, RefcountMatchesClients
<1>9. CASE get_by_uri_pipeline(t)
  <2>1. session # t
    BY <1>9, RefsOnlyOps DEF get_by_uri_pipeline, Control, Placed, Locking
  <2>2. UNCHANGED <<list, name, prefs, ledger, session>>
    BY <1>9 DEF get_by_uri_pipeline, objVars, lockVars, clientVars
  <2>3. \A u \in Thread \ {t} :
          /\ pc'[u] = pc[u] /\ req'[u] = req[u] /\ rc'[u] = rc[u]
          /\ node'[u] = node[u] /\ inner'[u] = inner[u] /\ found'[u] = found[u]
    BY <1>9 DEF get_by_uri_pipeline, Goto, Return, Finish, list_find_child, ptrVars, TypeOK
  <2> QED
    BY <2>1, <2>2, <2>3, SessionFrame
<1>10. CASE get_by_uri_state(t)
  <2>1. session # t
    BY <1>10, RefsOnlyOps DEF get_by_uri_state, Control, Placed, Locking
  <2>2. UNCHANGED <<list, name, prefs, ledger, session>>
    BY <1>10 DEF get_by_uri_state, objVars, lockVars, clientVars
  <2>3. \A u \in Thread \ {t} :
          /\ pc'[u] = pc[u] /\ req'[u] = req[u] /\ rc'[u] = rc[u]
          /\ node'[u] = node[u] /\ inner'[u] = inner[u] /\ found'[u] = found[u]
    BY <1>10 DEF get_by_uri_state, Goto, ptrVars, TypeOK
  <2> QED
    BY <2>1, <2>2, <2>3, SessionFrame
<1>11. CASE state_update(t)
  <2>1. session # t
    BY <1>11, RefsOnlyOps DEF state_update, Control, Placed, Locking
  <2>2. UNCHANGED <<list, name, prefs, ledger, session>>
    BY <1>11 DEF state_update, objVars, lockVars, clientVars
  <2>3. \A u \in Thread \ {t} :
          /\ pc'[u] = pc[u] /\ req'[u] = req[u] /\ rc'[u] = rc[u]
          /\ node'[u] = node[u] /\ inner'[u] = inner[u] /\ found'[u] = found[u]
    BY <1>11 DEF state_update, Goto, Return, Finish, ptrVars, TypeOK
  <2> QED
    BY <2>1, <2>2, <2>3, SessionFrame
<1>12. CASE lock_session(t)
  <2>1. \A n \in Name : Settled(n)
    BY <1>12 DEF lock_session, SessionFree, RefInv, RefcountMatchesClients
  <2>2. session' = t /\ pc'[t] = "lookup" /\ req'[t].name \in Name
    BY <1>12, RequestName DEF lock_session, Goto, Control, Placed, TypeOK
  <2>3. Stage(t)'
    BY <1>12, <2>1, <2>2, SessionMove DEF lock_session, objVars, clientVars, Stage
  <2> QED
    BY <1>12, <2>2, <2>3 DEF RefInv, RefcountMatchesClients
<1>13. CASE create_ref_lookup(t)
  <2>1. session = t /\ Stage(t) /\ req[t].name \in Name
    BY <1>13, RefsOnlyOps, RequestName DEF create_ref_lookup, Control, Placed, Locking, RefInv
  <2>0. PICK n \in Name : n = req[t].name
    BY <2>1
  <2>2. session' = t /\ req' = req /\ Settled(n)
    BY <1>13, <2>1, <2>0 DEF create_ref_lookup, lockVars, Stage
  <2>3. UNCHANGED <<list, name, prefs, ledger>>
    BY <1>13 DEF create_ref_lookup, clientVars
  <2>4. ASSUME Named(n) = {} PROVE Stage(t)'
    <3>1. pc'[t] = "create" /\ ledger[n] = 0
      BY <1>13, <2>2, <2>4, <2>0 DEF create_ref_lookup, list_find_child, Goto, Settled, TypeOK
    <3>2. \A m \in Name : Settled(m)'
      BY <2>1, <2>2, <2>0, <2>3, SessionMove DEF Stage
    <3>3. Named(n)' = {} /\ ledger'[n] = 0 /\ req'[t].name = n
      BY <2>0, <2>2, <2>3, <2>4, <3>1, SessionMove
    <3> QED
      BY <3>1, <3>2, <3>3 DEF Stage
  <2>5. ASSUME Named(n) # {} PROVE Stage(t)'
    <3>1. node'[t] \in Named(n) /\ node'[t] # None
      BY <1>13, <2>5, <2>0 DEF create_ref_lookup, list_find_child, Named, TypeOK
    <3>2. \/ pc'[t] = "increment"
          \/ pc'[t] = "unlock" /\ rc'[t] # "EOK"
      BY <1>13, <3>1 DEF create_ref_lookup, Goto, TypeOK
    <3>3. Counts(n, ledger[n])
      BY <2>2, <2>5 DEF Counts, Settled
    <3>4. \A m \in Name : Settled(m)'
      BY <2>1, <2>2, <2>0, <2>3, SessionMove DEF Stage
    <3>5. Counts(n, ledger[n])' /\ node'[t] \in Named(n)'
      BY <2>3, <3>1, <3>3, SessionMove DEF Counts
    <3>6. req'[t].name = n
      BY <2>0, <2>2
    <3> QED
      BY <3>2, <3>4, <3>5, <3>6 DEF Stage
  <2>6. Stage(t)'
    BY <2>4, <2>5
  <2> QED
    BY <2>2, <2>6 DEF RefInv, RefcountMatchesClients
<1>14. CASE create_ref_relookup(t)
  <2>1. session = t /\ session' = t /\ Stage(t)
    BY <1>14, RefsOnlyOps DEF create_ref_relookup, lockVars, Control, Placed, Locking, RefInv
  <2>2. Stage(t)'
    BY <1>14, <2>1, SessionMove, RequestName DEF create_ref_relookup, Goto, list_find_child, Named, Counts, objVars, clientVars,
       ptrVars, Stage, TypeOK, Control, Placed, Pointing
  <2> QED
    BY <2>1, <2>2 DEF RefInv, RefcountMatchesClients
<1>15. CASE pipeline_increment_refcount(t)
  <2>1. session = t /\ Stage(t) /\ req[t].name \in Name
    BY <1>15, RefsOnlyOps, RequestName DEF pipeline_increment_refcount, Control, Placed, Locking, RefInv
  <2>0. PICK n \in Name : n = req[t].name
    BY <2>1
  <2>2. session' = t /\ req' = req /\ node[t] \in Named(n) /\ req[t].op = "create_ref"
    BY <1>15, <2>1, <2>0 DEF pipeline_increment_refcount, lockVars, Stage, Control, Placed
  <2>3. Named(n) = {node[t]} /\ node[t] \in Pipe /\ node[t] # None
    BY <2>2 DEF Named, UniqueNames, TypeOK
  <2>4. prefs[node[t]] = ledger[n]
    BY <1>15, <2>1, <2>2, <2>0 DEF pipeline_increment_refcount, Stage, Settled, Counts, Named, TypeOK
  <2>5. prefs' = [prefs EXCEPT ![node[t]] = ledger[n] + 1] /\ UNCHANGED <<list, name, ledger>>
    BY <1>15, <2>3, <2>4 DEF pipeline_increment_refcount, Decrement, clientVars, TypeOK
  <2>6. pc'[t] = "unlock" /\ rc'[t] = "EOK"
    BY <1>15, <2>3 DEF pipeline_increment_refcount, Goto, TypeOK
  <2>7. \A m \in Name : Named(m)' = Named(m)
    BY <2>5 DEF Named
  <2>8. \A m \in Name \ {n} : Settled(m)' = Settled(m)
    <3>1. \A m \in Name \ {n} : \A p \in Named(m) : prefs'[p] = prefs[p]
      BY <2>2, <2>5 DEF Named, TypeOK
    <3> QED
      BY <2>5, <2>7, <3>1, SettledFrame
  <2>9. prefs'[node[t]] = ledger[n] + 1
    BY <2>3, <2>5 DEF TypeOK
  <2>10. Stage(t)'
    <3>1. \A m \in Name \ {n} : Settled(m)'
      BY <2>0, <2>1, <2>8 DEF Stage
    <3>2. Counts(n, ledger[n] + 1)'
      BY <2>3, <2>5, <2>7, <2>9 DEF Counts
    <3>3. req'[t].name = n /\ req'[t].op = "create_ref"
      BY <2>0, <2>2
    <3> QED
      BY <2>6, <3>1, <3>2, <3>3 DEF Stage
  <2> QED
    BY <2>2, <2>10 DEF RefInv, RefcountMatchesClients
<1>16. CASE delete_ref_lookup(t)
  <2>1. session = t /\ session' = t /\ Stage(t)
    BY <1>16, RefsOnlyOps DEF delete_ref_lookup, lockVars, Control, Placed, Locking, RefInv
  <2>2. Stage(t)'
    BY <1>16, <2>1, SessionMove, RequestName DEF delete_ref_lookup, Goto, list_find_child, Named, Settled, objVars, clientVars,
       ptrVars, Stage, TypeOK, Control, Placed, Pointing
  <2> QED
    BY <2>1, <2>2 DEF RefInv, RefcountMatchesClients
<1>17. CASE delete_ref_count(t)
  <2>1. session = t /\ Stage(t) /\ req[t].name \in Name
    BY <1>17, RefsOnlyOps, RequestName DEF delete_ref_count, Control, Placed, Locking, RefInv
  <2>0. PICK n \in Name : n = req[t].name
    BY <2>1
  <2>2. session' = t /\ req' = req /\ node' = node /\ node[t] \in Named(n) /\ Settled(n)
    BY <1>17, <2>1, <2>0 DEF delete_ref_count, lockVars, ptrVars, Stage
  <2>3. UNCHANGED <<list, name, prefs, ledger>>
    BY <1>17 DEF delete_ref_count, clientVars, objVars
  <2>4. prefs[node[t]] = ledger[n]
    BY <2>2 DEF Settled
  <2>5. \/ pc'[t] = "delete" /\ ledger[n] = 1
        \/ pc'[t] = "decrement" /\ ledger[n] # 1
    BY <1>17, <2>4 DEF delete_ref_count, Goto, TypeOK
  <2>6. Stage(t)'
    BY <2>1, <2>2, <2>3, <2>5, <2>0, SessionMove DEF Stage
  <2> QED
    BY <2>2, <2>6 DEF RefInv, RefcountMatchesClients
<1>18. CASE pipeline_decrement_refcount(t)
  <2>1. session = t /\ Stage(t) /\ req[t].name \in Name
    BY <1>18, RefsOnlyOps, RequestName DEF pipeline_decrement_refcount, Control, Placed, Locking, RefInv
  <2>0. PICK n \in Name : n = req[t].name
    BY <2>1
  <2>2. session' = t /\ req' = req /\ node[t] \in Named(n) /\ req[t].op = "delete_ref"
    BY <1>18, <2>1, <2>0 DEF pipeline_decrement_refcount, lockVars, Stage, Control, Placed
  <2>3. Named(n) = {node[t]} /\ node[t] \in Pipe /\ node[t] # None
    BY <2>2 DEF Named, UniqueNames, TypeOK
  <2>4. prefs[node[t]] = ledger[n] /\ ledger[n] > 1 /\ ledger[n] \in Nat
    BY <1>18, <2>1, <2>2, <2>0 DEF pipeline_decrement_refcount, Stage, Settled, Counts, Named, TypeOK
  <2>5. prefs' = [prefs EXCEPT ![node[t]] = ledger[n] - 1] /\ UNCHANGED <<list, name, ledger>>
    <3>1. Decrement(prefs[node[t]]) = ledger[n] - 1
      BY <2>4 DEF Decrement
    <3> QED
      BY <1>18, <3>1 DEF pipeline_decrement_refcount, clientVars
  <2>6. pc'[t] = "unlock" /\ rc'[t] = "EOK"
    BY <1>18, <2>3 DEF pipeline_decrement_refcount, Goto, TypeOK
  <2>7. \A m \in Name : Named(m)' = Named(m)
    BY <2>5 DEF Named
  <2>8. \A m \in Name \ {n} : Settled(m)' = Settled(m)
    <3>1. \A m \in Name \ {n} : \A p \in Named(m) : prefs'[p] = prefs[p]
      BY <2>2, <2>5 DEF Named, TypeOK
    <3> QED
      BY <2>5, <2>7, <3>1, SettledFrame
  <2>9. prefs'[node[t]] = ledger[n] - 1
    BY <2>3, <2>5 DEF TypeOK
  <2>10. Stage(t)'
    <3>1. \A m \in Name \ {n} : Settled(m)'
      BY <2>0, <2>1, <2>8 DEF Stage
    <3>2. Counts(n, ledger[n] - 1)' /\ ledger'[n] > 1
      BY <2>3, <2>4, <2>5, <2>7, <2>9 DEF Counts
    <3>3. req'[t].name = n /\ req'[t].op = "delete_ref"
      BY <2>0, <2>2
    <3> QED
      BY <2>6, <3>1, <3>2, <3>3 DEF Stage
  <2> QED
    BY <2>2, <2>10 DEF RefInv, RefcountMatchesClients
<1>19. CASE unlock_session(t)
  <2>1. session = t /\ Stage(t) /\ req[t].name \in Name
    BY <1>19, RefsOnlyOps, RequestName DEF unlock_session, Control, Placed, Locking, RefInv
  <2>0. PICK n \in Name : n = req[t].name
    BY <2>1
  <2>2. session' = None /\ \A u \in Thread : session' # u
    BY <1>19 DEF unlock_session
  <2>3. UNCHANGED <<list, name, prefs>> /\ ledger' = [ledger EXCEPT ![n] = Tally(t, "create_ref", ledger[n])]
    BY <1>19, <2>0 DEF unlock_session, TypeOK
  <2>4. \A m \in Name : Named(m)' = Named(m)
    BY <2>3 DEF Named
  <2>5. \A m \in Name \ {n} : Settled(m)'
    BY <2>1, <2>3, <2>4, <2>0, SettledFrame DEF Stage, TypeOK
  <2>6. Settled(n)'
    <3>1. ledger'[n] = Tally(t, "create_ref", ledger[n]) /\ ledger[n] \in Nat
      BY <2>3 DEF TypeOK
    <3>2. CASE rc[t] # "EOK"
      BY <1>19, <2>1, <2>3, <2>4, <2>0, <3>1, <3>2 DEF unlock_session, Stage, Settled, Tally
    <3>3. CASE rc[t] = "EOK" /\ req[t].op = "create_ref"
      BY <1>19, <2>1, <2>3, <2>4, <2>0, <3>1, <3>3 DEF unlock_session, Stage, Settled, Counts, Tally
    <3>4. CASE rc[t] = "EOK" /\ req[t].op = "delete_ref"
      BY <1>19, <2>1, <2>3, <2>4, <2>0, <3>1, <3>4 DEF unlock_session, Stage, Settled, Counts, Tally
    <3> QED
      BY <1>19, <3>2, <3>3, <3>4 DEF unlock_session, Control, Placed
  <2>7. RefcountMatchesClients'
    BY <2>5, <2>6 DEF RefcountMatchesClients
  <2> QED
    BY <2>2, <2>7 DEF RefInv
<1>20. CASE play_ref_pipeline_node(t)
  <2>1. session # t
    BY <1>20, RefsOnlyOps DEF play_ref_pipeline_node, Control, Placed, Locking
  <2>2. UNCHANGED <<list, name, prefs, ledger, session>>
    BY <1>20 DEF play_ref_pipeline_node, objVars, lockVars, clientVars
  <2>3. \A u \in Thread \ {t} :
          /\ pc'[u] = pc[u] /\ req'[u] = req[u] /\ rc'[u] = rc[u]
          /\ node'[u] = node[u] /\ inner'[u] = inner[u] /\ found'[u] = found[u]
    BY <1>20 DEF play_ref_pipeline_node, Goto, Finish, list_find_child, ptrVars, TypeOK
  <2> QED
    BY <2>1, <2>2, <2>3, SessionFrame
<1>21. CASE play_ref_lookup_again(t)
  <2>1. session # t
    BY <1>21, RefsOnlyOps DEF play_ref_lookup_again, Control, Placed, Locking
  <2>2. UNCHANGED <<list, name, prefs, ledger, session>>
    BY <1>21 DEF play_ref_lookup_again, objVars, lockVars, clientVars
  <2>3. \A u \in Thread \ {t} :
          /\ pc'[u] = pc[u] /\ req'[u] = req[u] /\ rc'[u] = rc[u]
          /\ node'[u] = node[u] /\ inner'[u] = inner[u] /\ found'[u] = found[u]
    BY <1>21 DEF play_ref_lookup_again, Goto, list_find_child, ptrVars, TypeOK
  <2> QED
    BY <2>1, <2>2, <2>3, SessionFrame
<1>22. CASE play_ref_state_node(t)
  <2>1. session # t
    BY <1>22, RefsOnlyOps DEF play_ref_state_node, Control, Placed, Locking
  <2>2. UNCHANGED <<list, name, prefs, ledger, session>>
    BY <1>22 DEF play_ref_state_node, objVars, lockVars, clientVars
  <2>3. \A u \in Thread \ {t} :
          /\ pc'[u] = pc[u] /\ req'[u] = req[u] /\ rc'[u] = rc[u]
          /\ node'[u] = node[u] /\ inner'[u] = inner[u] /\ found'[u] = found[u]
    BY <1>22 DEF play_ref_state_node, Goto, ptrVars, TypeOK
  <2> QED
    BY <2>1, <2>2, <2>3, SessionFrame
<1>23. CASE lock_pipeline(t)
  <2>1. session # t
    BY <1>23, RefsOnlyOps DEF lock_pipeline, Control, Placed, Locking
  <2>2. UNCHANGED <<list, name, prefs, ledger, session>>
    BY <1>23 DEF lock_pipeline, objVars, lockVars, clientVars
  <2>3. \A u \in Thread \ {t} :
          /\ pc'[u] = pc[u] /\ req'[u] = req[u] /\ rc'[u] = rc[u]
          /\ node'[u] = node[u] /\ inner'[u] = inner[u] /\ found'[u] = found[u]
    BY <1>23 DEF lock_pipeline, Goto, ptrVars, TypeOK
  <2> QED
    BY <2>1, <2>2, <2>3, SessionFrame
<1>24. CASE play_ref_count(t)
  <2>1. session # t
    BY <1>24, RefsOnlyOps DEF play_ref_count, Control, Placed, Locking
  <2>2. UNCHANGED <<list, name, prefs, ledger, session>>
    BY <1>24 DEF play_ref_count, objVars, lockVars, clientVars
  <2>3. \A u \in Thread \ {t} :
          /\ pc'[u] = pc[u] /\ req'[u] = req[u] /\ rc'[u] = rc[u]
          /\ node'[u] = node[u] /\ inner'[u] = inner[u] /\ found'[u] = found[u]
    BY <1>24 DEF play_ref_count, Goto, ptrVars, TypeOK
  <2> QED
    BY <2>1, <2>2, <2>3, SessionFrame
<1>25. CASE state_adjust_refcount(t)
  <2>1. session # t
    BY <1>25, RefsOnlyOps DEF state_adjust_refcount, Control, Placed, Locking
  <2>2. UNCHANGED <<list, name, prefs, ledger, session>>
    BY <1>25 DEF state_adjust_refcount, objVars, lockVars, clientVars
  <2>3. \A u \in Thread \ {t} :
          /\ pc'[u] = pc[u] /\ req'[u] = req[u] /\ rc'[u] = rc[u]
          /\ node'[u] = node[u] /\ inner'[u] = inner[u] /\ found'[u] = found[u]
    BY <1>25 DEF state_adjust_refcount, Goto, ptrVars, TypeOK
  <2> QED
    BY <2>1, <2>2, <2>3, SessionFrame
<1>26. CASE unlock_pipeline(t)
  <2>1. session # t
    BY <1>26, RefsOnlyOps DEF unlock_pipeline, Control, Placed, Locking
  <2>2. UNCHANGED <<list, name, prefs, ledger, session>>
    BY <1>26 DEF unlock_pipeline, objVars, lockVars, clientVars
  <2>3. \A u \in Thread \ {t} :
          /\ pc'[u] = pc[u] /\ req'[u] = req[u] /\ rc'[u] = rc[u]
          /\ node'[u] = node[u] /\ inner'[u] = inner[u] /\ found'[u] = found[u]
    BY <1>26 DEF unlock_pipeline, Goto, ptrVars, TypeOK
  <2> QED
    BY <2>1, <2>2, <2>3, SessionFrame
<1>27. CASE play_ref_return(t)
  <2>1. session # t
    BY <1>27, RefsOnlyOps DEF play_ref_return, Control, Placed, Locking
  <2>2. UNCHANGED <<list, name, prefs, ledger, session>>
    BY <1>27 DEF play_ref_return, objVars, lockVars, clientVars
  <2>3. \A u \in Thread \ {t} :
          /\ pc'[u] = pc[u] /\ req'[u] = req[u] /\ rc'[u] = rc[u]
          /\ node'[u] = node[u] /\ inner'[u] = inner[u] /\ found'[u] = found[u]
    BY <1>27 DEF play_ref_return, Goto, Finish, ptrVars, TypeOK
  <2> QED
    BY <2>1, <2>2, <2>3, SessionFrame
<1> QED
  BY <1>1, <1>2, <1>3, <1>4, <1>5, <1>6, <1>7, <1>8, <1>9, <1>10, <1>11,
     <1>12, <1>13, <1>14, <1>15, <1>16, <1>17, <1>18, <1>19, <1>20, <1>21,
     <1>22, <1>23, <1>24, <1>25, <1>26, <1>27 DEF Serve

\* The daemon starts with every name settled.
LEMMA InitRef == Init => RefInv
BY DEF Init, RefInv, RefcountMatchesClients, Settled, Named

\* Every step of every thread keeps the names settled, or where Stage says.
LEMMA NextRef ==
  ASSUME RefsOnly, IInv, RefInv, [Next]_vars PROVE RefInv'
<1>1. CASE Next
  BY <1>1, RefStep DEF Next
<1>2. CASE UNCHANGED vars
  <2>1. UNCHANGED <<list, name, prefs, ledger, session, pc, req, rc, node, inner, found>>
    BY <1>2 DEF vars, objVars, lockVars, ptrVars, clientVars
  <2> QED
    BY <2>1, SessionMove DEF RefInv, RefcountMatchesClients, Stage
<1> QED
  BY <1>1, <1>2

\* Under the two interfaces a pipeline exists exactly while clients hold
\* creation references, as many as its refcount says.
THEOREM RefcountIsExact ==
  ASSUME RefsOnly PROVE Spec => []RefcountMatchesClients
<1>1. Init => RefInv
  BY InitRef
<1>2. IInv /\ RefInv /\ [Next]_vars => RefInv'
  BY NextRef
<1>3. RefInv => RefcountMatchesClients
  BY DEF RefInv
<1> QED
  BY Invariance, <1>1, <1>2, <1>3, PTL DEF Spec

-----------------------------------------------------------------------------
(* Play references *)

\* The clients use the reference counted interfaces only and keep to the
\* contract, and elements change their state when told.
ByContract == RefsOnly /\ Contract /\ ~Faults

\* Somebody plays the pipeline called n, or is inside play_ref or stop_ref.
Played(n) == plays[n] > 0 \/ Busy(n, PlayApi) # {}

\* What the contract gives: the creation references of n cover the deletions
\* under way and one more while it is played, its play references the stops.
Kept(n) ==
  /\ ledger[n] >= Cardinality(Busy(n, {"delete_ref"}))
  /\ Played(n) => ledger[n] > Cardinality(Busy(n, {"delete_ref"}))
  /\ plays[n] >= Cardinality(Busy(n, {"stop_ref"}))

\* A thread inside play_ref or stop_ref points to the pipeline it was asked for.
Aimed(t) ==
  req[t].op \in PlayApi =>
    \A p \in {node[t], snode[t], inner[t], isnode[t]} : p # None => p \in Named(req[t].name)

\* The threads that adjusted the play refcount of n and have yet to answer.
Adjusted(n, o) ==
  {t \in Thread : pc[t] = "punlock" /\ rc[t] = "EOK" /\ req[t].op = o /\ req[t].name = n}

\* The play refcount is the number of play references, but for those.
Counted(n) ==
  \A p \in Named(n) :
    srefs[p] + Cardinality(Adjusted(n, "stop_ref")) =
      plays[n] + Cardinality(Adjusted(n, "play_ref"))

\* A pipeline on its way into the list is stopped and its play refcount is 0.
Fresh(t) == pc[t] = "append" => srefs[inner[t]] = 0 /\ elem[inner[t]] = "NULL"

\* What the holder t of a pipeline lock has found and done so far: it changes
\* the state for the first play and the last stop, and counts after that.
Midway(t) ==
  LET p == snode[t]
      first == IF req[t].op = "play_ref" THEN 0 ELSE 1
  IN  req[t].op \in PlayApi =>
        /\ pc[t] \in UpdateLabels => srefs[p] = first
        /\ pc[t] = "sadjust" =>
             elem[p] = IF req[t].op = "play_ref" \/ srefs[p] > 1 THEN "PLAYING" ELSE "NULL"

\* Between the two, a listed pipeline plays exactly while its refcount is not 0.
Steady(p) ==
  \/ \E t \in Thread : pc[t] = "sadjust" /\ node[t] = p
  \/ srefs[p] > 0 <=> elem[p] = "PLAYING"

PlayInv ==
  /\ \A n \in Name : Kept(n) /\ Counted(n)
  /\ \A t \in Thread : Aimed(t) /\ Fresh(t) /\ Midway(t)
  /\ \A p \in list : name[p] \in Name /\ Steady(p)

-----------------------------------------------------------------------------
(* The contract. *)

\* Finitely many threads work on a name.
LEMMA BusyFinite ==
  ASSUME NEW n, NEW ops
  PROVE  IsFiniteSet(Busy(n, ops)) /\ Cardinality(Busy(n, ops)) \in Nat
<1>1. IsFiniteSet(Busy(n, ops))
  BY FS_Subset DEF Busy
<1> QED
  BY <1>1, FS_CardinalityType

\* A thread that works on a name counts.
LEMMA BusyCounts ==
  ASSUME NEW n, NEW ops, NEW t \in Thread, req[t].op \in ops, req[t].name = n
  PROVE  Cardinality(Busy(n, ops)) >= 1
<1>1. t \in Busy(n, ops)
  BY DEF Busy
<1>2. Cardinality(Busy(n, ops)) # 0
  BY <1>1, BusyFinite, FS_EmptySet
<1> QED
  BY <1>2, BusyFinite

\* A thread starts on a request.
LEMMA BusyEnter ==
  ASSUME TypeOK, NEW t \in Thread, req[t].op = "none", NEW r \in Request,
         req'[t] = r, \A u \in Thread \ {t} : req'[u] = req[u], NEW n,
         NEW o \in {"delete_ref", "stop_ref"}
  PROVE  Cardinality(Busy(n, {o})') =
           Cardinality(Busy(n, {o})) + (IF r.op = o /\ r.name = n THEN 1 ELSE 0)
<1>0. req \in [Thread -> Request \cup {NoRequest}]
  BY DEF TypeOK
<1>1. CASE r.op = o /\ r.name = n
  <2>1. t \notin Busy(n, {o}) /\ Busy(n, {o})' = Busy(n, {o}) \cup {t}
    BY <1>0, <1>1 DEF Busy
  <2>2. Cardinality(Busy(n, {o}) \cup {t}) = Cardinality(Busy(n, {o})) + 1
    BY <2>1, BusyFinite, FS_AddElement
  <2> QED
    BY <1>1, <2>1, <2>2
<1>2. CASE ~(r.op = o /\ r.name = n)
  <2>1. Busy(n, {o})' = Busy(n, {o})
    BY <1>0, <1>2 DEF Busy
  <2> QED
    BY <1>2, <2>1, BusyFinite
<1> QED
  BY <1>1, <1>2

\* A thread is done with its request.
LEMMA BusyLeave ==
  ASSUME TypeOK, NEW t \in Thread, req'[t] = NoRequest,
         \A u \in Thread \ {t} : req'[u] = req[u], NEW n,
         NEW o \in {"delete_ref", "stop_ref"}
  PROVE  Cardinality(Busy(n, {o})') =
           Cardinality(Busy(n, {o})) - (IF req[t].op = o /\ req[t].name = n THEN 1 ELSE 0)
<1>0. req \in [Thread -> Request \cup {NoRequest}]
  BY DEF TypeOK
<1>1. CASE req[t].op = o /\ req[t].name = n
  <2>1. t \in Busy(n, {o}) /\ Busy(n, {o})' = Busy(n, {o}) \ {t}
    BY <1>0, <1>1 DEF Busy, NoRequest
  <2>2. Cardinality(Busy(n, {o}) \ {t}) = Cardinality(Busy(n, {o})) - 1
    BY <2>1, BusyFinite, FS_RemoveElement
  <2> QED
    BY <1>1, <2>1, <2>2
<1>2. CASE ~(req[t].op = o /\ req[t].name = n)
  <2>1. Busy(n, {o})' = Busy(n, {o})
    BY <1>0, <1>2 DEF Busy, NoRequest
  <2> QED
    BY <1>2, <2>1, BusyFinite
<1> QED
  BY <1>1, <1>2

\* Every step of clients that keep to the contract leaves their references
\* where Kept says.
LEMMA KeptStep ==
  ASSUME ByContract, IInv, TypeOK', NEW t \in Thread, parser_parse_cmd(t) \/ Serve(t),
         NEW n \in Name, Kept(n)
  PROVE  Kept(n)'
<1> DEFINE d == Cardinality(Busy(n, {"delete_ref"}))
           s == Cardinality(Busy(n, {"stop_ref"}))
<1>t. TypeOK /\ Control
  BY DEF IInv
<1>i. d \in Nat /\ s \in Nat /\ ledger[n] \in Nat /\ plays[n] \in Nat
  BY <1>t, BusyFinite DEF TypeOK
<1>j. ledger'[n] \in Nat /\ plays'[n] \in Nat
  BY DEF TypeOK
<1>k. /\ ledger[n] >= d /\ (Played(n) => ledger[n] > d) /\ plays[n] >= s
  BY DEF Kept
<1>1. CASE UNCHANGED <<req, ledger, plays>>
  BY <1>1 DEF Kept, Played, Busy
<1>2. CASE parser_parse_cmd(t)
  <2>1. PICK r \in Request : MayCall(r.op, r.name) /\ req' = [req EXCEPT ![t] = r]
    BY <1>2 DEF parser_parse_cmd
  <2>2. UNCHANGED <<ledger, plays>> /\ req[t].op = "none"
    BY <1>2, <1>t DEF parser_parse_cmd, clientVars, Control, Placed
  <2>0. req'[t] = r /\ \A u \in Thread \ {t} : req'[u] = req[u]
    BY <2>1, <1>t DEF TypeOK
  <2>3. d' = d + (IF r.op = "delete_ref" /\ r.name = n THEN 1 ELSE 0)
    BY <2>0, <2>2, <1>t, BusyEnter
  <2>4. s' = s + (IF r.op = "stop_ref" /\ r.name = n THEN 1 ELSE 0)
    BY <2>0, <2>2, <1>t, BusyEnter
  <2>5. CASE r.name # n
    <3>1. Busy(n, PlayApi)' \subseteq Busy(n, PlayApi)
      BY <2>1, <2>5, <1>t DEF Busy, TypeOK
    <3>2. d' = d /\ s' = s
      BY <2>3, <2>4, <2>5, <1>i
    <3> QED
      BY <2>2, <3>1, <3>2, <1>k DEF Kept, Played
  <2>6. CASE r.name = n
    <3> DEFINE kept == ledger[n] - d
               playing == plays[n] - s
    <3>1. /\ r.op = "play_ref" => kept > 0
          /\ r.op = "stop_ref" => playing > 0
          /\ r.op = "delete_ref" =>
               \/ kept > 1
               \/ kept = 1 /\ plays[n] = 0 /\ Busy(n, PlayApi) = {}
      BY <2>1, <2>6 DEF MayCall, ByContract
    <3>2. CASE r.op = "delete_ref"
      <4>1. Busy(n, PlayApi)' \subseteq Busy(n, PlayApi)
        BY <2>1, <3>2, <1>t DEF Busy, TypeOK
      <4>2. d' = d + 1 /\ s' = s
        BY <2>3, <2>4, <2>6, <3>2, <1>i
      <4>3. ledger[n] >= d + 1 /\ (plays[n] > 0 \/ Busy(n, PlayApi) # {} => ledger[n] > d + 1)
        BY <3>1, <3>2, <1>i
      <4> QED
        BY <2>2, <4>1, <4>2, <4>3, <1>k DEF Kept, Played
    <3>3. CASE r.op = "stop_ref"
      <4>1. d' = d /\ s' = s + 1
        BY <2>3, <2>4, <2>6, <3>3, <1>i
      <4>2. plays[n] > 0 /\ plays[n] >= s + 1
        BY <3>1, <3>3, <1>i
      <4> QED
        BY <2>2, <4>1, <4>2, <1>k DEF Kept, Played
    <3>4. CASE r.op = "play_ref"
      <4>1. d' = d /\ s' = s
        BY <2>3, <2>4, <2>6, <3>4, <1>i
      <4>2. ledger[n] > d
        BY <3>1, <3>4, <1>i
      <4> QED
        BY <2>2, <4>1, <4>2, <1>k DEF Kept, Played
    <3>5. CASE r.op \notin {"delete_ref", "stop_ref", "play_ref"}
      <4>1. Busy(n, PlayApi)' \subseteq Busy(n, PlayApi)
        BY <2>1, <3>5, <1>t DEF Busy, TypeOK
      <4>2. d' = d /\ s' = s
        BY <2>3, <2>4, <3>5, <1>i
      <4> QED
        BY <2>2, <4>1, <4>2, <1>k DEF Kept, Played
    <3> QED
      BY <3>2, <3>3, <3>4, <3>5
  <2> QED
    BY <2>5, <2>6
<1>3. CASE /\ req' = [req EXCEPT ![t] = NoRequest]
           /\ \/ UNCHANGED <<ledger, plays>>
              \/ unlock_session(t)
              \/ play_ref_return(t)
  <2>0. req'[t] = NoRequest /\ \A u \in Thread \ {t} : req'[u] = req[u]
    BY <1>3, <1>t DEF TypeOK
  <2>1. d' = d - (IF req[t].op = "delete_ref" /\ req[t].name = n THEN 1 ELSE 0)
    BY <2>0, <1>t, BusyLeave
  <2>2. s' = s - (IF req[t].op = "stop_ref" /\ req[t].name = n THEN 1 ELSE 0)
    BY <2>0, <1>t, BusyLeave
  <2>3. Busy(n, PlayApi)' \subseteq Busy(n, PlayApi)
    BY <1>3, <1>t DEF Busy, TypeOK, NoRequest
  <2>4. d' <= d /\ s' <= s /\ d' \in Int /\ s' \in Int
    BY <2>1, <2>2, <1>i
  <2>5. CASE UNCHANGED <<ledger, plays>>
    BY <2>3, <2>4, <2>5, <1>i, <1>k DEF Kept, Played
  <2>6. CASE unlock_session(t)
    <3>1. /\ req[t].op \in RefApi /\ UNCHANGED plays
          /\ ledger' = [ledger EXCEPT ![req[t].name] = Tally(t, "create_ref", @)]
      BY <2>6, <1>t DEF unlock_session, Control, Placed
    <3>2. CASE req[t].name # n
      BY <2>3, <2>4, <3>1, <3>2, <1>i, <1>k, <1>t DEF Kept, Played, TypeOK
    <3>3. CASE req[t].name = n
      <4>1. ledger'[n] = Tally(t, "create_ref", ledger[n])
        BY <3>1, <3>3, <1>t DEF TypeOK
      <4>2. CASE req[t].op = "create_ref"
        <5>1. ledger'[n] >= ledger[n]
          BY <4>1, <4>2, <1>i DEF Tally
        <5> QED
          BY <2>3, <2>4, <3>1, <5>1, <1>i, <1>j, <1>k DEF Kept, Played
      <4>3. CASE req[t].op = "delete_ref"
        <5>1. d' = d - 1
          BY <2>1, <3>3, <4>3, <1>i
        <5>2. d >= 1
          BY <3>3, <4>3, BusyCounts
        <5>3. ledger'[n] >= ledger[n] - 1
          BY <4>1, <4>3, <5>2, <1>i, <1>k DEF Tally
        <5> QED
          BY <2>3, <2>4, <3>1, <5>1, <5>3, <1>i, <1>j, <1>k DEF Kept, Played
      <4> QED
        BY <3>1, <4>2, <4>3
    <3> QED
      BY <3>2, <3>3
  <2>7. CASE play_ref_return(t)
    <3>1. /\ req[t].op \in PlayApi /\ UNCHANGED ledger
          /\ plays' = [plays EXCEPT ![req[t].name] = Tally(t, "play_ref", @)]
      BY <2>7, <1>t DEF play_ref_return, Control, Placed
    <3>2. CASE req[t].name # n
      BY <2>3, <2>4, <3>1, <3>2, <1>i, <1>k, <1>t DEF Kept, Played, TypeOK
    <3>3. CASE req[t].name = n
      <4>0. Played(n)
        BY <3>1, <3>3 DEF Played, Busy
      <4>1. plays'[n] = Tally(t, "play_ref", plays[n])
        BY <3>1, <3>3, <1>t DEF TypeOK
      <4>2. CASE req[t].op = "play_ref"
        <5>1. plays'[n] >= plays[n]
          BY <4>1, <4>2, <1>i DEF Tally
        <5> QED
          BY <2>4, <3>1, <4>0, <5>1, <1>i, <1>j, <1>k DEF Kept
      <4>3. CASE req[t].op = "stop_ref"
        <5>1. s' = s - 1
          BY <2>2, <3>3, <4>3, <1>i
        <5>2. s >= 1
          BY <3>3, <4>3, BusyCounts
        <5>3. plays'[n] >= plays[n] - 1
          BY <4>1, <4>3, <5>2, <1>i, <1>k DEF Tally
        <5> QED
          BY <2>4, <3>1, <4>0, <5>1, <5>3, <1>i, <1>j, <1>k DEF Kept
      <4> QED
        BY <3>1, <4>2, <4>3
    <3> QED
      BY <3>2, <3>3
  <2> QED
    BY <1>3, <2>5, <2>6, <2>7
<1>4. \/ UNCHANGED <<req, ledger, plays>>
      \/ parser_parse_cmd(t)
      \/ /\ req' = [req EXCEPT ![t] = NoRequest]
         /\ \/ UNCHANGED <<ledger, plays>>
            \/ unlock_session(t)
            \/ play_ref_return(t)
  BY DEF Serve, pipeline_creator_create, list_append_child, parser_create_read,
     parser_create_to_string, list_delete, pipeline_deleter_stop, list_delete_link,
     get_by_uri_pipeline, get_by_uri_state, state_update, lock_session, create_ref_lookup,
     create_ref_relookup, pipeline_increment_refcount, delete_ref_lookup, delete_ref_count,
     pipeline_decrement_refcount, unlock_session, play_ref_pipeline_node,
     play_ref_lookup_again, play_ref_state_node, lock_pipeline, play_ref_count,
     state_adjust_refcount, unlock_pipeline, play_ref_return, Return, Finish, clientVars
<1> QED
  BY <1>1, <1>2, <1>3, <1>4

-----------------------------------------------------------------------------
(* The pipelines and the list. *)

\* A pipeline that is played is listed, and nobody is about to delete it.
LEMMA PlayedListed ==
  ASSUME RefsOnly, IInv, RefInv, NEW n \in Name, Kept(n), Played(n)
  PROVE  /\ Named(n) # {}
         /\ \A t \in Thread : pc[t] \in DeleteLabels => req[t].name # n
<1> DEFINE d == Cardinality(Busy(n, {"delete_ref"}))
<1>t. TypeOK /\ Control
  BY DEF IInv
<1>i. d \in Nat /\ ledger[n] \in Nat /\ ledger[n] > d
  BY <1>t, BusyFinite DEF TypeOK, Kept
<1>d. ASSUME NEW u \in Thread, req[u].op = "delete_ref", req[u].name = n PROVE ledger[n] > 1
  <2>1. d >= 1
    BY <1>d, BusyCounts
  <2> QED
    BY <2>1, <1>i
<1> HIDE DEF d
<1>1. ASSUME NEW u \in Thread, pc[u] \in DeleteLabels PROVE req[u].name # n
  <2>1. req[u].op = "delete_ref"
    BY <1>1, <1>t, RefsOnlyOps DEF Control, Placed
  <2>2. session = u
    BY <1>1, <2>1, <1>t DEF Control, Locking
  <2>3. Stage(u)
    BY <2>2 DEF RefInv
  <2>4. ledger[req[u].name] = 1
    BY <1>1, <2>3 DEF Stage
  <2> QED
    BY <2>1, <2>4, <1>d
<1>2. ASSUME session = None PROVE Named(n) # {}
  BY <1>2, <1>i DEF RefInv, RefcountMatchesClients, Settled
<1>3. ASSUME NEW u \in Thread, session = u PROVE Named(n) # {}
  <2>1. Stage(u)
    BY <1>3 DEF RefInv
  <2>2. req[u].op \in RefApi /\ pc[u] # "lock"
    BY <1>3, <1>t DEF Control, Locking
  <2>3. CASE req[u].name # n
    BY <2>1, <2>3, <1>i DEF Stage, Settled
  <2>4. CASE req[u].name = n
    <3>1. \/ pc[u] = "lookup" \/ pc[u] \in CreateLabels \/ pc[u] \in {"relookup", "increment"}
          \/ pc[u] \in DeleteLabels \cup {"count", "decrement"} \/ pc[u] = "unlock"
      BY <2>2, <1>t DEF TypeOK, Control, Placed
    <3>2. CASE pc[u] = "lookup"
      BY <2>1, <2>4, <3>2, <1>i DEF Stage, Settled
    <3>3. CASE pc[u] \in CreateLabels \/ pc[u] = "relookup"
      BY <2>1, <2>4, <3>3, <1>i DEF Stage
    <3>4. CASE pc[u] = "increment"
      BY <2>1, <2>4, <3>4 DEF Stage
    <3>5. CASE pc[u] \in DeleteLabels \cup {"count", "decrement"}
      BY <2>1, <2>4, <3>5 DEF Stage
    <3>6. CASE pc[u] = "unlock" /\ rc[u] # "EOK"
      BY <2>1, <2>4, <3>6, <1>i DEF Stage, Settled
    <3>7. CASE pc[u] = "unlock" /\ rc[u] = "EOK" /\ req[u].op = "create_ref"
      BY <2>1, <2>4, <3>7 DEF Stage, Counts
    <3>8. CASE pc[u] = "unlock" /\ rc[u] = "EOK" /\ req[u].op = "delete_ref"
      <4>1. ledger[n] > 1
        BY <2>4, <3>8, <1>d
      <4> QED
        BY <2>1, <2>4, <3>8, <4>1, <1>i DEF Stage, Counts
    <3> QED
      BY <2>2, <3>1, <3>2, <3>3, <3>4, <3>5, <3>6, <3>7, <3>8
  <2> QED
    BY <2>3, <2>4
<1> QED
  BY <1>1, <1>2, <1>3, <1>t DEF TypeOK

\* A thread's step leaves the other threads where they are.
LEMMA OthersStay ==
  ASSUME TypeOK, NEW t \in Thread, parser_parse_cmd(t) \/ Serve(t), NEW u \in Thread, u # t
  PROVE  /\ pc'[u] = pc[u] /\ req'[u] = req[u] /\ rc'[u] = rc[u]
         /\ node'[u] = node[u] /\ snode'[u] = snode[u] /\ inner'[u] = inner[u]
         /\ isnode'[u] = isnode[u] /\ found'[u] = found[u]
<1> USE DEF TypeOK, Goto, Return, Finish, ptrVars
<1>1. CASE parser_parse_cmd(t)
  BY <1>1 DEF parser_parse_cmd
<1>2. CASE pipeline_creator_create(t)
  BY <1>2 DEF pipeline_creator_create
<1>3. CASE list_append_child(t)
  BY <1>3 DEF list_append_child
<1>4. CASE parser_create_read(t)
  BY <1>4 DEF parser_create_read, list_find_child
<1>5. CASE parser_create_to_string(t)
  BY <1>5 DEF parser_create_to_string
<1>6. CASE list_delete(t)
  BY <1>6 DEF list_delete
<1>7. CASE pipeline_deleter_stop(t)
  BY <1>7 DEF pipeline_deleter_stop
<1>8. CASE list_delete_link(t)
  BY <1>8 DEF list_delete_link
<1>9. CASE get_by_uri_pipeline(t)
  BY <1>9 DEF get_by_uri_pipeline, list_find_child
<1>10. CASE get_by_uri_state(t)
  BY <1>10 DEF get_by_uri_state
<1>11. CASE state_update(t)
  BY <1>11 DEF state_update
<1>12. CASE lock_session(t)
  BY <1>12 DEF lock_session
<1>13. CASE create_ref_lookup(t)
  BY <1>13 DEF create_ref_lookup, list_find_child
<1>14. CASE create_ref_relookup(t)
  BY <1>14 DEF create_ref_relookup, list_find_child
<1>15. CASE pipeline_increment_refcount(t)
  BY <1>15 DEF pipeline_increment_refcount
<1>16. CASE delete_ref_lookup(t)
  BY <1>16 DEF delete_ref_lookup, list_find_child
<1>17. CASE delete_ref_count(t)
  BY <1>17 DEF delete_ref_count
<1>18. CASE pipeline_decrement_refcount(t)
  BY <1>18 DEF pipeline_decrement_refcount
<1>19. CASE unlock_session(t)
  BY <1>19 DEF unlock_session
<1>20. CASE play_ref_pipeline_node(t)
  BY <1>20 DEF play_ref_pipeline_node, list_find_child
<1>21. CASE play_ref_lookup_again(t)
  BY <1>21 DEF play_ref_lookup_again, list_find_child
<1>22. CASE play_ref_state_node(t)
  BY <1>22 DEF play_ref_state_node
<1>23. CASE lock_pipeline(t)
  BY <1>23 DEF lock_pipeline
<1>24. CASE play_ref_count(t)
  BY <1>24 DEF play_ref_count
<1>25. CASE state_adjust_refcount(t)
  BY <1>25 DEF state_adjust_refcount
<1>26. CASE unlock_pipeline(t)
  BY <1>26 DEF unlock_pipeline
<1>27. CASE play_ref_return(t)
  BY <1>27 DEF play_ref_return
<1> QED
  BY <1>1, <1>2, <1>3, <1>4, <1>5, <1>6, <1>7, <1>8, <1>9, <1>10, <1>11,
     <1>12, <1>13, <1>14, <1>15, <1>16, <1>17, <1>18, <1>19, <1>20, <1>21,
     <1>22, <1>23, <1>24, <1>25, <1>26, <1>27 DEF Serve

\* A pipeline in the list and in somebody's hands has two references.
LEMMA TwoHolders ==
  ASSUME TypeOK, PipelineRefsExact, NEW p \in list, NEW t \in Thread, node[t] = p \/ inner[t] = p
  PROVE  gref[p] # 1
<1>0. p \in Pipe
  BY DEF TypeOK
<1> DEFINE l == <<None, "list">>
<1>1. l \in Holders(p)
  BY DEF Holders
<1>2. PICK h \in Holders(p) : h # l
  <2>1. CASE node[t] = p
    <3>1. <<t, "node">> \in Holders(p)
      BY <2>1 DEF Holders
    <3> QED
      BY <3>1
  <2>2. CASE inner[t] = p
    <3>1. <<t, "inner">> \in Holders(p)
      BY <2>2 DEF Holders
    <3> QED
      BY <3>1
  <2> QED
    BY <2>1, <2>2
<1>3. SUFFICES ASSUME gref[p] = 1 PROVE FALSE
  OBVIOUS
<1>4. IsFiniteSet(Holders(p)) /\ Cardinality(Holders(p)) = 1
  BY <1>0, <1>3, HoldersFinite DEF PipelineRefsExact
<1>5. Cardinality(Holders(p) \ {l}) = 0 /\ IsFiniteSet(Holders(p) \ {l})
  BY <1>1, <1>4, FS_RemoveElement
<1>6. Holders(p) \ {l} = {}
  BY <1>5, FS_EmptySet
<1> QED
  BY <1>2, <1>6

\* g_object_unref changes the element only when the last reference goes.
LEMMA UnrefElem ==
  ASSUME TypeOK, NEW p \in Pipe, NEW k, unref_pipeline(p, k), NEW q \in Pipe, q # p \/ gref[p] # 1
  PROVE  elem'[q] = elem[q]
BY DEF unref_pipeline, TypeOK

\* A pipeline whose element only requests that name it change: it stays in the
\* list, or is on its way there in the hands of another thread.
Steered(t, p) ==
  \/ p \in list /\ p \in list'
  \/ \E u \in Thread \ {t} : pc[u] = "append" /\ inner[u] = p

\* Steps that drop a pipeline leave the others', and the listed, elements alone.
LEMMA DropSpares ==
  ASSUME TypeOK, PipelineRefsExact, Exclusive, NEW t \in Thread, NEW q \in Pipe,
         node[t] = q \/ inner[t] = q, NEW k, unref_pipeline(q, k),
         NEW p \in Pipe, Steered(t, p)
  PROVE  elem'[p] = elem[p]
<1>1. CASE p \in list
  BY <1>1, TwoHolders, UnrefElem
<1>2. ASSUME NEW u \in Thread \ {t}, pc[u] = "append", inner[u] = p PROVE elem'[p] = elem[p]
  <2>1. p # q
    BY <1>2 DEF Exclusive
  <2> QED
    BY <2>1, UnrefElem
<1> QED
  BY <1>1, <1>2 DEF Steered

\* What a step changes of the pipelines in use.
LEMMA ObjectStep ==
  ASSUME IInv, NEW t \in Thread, parser_parse_cmd(t) \/ Serve(t), NEW p \in Pipe, Steered(t, p)
  PROVE  /\ name'[p] = name[p]
         /\ pc[t] \notin {"update", "stop"} => elem'[p] = elem[p]
         /\ pc[t] # "sadjust" => srefs'[p] = srefs[p]
<1>t. TypeOK /\ Control /\ PipelineRefsExact /\ Exclusive /\ FoundListed
  BY DEF IInv
<1>1. CASE parser_parse_cmd(t)
  BY <1>1 DEF parser_parse_cmd, objVars
<1>2. CASE pipeline_creator_create(t)
  <2>1. p \notin Free
    <3>1. CASE p \in list
      BY <3>1, <1>t, UnheldWhenZero DEF Free
    <3>2. CASE \E u \in Thread \ {t} : pc[u] = "append" /\ inner[u] = p
      BY <3>2, <1>t, UnheldWhenZero DEF Free
    <3> QED
      BY <3>1, <3>2 DEF Steered
  <2>2. \/ UNCHANGED <<name, elem, srefs>>
        \/ \E q \in Free : /\ name' = [name EXCEPT ![q] = req[t].name]
                           /\ srefs' = [srefs EXCEPT ![q] = 0]
                           /\ elem' = [elem EXCEPT ![q] = "NULL"]
    BY <1>2 DEF pipeline_creator_create, objVars
  <2> QED
    BY <2>1, <2>2, <1>t DEF TypeOK
<1>3. CASE list_append_child(t)
  <2>1. UNCHANGED <<name, srefs>> /\ (UNCHANGED elem \/ unref_pipeline(inner[t], 0))
    BY <1>3 DEF list_append_child
  <2>2. inner[t] \in Pipe
    BY <1>3, <1>t DEF list_append_child, TypeOK, Control, Pointing
  <2>3. elem'[p] = elem[p]
    BY <2>1, <2>2, <1>t, DropSpares
  <2> QED
    BY <2>1, <2>3
<1>4. CASE parser_create_read(t)
  BY <1>4 DEF parser_create_read, objVars
<1>5. CASE parser_create_to_string(t)
  <2>1. PICK q \in Pipe : q = inner[t]
    BY <1>5, <1>t DEF parser_create_to_string, TypeOK, Control, Placed, Pointing
  <2>2. UNCHANGED <<name, srefs>> /\ \E k \in Int : unref_pipeline(q, k)
    BY <1>5, <2>1 DEF parser_create_to_string
  <2>3. elem'[p] = elem[p]
    BY <2>1, <2>2, <1>t, DropSpares
  <2> QED
    BY <2>2, <2>3
<1>6. CASE list_delete(t)
  BY <1>6 DEF list_delete, objVars
<1>7. CASE pipeline_deleter_stop(t)
  BY <1>7 DEF pipeline_deleter_stop
<1>8. CASE list_delete_link(t)
  <2>1. PICK q \in Pipe : q = found[t]
    BY <1>8, <1>t DEF list_delete_link, TypeOK, Control, Pointing
  <2>2. UNCHANGED <<name, srefs>> /\ unref_pipeline(q, 1) /\ list' = list \ {q}
    BY <1>8, <2>1 DEF list_delete_link
  <2>3. q \in list
    BY <1>8, <2>1, <1>t DEF list_delete_link, FoundListed
  <2>4. p # q
    BY <2>2, <2>3, <1>t DEF Steered, Exclusive
  <2>5. elem'[p] = elem[p]
    BY <2>2, <2>4, <1>t, UnrefElem
  <2> QED
    BY <2>2, <2>5
<1>9. CASE get_by_uri_pipeline(t)
  BY <1>9 DEF get_by_uri_pipeline, objVars
<1>10. CASE get_by_uri_state(t)
  <2>1. PICK q \in Pipe : q = inner[t]
    BY <1>10, <1>t DEF get_by_uri_state, TypeOK, Control, Placed, Pointing
  <2>2. UNCHANGED <<name, srefs>> /\ \E k \in Int : unref_pipeline(q, k)
    BY <1>10, <2>1 DEF get_by_uri_state
  <2>3. elem'[p] = elem[p]
    BY <2>1, <2>2, <1>t, DropSpares
  <2> QED
    BY <2>2, <2>3
<1>11. CASE state_update(t)
  BY <1>11 DEF state_update
<1>12. CASE lock_session(t)
  BY <1>12 DEF lock_session, objVars
<1>13. CASE create_ref_lookup(t)
  BY <1>13 DEF create_ref_lookup, objVars
<1>14. CASE create_ref_relookup(t)
  BY <1>14 DEF create_ref_relookup, objVars
<1>15. CASE pipeline_increment_refcount(t)
  BY <1>15 DEF pipeline_increment_refcount, objVars
<1>16. CASE delete_ref_lookup(t)
  BY <1>16 DEF delete_ref_lookup, objVars
<1>17. CASE delete_ref_count(t)
  BY <1>17 DEF delete_ref_count, objVars
<1>18. CASE pipeline_decrement_refcount(t)
  BY <1>18 DEF pipeline_decrement_refcount, objVars
<1>19. CASE unlock_session(t)
  <2>1. UNCHANGED <<name, srefs>>
    BY <1>19 DEF unlock_session
  <2>2. CASE node[t] = None
    BY <1>19, <2>1, <2>2 DEF unlock_session
  <2>3. CASE node[t] # None
    <3>1. node[t] \in Pipe /\ unref_pipeline(node[t], 0)
      BY <1>19, <2>3, <1>t DEF unlock_session, TypeOK
    <3>2. elem'[p] = elem[p]
      BY <3>1, <1>t, DropSpares
    <3> QED
      BY <2>1, <3>2
  <2> QED
    BY <2>2, <2>3
<1>20. CASE play_ref_pipeline_node(t)
  BY <1>20 DEF play_ref_pipeline_node, objVars
<1>21. CASE play_ref_lookup_again(t)
  BY <1>21 DEF play_ref_lookup_again, objVars
<1>22. CASE play_ref_state_node(t)
  <2>1. PICK q \in Pipe : q = inner[t]
    BY <1>22, <1>t DEF play_ref_state_node, TypeOK, Control, Placed, Pointing
  <2>2. UNCHANGED <<name, srefs>> /\ \E k \in Int : unref_pipeline(q, k)
    BY <1>22, <2>1 DEF play_ref_state_node
  <2>3. elem'[p] = elem[p]
    BY <2>1, <2>2, <1>t, DropSpares
  <2> QED
    BY <2>2, <2>3
<1>23. CASE lock_pipeline(t)
  BY <1>23 DEF lock_pipeline, objVars
<1>24. CASE play_ref_count(t)
  BY <1>24 DEF play_ref_count, objVars
<1>25. CASE state_adjust_refcount(t)
  BY <1>25 DEF state_adjust_refcount
<1>26. CASE unlock_pipeline(t)
  BY <1>26 DEF unlock_pipeline, objVars
<1>27. CASE play_ref_return(t)
  <2>1. PICK q \in Pipe : q = node[t]
    BY <1>27, <1>t DEF play_ref_return, TypeOK, Control, Placed, Pointing
  <2>2. UNCHANGED <<name, srefs>> /\ \E k \in Int : unref_pipeline(q, k)
    BY <1>27, <2>1 DEF play_ref_return
  <2>3. elem'[p] = elem[p]
    BY <2>1, <2>2, <1>t, DropSpares
  <2> QED
    BY <2>2, <2>3
<1> QED
  BY <1>1, <1>2, <1>3, <1>4, <1>5, <1>6, <1>7, <1>8, <1>9, <1>10, <1>11,
     <1>12, <1>13, <1>14, <1>15, <1>16, <1>17, <1>18, <1>19, <1>20, <1>21,
     <1>22, <1>23, <1>24, <1>25, <1>26, <1>27 DEF Serve

\* The pipelines called m before and after a step.
LEMMA NamedStep ==
  ASSUME IInv, NEW t \in Thread, parser_parse_cmd(t) \/ Serve(t), NEW m
  PROVE  \/ Named(m)' = Named(m)
         \/ /\ list_append_child(t) /\ ~NameTaken(req[t].name)
            /\ m = req[t].name /\ Named(m)' = Named(m) \cup {inner[t]}
         \/ list_delete_link(t) /\ Named(m)' = Named(m) \ {found[t]}
<1>t. TypeOK /\ CreatedName
  BY DEF IInv
<1>1. CASE list' = list
  <2>1. \A p \in list : name'[p] = name[p]
    BY <1>1, <1>t, ObjectStep DEF Steered, TypeOK
  <2> QED
    BY <1>1, <2>1 DEF Named
<1>2. CASE list_append_child(t) /\ ~NameTaken(req[t].name)
  <2>1. name[inner[t]] = req[t].name
    BY <1>2, <1>t DEF list_append_child, CreatedName
  <2>2. list' = list \cup {inner[t]} /\ name' = name
    BY <1>2 DEF list_append_child
  <2>3. m = req[t].name => Named(m)' = Named(m) \cup {inner[t]}
    BY <2>1, <2>2 DEF Named
  <2>4. m # req[t].name => Named(m)' = Named(m)
    BY <2>1, <2>2 DEF Named
  <2> QED
    BY <1>2, <2>3, <2>4
<1>3. CASE list_delete_link(t)
  <2>1. list' = list \ {found[t]} /\ name' = name
    BY <1>3 DEF list_delete_link
  <2>2. Named(m)' = Named(m) \ {found[t]}
    BY <2>1 DEF Named
  <2> QED
    BY <1>3, <2>2
<1>4. \/ list' = list
      \/ list_append_child(t) /\ ~NameTaken(req[t].name)
      \/ list_delete_link(t)
  BY DEF Serve, parser_parse_cmd, pipeline_creator_create, list_append_child,
     parser_create_read, parser_create_to_string, list_delete, pipeline_deleter_stop,
     get_by_uri_pipeline, get_by_uri_state, state_update, lock_session, create_ref_lookup,
     create_ref_relookup, pipeline_increment_refcount, delete_ref_lookup, delete_ref_count,
     pipeline_decrement_refcount, unlock_session, play_ref_pipeline_node,
     play_ref_lookup_again, play_ref_state_node, lock_pipeline, play_ref_count,
     state_adjust_refcount, unlock_pipeline, play_ref_return
<1> QED
  BY <1>1, <1>2, <1>3, <1>4

-----------------------------------------------------------------------------
(* Pointers. *)

\* A thread that deletes works on the pipeline it was asked for.
LEMMA DeleterAimed ==
  ASSUME RefsOnly, IInv, RefInv, NEW t \in Thread, pc[t] \in DeleteLabels
  PROVE  /\ session = t /\ req[t].op = "delete_ref" /\ req[t].name \in Name
         /\ ledger[req[t].name] = 1
         /\ pc[t] \in {"stop", "unlink"} => found[t] \in Named(req[t].name)
<1>t. TypeOK /\ Control
  BY DEF IInv
<1>1. req[t].op = "delete_ref"
  BY <1>t, RefsOnlyOps DEF Control, Placed
<1>2. session = t
  BY <1>1, <1>t DEF Control, Locking
<1>3. Stage(t)
  BY <1>2 DEF RefInv
<1>4. req[t].name \in Name
  BY <1>1, <1>t, RequestName
<1> QED
  BY <1>1, <1>2, <1>3, <1>4 DEF Stage

\* A pipeline that is played keeps its name and its place in the list.
LEMMA NamesHeld ==
  ASSUME RefsOnly, IInv, RefInv, NEW t \in Thread, parser_parse_cmd(t) \/ Serve(t),
         NEW m \in Name, Kept(m), Played(m)
  PROVE  Named(m) \subseteq Named(m)'
<1>1. CASE list_delete_link(t)
  <2>1. pc[t] = "unlink"
    BY <1>1 DEF list_delete_link
  <2>2. req[t].name # m
    BY <2>1, PlayedListed
  <2>3. found[t] \in Named(req[t].name)
    BY <2>1, DeleterAimed
  <2>4. found[t] \notin Named(m)
    BY <2>2, <2>3 DEF Named
  <2> QED
    BY <2>4, NamedStep
<1> QED
  BY <1>1, NamedStep

\* A thread inside play_ref or stop_ref has the name of a pipeline that is
\* played.
LEMMA PlayerName ==
  ASSUME IInv, NEW t \in Thread, req[t].op \in PlayApi
  PROVE  req[t].name \in Name /\ Played(req[t].name)
<1>1. req[t].name \in Name
  BY RequestName DEF IInv
<1> QED
  BY <1>1 DEF Played, Busy

\* The pointers of a thread inside play_ref or stop_ref come from lookups of
\* the name it was asked for.
LEMMA PointersFound ==
  ASSUME IInv, NEW t \in Thread, Serve(t), req[t].op \in PlayApi
  PROVE  /\ req'[t] \in {req[t], NoRequest}
         /\ {node'[t], snode'[t], inner'[t], isnode'[t]} \subseteq
              {node[t], snode[t], inner[t], isnode[t], None} \cup Named(req[t].name)
<1>t. TypeOK /\ Placed(t)
  BY DEF IInv, Control
<1> USE <1>t DEF TypeOK, Placed
<1>1. CASE \/ pipeline_creator_create(t) \/ list_append_child(t) \/ parser_create_read(t)
           \/ parser_create_to_string(t) \/ list_delete(t) \/ pipeline_deleter_stop(t)
           \/ list_delete_link(t) \/ lock_session(t) \/ create_ref_lookup(t)
           \/ create_ref_relookup(t) \/ pipeline_increment_refcount(t) \/ delete_ref_lookup(t)
           \/ delete_ref_count(t) \/ pipeline_decrement_refcount(t) \/ unlock_session(t)
  BY <1>1 DEF pipeline_creator_create, list_append_child, parser_create_read,
     parser_create_to_string, list_delete, pipeline_deleter_stop,
     list_delete_link, lock_session, create_ref_lookup,
     create_ref_relookup, pipeline_increment_refcount, delete_ref_lookup,
     delete_ref_count, pipeline_decrement_refcount, unlock_session
<1>2. CASE get_by_uri_pipeline(t)
  BY <1>2 DEF get_by_uri_pipeline, list_find_child, Goto, Return, Finish
<1>3. CASE play_ref_pipeline_node(t)
  BY <1>3 DEF play_ref_pipeline_node, list_find_child, Goto, Return, Finish
<1>4. CASE play_ref_lookup_again(t)
  BY <1>4 DEF play_ref_lookup_again, list_find_child, Goto, Return, Finish
<1>5. CASE get_by_uri_state(t)
  BY <1>5 DEF get_by_uri_state, Goto, Return, Finish, ptrVars
<1>6. CASE state_update(t)
  BY <1>6 DEF state_update, Goto, Return, Finish, ptrVars
<1>7. CASE play_ref_state_node(t)
  BY <1>7 DEF play_ref_state_node, Goto, Return, Finish, ptrVars
<1>8. CASE lock_pipeline(t)
  BY <1>8 DEF lock_pipeline, Goto, Return, Finish, ptrVars
<1>9. CASE play_ref_count(t)
  BY <1>9 DEF play_ref_count, Goto, Return, Finish, ptrVars
<1>10. CASE state_adjust_refcount(t)
  BY <1>10 DEF state_adjust_refcount, Goto, Return, Finish, ptrVars
<1>11. CASE unlock_pipeline(t)
  BY <1>11 DEF unlock_pipeline, Goto, Return, Finish, ptrVars
<1>12. CASE play_ref_return(t)
  BY <1>12 DEF play_ref_return, Goto, Return, Finish, ptrVars
<1> QED
  BY <1>1, <1>2, <1>3, <1>4, <1>5, <1>6, <1>7, <1>8, <1>9, <1>10, <1>11, <1>12 DEF Serve

\* Every step keeps the threads inside play_ref and stop_ref on the pipeline
\* they were asked for.
LEMMA AimedStep ==
  ASSUME RefsOnly, IInv, IInv', RefInv, PlayInv, NEW t \in Thread, parser_parse_cmd(t) \/ Serve(t),
         NEW u \in Thread
  PROVE  Aimed(u)'
<1>t. TypeOK /\ Control /\ TypeOK' /\ Control'
  BY DEF IInv
<1>1. SUFFICES ASSUME req'[u].op \in PlayApi
               PROVE  \A p \in {node'[u], snode'[u], inner'[u], isnode'[u]} :
                        p # None => p \in Named(req[u].name)'
  BY DEF Aimed, Named
<1>2. CASE req[u].op \in PlayApi
  <2>1. PICK m \in Name : m = req[u].name
    BY <1>2, PlayerName
  <2>2. Named(m) \subseteq Named(m)'
    BY <1>2, <2>1, PlayerName, NamesHeld DEF PlayInv
  <2>3. /\ req'[u] \in {req[u], NoRequest}
        /\ {node'[u], snode'[u], inner'[u], isnode'[u]} \subseteq
             {node[u], snode[u], inner[u], isnode[u], None} \cup Named(m)
    <3>1. CASE u # t
      BY <3>1, <1>t, OthersStay
    <3>2. CASE u = t
      <4>1. Serve(t)
        BY <1>2, <3>2, <1>t DEF parser_parse_cmd, Control, Placed
      <4> QED
        BY <1>2, <2>1, <3>2, <4>1, PointersFound
    <3> QED
      BY <3>1, <3>2
  <2>4. req'[u] = req[u]
    BY <1>1, <2>3 DEF NoRequest
  <2>5. Aimed(u)
    BY DEF PlayInv
  <2>6. \A p \in {node[u], snode[u], inner[u], isnode[u]} : p # None => p \in Named(m)
    BY <1>2, <2>1, <2>5 DEF Aimed
  <2>7. \A p \in {node'[u], snode'[u], inner'[u], isnode'[u]} : p # None => p \in Named(m)'
    BY <2>2, <2>3, <2>6
  <2>8. Named(req[u].name)' = Named(m)'
    BY <2>1, <2>4 DEF Named
  <2> QED
    BY <2>7, <2>8
<1>3. CASE req[u].op \notin PlayApi
  <2>1. u = t
    BY <1>1, <1>3, <1>t, OthersStay
  <2>2. parser_parse_cmd(t)
    <3>1. SUFFICES ASSUME Serve(t) PROVE FALSE
      OBVIOUS
    <3>a. req \in [Thread -> Request \cup {NoRequest}]
      BY <1>t DEF TypeOK
    <3> HIDE <1>t
    <3>2. UNCHANGED req \/ req'[t] = NoRequest
      BY <3>1, <3>a DEF Serve, pipeline_creator_create, list_append_child, parser_create_read,
         parser_create_to_string, list_delete, pipeline_deleter_stop, list_delete_link,
         get_by_uri_pipeline, get_by_uri_state, state_update, lock_session, create_ref_lookup,
         create_ref_relookup, pipeline_increment_refcount, delete_ref_lookup, delete_ref_count,
         pipeline_decrement_refcount, unlock_session, play_ref_pipeline_node,
         play_ref_lookup_again, play_ref_state_node, lock_pipeline, play_ref_count,
         state_adjust_refcount, unlock_pipeline, play_ref_return, Return, Finish
    <3> QED
      BY <1>1, <1>3, <2>1, <3>2 DEF NoRequest
  <2>3. UNCHANGED ptrVars /\ pc[t] = "idle"
    BY <2>2 DEF parser_parse_cmd
  <2>4. node[t] = None /\ snode[t] = None /\ inner[t] = None /\ isnode[t] = None
    BY <2>3, <1>t DEF Control, Placed, Pointing
  <2> QED
    BY <2>1, <2>3, <2>4 DEF ptrVars
<1> QED
  BY <1>2, <1>3

-----------------------------------------------------------------------------
(* The play refcount. *)

\* Finitely many threads adjusted the play refcount and have yet to answer.
LEMMA AdjustedFinite ==
  ASSUME NEW n, NEW o
  PROVE  IsFiniteSet(Adjusted(n, o)) /\ Cardinality(Adjusted(n, o)) \in Nat
<1>1. IsFiniteSet(Adjusted(n, o))
  BY FS_Subset DEF Adjusted
<1> QED
  BY <1>1, FS_CardinalityType

\* A name nobody plays: no play refcount is being adjusted.
LEMMA UnplayedQuiet ==
  ASSUME NEW n \in Name, plays[n] \in Nat, ~Played(n)
  PROVE  /\ plays[n] = 0
         /\ Cardinality(Adjusted(n, "play_ref")) = 0
         /\ Cardinality(Adjusted(n, "stop_ref")) = 0
<1>1. plays[n] = 0 /\ Busy(n, PlayApi) = {}
  BY DEF Played
<1>2. Adjusted(n, "play_ref") = {} /\ Adjusted(n, "stop_ref") = {}
  BY <1>1 DEF Adjusted, Busy
<1> QED
  BY <1>1, <1>2, FS_EmptySet

\* The pipelines called n are one at most.
LEMMA OneNamed ==
  ASSUME IInv, NEW n, NEW p \in Named(n), NEW q \in Named(n)
  PROVE  p = q
BY DEF IInv, UniqueNames, Named

\* A stop that has not counted yet finds a play refcount to take back.
LEMMA StopPositive ==
  ASSUME IInv, PlayInv, NEW t \in Thread, req[t].op = "stop_ref", pc[t] # "punlock",
         NEW p \in Named(req[t].name)
  PROVE  srefs[p] >= 1
<1>1. PICK n \in Name : n = req[t].name
  BY PlayerName
<1> DEFINE S == Adjusted(n, "stop_ref")
           P == Adjusted(n, "play_ref")
           B == Busy(n, {"stop_ref"})
<1>2. Kept(n) /\ Counted(n)
  BY DEF PlayInv
<1>3. IsFiniteSet(S) /\ Cardinality(S) \in Nat /\ Cardinality(P) \in Nat
  BY AdjustedFinite
<1>4. IsFiniteSet(B) /\ Cardinality(B) \in Nat
  BY BusyFinite
<1>5. S \cup {t} \subseteq B /\ t \notin S
  BY <1>1 DEF Adjusted, Busy
<1>6. Cardinality(S \cup {t}) = Cardinality(S) + 1
  BY <1>3, <1>5, FS_AddElement
<1>7. Cardinality(S \cup {t}) <= Cardinality(B)
  BY <1>4, <1>5, FS_Subset
<1>8. plays[n] >= Cardinality(B) /\ plays[n] \in Nat
  BY <1>2 DEF Kept, IInv, TypeOK
<1>9. srefs[p] + Cardinality(S) = plays[n] + Cardinality(P)
  BY <1>1, <1>2 DEF Counted
<1>10. srefs[p] \in Nat
  BY DEF IInv, TypeOK, Named
<1> HIDE DEF S, P, B
<1> QED
  BY <1>3, <1>4, <1>6, <1>7, <1>8, <1>9, <1>10

\* A step that leaves t out of Adjusted, or in it, leaves the set alone.
LEMMA AdjustedSame ==
  ASSUME TypeOK, NEW t \in Thread, parser_parse_cmd(t) \/ Serve(t), NEW n, NEW o,
         (pc'[t] = "punlock" /\ rc'[t] = "EOK" /\ req'[t].op = o /\ req'[t].name = n)
           <=> (pc[t] = "punlock" /\ rc[t] = "EOK" /\ req[t].op = o /\ req[t].name = n)
  PROVE  Adjusted(n, o)' = Adjusted(n, o)
<1>1. \A u \in Thread \ {t} : pc'[u] = pc[u] /\ req'[u] = req[u] /\ rc'[u] = rc[u]
  BY OthersStay
<1> QED
  BY <1>1 DEF Adjusted

\* A thread adjusts the play refcount.
LEMMA AdjustedEnter ==
  ASSUME TypeOK, NEW t \in Thread, state_adjust_refcount(t), NEW n, NEW o
  PROVE  Cardinality(Adjusted(n, o)') =
           Cardinality(Adjusted(n, o)) + (IF req[t].op = o /\ req[t].name = n THEN 1 ELSE 0)
<1>1. pc[t] = "sadjust" /\ pc'[t] = "punlock" /\ rc'[t] = "EOK" /\ req' = req
  BY DEF state_adjust_refcount, Goto, TypeOK
<1>2. CASE req[t].op = o /\ req[t].name = n
  <2>1. \A u \in Thread \ {t} : pc'[u] = pc[u] /\ rc'[u] = rc[u]
    BY OthersStay DEF Serve
  <2>2. t \notin Adjusted(n, o) /\ Adjusted(n, o)' = Adjusted(n, o) \cup {t}
    BY <1>1, <1>2, <2>1 DEF Adjusted
  <2>3. Cardinality(Adjusted(n, o) \cup {t}) = Cardinality(Adjusted(n, o)) + 1
    BY <2>2, AdjustedFinite, FS_AddElement
  <2> QED
    BY <1>2, <2>2, <2>3
<1>3. CASE ~(req[t].op = o /\ req[t].name = n)
  <2>1. Adjusted(n, o)' = Adjusted(n, o)
    BY <1>1, <1>3, AdjustedSame DEF Serve
  <2> QED
    BY <1>3, <2>1, AdjustedFinite
<1> QED
  BY <1>2, <1>3

\* It answers.
LEMMA AdjustedLeave ==
  ASSUME TypeOK, NEW t \in Thread, play_ref_return(t), NEW n, NEW o \in PlayApi
  PROVE  Cardinality(Adjusted(n, o)') =
           Cardinality(Adjusted(n, o))
             - (IF rc[t] = "EOK" /\ req[t].op = o /\ req[t].name = n THEN 1 ELSE 0)
<1>1. pc[t] = "punlock" /\ pc'[t] = "idle"
  BY DEF play_ref_return, Finish, Goto, TypeOK
<1>2. CASE rc[t] = "EOK" /\ req[t].op = o /\ req[t].name = n
  <2>1. \A u \in Thread \ {t} : pc'[u] = pc[u] /\ rc'[u] = rc[u] /\ req'[u] = req[u]
    BY OthersStay DEF Serve
  <2>2. t \in Adjusted(n, o) /\ Adjusted(n, o)' = Adjusted(n, o) \ {t}
    BY <1>1, <1>2, <2>1 DEF Adjusted
  <2>3. Cardinality(Adjusted(n, o) \ {t}) = Cardinality(Adjusted(n, o)) - 1
    BY <2>2, AdjustedFinite, FS_RemoveElement
  <2> QED
    BY <1>2, <2>2, <2>3
<1>3. CASE ~(rc[t] = "EOK" /\ req[t].op = o /\ req[t].name = n)
  <2>1. Adjusted(n, o)' = Adjusted(n, o)
    BY <1>1, <1>3, AdjustedSame DEF Serve
  <2> QED
    BY <1>3, <2>1, AdjustedFinite
<1> QED
  BY <1>2, <1>3

\* No other step changes who adjusted.
LEMMA AdjustedStays ==
  ASSUME ~Faults, IInv, NEW t \in Thread, parser_parse_cmd(t) \/ Serve(t),
         ~state_adjust_refcount(t), ~play_ref_return(t), NEW n, NEW o \in PlayApi
  PROVE  Adjusted(n, o)' = Adjusted(n, o) /\ plays' = plays
<1>t. TypeOK /\ Placed(t)
  BY DEF IInv, Control
<1> SUFFICES /\ plays' = plays
             /\ \/ pc'[t] = pc[t] /\ rc'[t] = rc[t] /\ req'[t] = req[t]
                \/ /\ pc[t] # "punlock"
                   /\ pc'[t] # "punlock" \/ rc'[t] # "EOK" \/ req'[t].op \notin PlayApi
  BY <1>t, AdjustedSame
<1>c. /\ pc \in [Thread -> Labels] /\ rc \in [Thread -> Codes]
      /\ req \in [Thread -> Request \cup {NoRequest}]
  BY <1>t DEF TypeOK
<1> USE <1>c DEF Goto, Return, Finish, ReturnTo, NoRequest, clientVars
<1>1. CASE parser_parse_cmd(t)
  BY <1>1 DEF parser_parse_cmd, FirstLabel, Request
<1>2. CASE pipeline_creator_create(t)
  BY <1>2, <1>t DEF pipeline_creator_create, Placed
<1>3. CASE list_append_child(t)
  BY <1>3, <1>t DEF list_append_child, Placed
<1>4. CASE parser_create_read(t)
  BY <1>4, <1>t DEF parser_create_read, Placed
<1>5. CASE parser_create_to_string(t)
  BY <1>5, <1>t DEF parser_create_to_string, Placed
<1>6. CASE list_delete(t)
  BY <1>6, <1>t DEF list_delete, Placed
<1>7. CASE pipeline_deleter_stop(t)
  BY <1>7, <1>t DEF pipeline_deleter_stop, Placed, set_state
<1>8. CASE list_delete_link(t)
  BY <1>8, <1>t DEF list_delete_link, Placed
<1>9. CASE get_by_uri_pipeline(t)
  BY <1>9, <1>t DEF get_by_uri_pipeline, Placed
<1>10. CASE get_by_uri_state(t)
  BY <1>10 DEF get_by_uri_state
<1>11. CASE state_update(t)
  BY <1>11, <1>t DEF state_update, Placed, set_state
<1>12. CASE lock_session(t)
  BY <1>12 DEF lock_session
<1>13. CASE create_ref_lookup(t)
  BY <1>13 DEF create_ref_lookup
<1>14. CASE create_ref_relookup(t)
  BY <1>14 DEF create_ref_relookup
<1>15. CASE pipeline_increment_refcount(t)
  BY <1>15 DEF pipeline_increment_refcount
<1>16. CASE delete_ref_lookup(t)
  BY <1>16 DEF delete_ref_lookup
<1>17. CASE delete_ref_count(t)
  BY <1>17 DEF delete_ref_count
<1>18. CASE pipeline_decrement_refcount(t)
  BY <1>18 DEF pipeline_decrement_refcount
<1>19. CASE unlock_session(t)
  BY <1>19 DEF unlock_session
<1>20. CASE play_ref_pipeline_node(t)
  BY <1>20 DEF play_ref_pipeline_node
<1>21. CASE play_ref_lookup_again(t)
  BY <1>21 DEF play_ref_lookup_again
<1>22. CASE play_ref_state_node(t)
  BY <1>22 DEF play_ref_state_node
<1>23. CASE lock_pipeline(t)
  BY <1>23 DEF lock_pipeline
<1>24. CASE play_ref_count(t)
  BY <1>24 DEF play_ref_count
<1>26. CASE unlock_pipeline(t)
  BY <1>26 DEF unlock_pipeline
<1> QED
  BY <1>1, <1>2, <1>3, <1>4, <1>5, <1>6, <1>7, <1>8, <1>9,
     <1>10, <1>11, <1>12, <1>13, <1>14, <1>15, <1>16, <1>17, <1>18,
     <1>19, <1>20, <1>21, <1>22, <1>23, <1>24, <1>26 DEF Serve

\* A thread's label tells which step it takes.
LEMMA StepAt ==
  ASSUME NEW t \in Thread, parser_parse_cmd(t) \/ Serve(t)
  PROVE  /\ pc[t] = "append" => list_append_child(t)
         /\ pc[t] = "stop" => pipeline_deleter_stop(t)
         /\ pc[t] = "find" => get_by_uri_pipeline(t)
         /\ pc[t] = "state" => get_by_uri_state(t)
         /\ pc[t] = "update" => state_update(t)
         /\ pc[t] = "scount" => play_ref_count(t)
         /\ pc[t] = "sadjust" => state_adjust_refcount(t)
BY DEF Serve, parser_parse_cmd, pipeline_creator_create, list_append_child,
   parser_create_read, parser_create_to_string, list_delete, pipeline_deleter_stop,
   list_delete_link, get_by_uri_pipeline, get_by_uri_state, state_update, lock_session,
   create_ref_lookup, create_ref_relookup, pipeline_increment_refcount, delete_ref_lookup,
   delete_ref_count, pipeline_decrement_refcount, unlock_session, play_ref_pipeline_node,
   play_ref_lookup_again, play_ref_state_node, lock_pipeline, play_ref_count,
   state_adjust_refcount, unlock_pipeline, play_ref_return

\* Every step keeps the play refcount at the number of play references.
LEMMA CountedStep ==
  ASSUME ByContract, IInv, IInv', RefInv, PlayInv, NEW t \in Thread,
         parser_parse_cmd(t) \/ Serve(t), NEW n \in Name
  PROVE  Counted(n)'
<1> DEFINE S == Cardinality(Adjusted(n, "stop_ref"))
           P == Cardinality(Adjusted(n, "play_ref"))
<1>t. TypeOK /\ TypeOK' /\ Control /\ UniqueNames
  BY DEF IInv
<1>c. RefsOnly /\ ~Faults
  BY DEF ByContract
<1>i. S \in Nat /\ P \in Nat /\ plays[n] \in Nat
  BY <1>t, AdjustedFinite DEF TypeOK
<1>k. \A p \in Named(n) : srefs[p] + S = plays[n] + P
  BY DEF PlayInv, Counted
<1> SUFFICES ASSUME NEW p \in Named(n)' PROVE srefs'[p] + S' = plays'[n] + P'
  BY DEF Counted
<1>p. p \in Pipe /\ srefs'[p] \in Nat
  BY <1>t DEF Named, TypeOK
<1>1. CASE p \notin Named(n)
  <2>1. list_append_child(t) /\ ~NameTaken(n) /\ n = req[t].name /\ p = inner[t]
    BY <1>1, NamedStep
  <2>2. pc[t] = "append" /\ req[t].op = "create_ref"
    BY <2>1, <1>t, <1>c, RefsOnlyOps DEF list_append_child, Control, Placed
  <2>3. session = t
    BY <2>2, <1>t DEF Control, Locking
  <2>4. ledger[n] = 0
    BY <2>1, <2>2, <2>3 DEF RefInv, Stage
  <2>5. ~Played(n)
    BY <2>4, BusyFinite DEF PlayInv, Kept
  <2>6. plays[n] = 0 /\ S = 0 /\ P = 0
    BY <2>5, <1>i, UnplayedQuiet
  <2>7. ~state_adjust_refcount(t) /\ ~play_ref_return(t)
    BY <2>2 DEF state_adjust_refcount, play_ref_return
  <2>8. S' = S /\ P' = P /\ plays' = plays
    BY <2>7, <1>c, AdjustedStays
  <2>9. srefs'[p] = 0
    BY <2>1, <2>2 DEF list_append_child, PlayInv, Fresh
  <2> QED
    BY <2>6, <2>8, <2>9
<1>2. CASE p \in Named(n)
  <2>s. Steered(t, p)
    BY <1>2 DEF Steered, Named
  <2>k. srefs[p] + S = plays[n] + P /\ srefs[p] \in Nat
    BY <1>2, <1>k, <1>t DEF TypeOK, Named
  <2>1. CASE state_adjust_refcount(t)
    <3>1. pc[t] = "sadjust" /\ req[t].op \in PlayApi /\ plays' = plays
      BY <2>1, <1>t DEF state_adjust_refcount, clientVars, Control, Placed
    <3>2. PICK q \in Pipe : q = snode[t] /\ q \in Named(req[t].name)
      BY <3>1, <1>t DEF TypeOK, Control, Pointing, PlayInv, Aimed
    <3>3. S' = S + (IF req[t].op = "stop_ref" /\ req[t].name = n THEN 1 ELSE 0)
      BY <2>1, <1>t, AdjustedEnter
    <3>4. P' = P + (IF req[t].op = "play_ref" /\ req[t].name = n THEN 1 ELSE 0)
      BY <2>1, <1>t, AdjustedEnter
    <3>5. srefs' = [srefs EXCEPT ![q] = CASE req[t].op = "play_ref" -> @ + 1
                                          [] req[t].op = "stop_ref" -> Decrement(@)]
      BY <2>1, <3>2 DEF state_adjust_refcount
    <3>6. CASE req[t].name # n
      <4>1. q # p
        BY <1>2, <3>2, <3>6 DEF Named
      <4>2. srefs'[p] = srefs[p]
        BY <3>5, <4>1, <1>t DEF TypeOK
      <4>3. S' = S /\ P' = P
        BY <3>3, <3>4, <3>6, <1>i
      <4> QED
        BY <2>k, <3>1, <4>2, <4>3
    <3>7. CASE req[t].name = n /\ req[t].op = "play_ref"
      <4>1. q = p
        BY <1>2, <3>2, <3>7, OneNamed
      <4>2. srefs'[p] = srefs[p] + 1
        BY <3>5, <3>7, <4>1, <1>t DEF TypeOK
      <4>3. S' = S /\ P' = P + 1
        BY <3>3, <3>4, <3>7, <1>i
      <4> QED
        BY <2>k, <3>1, <4>2, <4>3, <1>i
    <3>8. CASE req[t].name = n /\ req[t].op = "stop_ref"
      <4>1. q = p
        BY <1>2, <3>2, <3>8, OneNamed
      <4>2. srefs[p] >= 1
        BY <1>2, <3>1, <3>8, StopPositive
      <4>3. srefs'[p] = srefs[p] - 1
        BY <2>k, <3>5, <3>8, <4>1, <4>2, <1>t DEF TypeOK, Decrement
      <4>4. S' = S + 1 /\ P' = P
        BY <3>3, <3>4, <3>8, <1>i
      <4> QED
        BY <2>k, <3>1, <4>3, <4>4, <1>i
    <3> QED
      BY <3>1, <3>6, <3>7, <3>8
  <2>2. CASE play_ref_return(t)
    <3>1. /\ pc[t] = "punlock" /\ req[t].op \in PlayApi
          /\ plays' = [plays EXCEPT ![req[t].name] = Tally(t, "play_ref", @)]
      BY <2>2, <1>t DEF play_ref_return, Control, Placed
    <3>2. S' = S - (IF rc[t] = "EOK" /\ req[t].op = "stop_ref" /\ req[t].name = n THEN 1 ELSE 0)
      BY <2>2, <1>t, AdjustedLeave
    <3>3. P' = P - (IF rc[t] = "EOK" /\ req[t].op = "play_ref" /\ req[t].name = n THEN 1 ELSE 0)
      BY <2>2, <1>t, AdjustedLeave
    <3>4. srefs'[p] = srefs[p]
      BY <2>2 DEF play_ref_return
    <3>5. CASE req[t].name # n
      <4>1. plays'[n] = plays[n]
        BY <3>1, <3>5, <1>t DEF TypeOK
      <4>2. S' = S /\ P' = P
        BY <3>2, <3>3, <3>5, <1>i
      <4> QED
        BY <2>k, <3>4, <4>1, <4>2
    <3>6. CASE req[t].name = n
      <4>1. plays'[n] = Tally(t, "play_ref", plays[n])
        BY <3>1, <3>6, <1>t DEF TypeOK
      <4>2. CASE rc[t] # "EOK"
        <5>1. plays'[n] = plays[n] /\ S' = S /\ P' = P
          BY <3>2, <3>3, <4>1, <4>2, <1>i DEF Tally
        <5> QED
          BY <2>k, <3>4, <5>1
      <4>3. CASE rc[t] = "EOK" /\ req[t].op = "play_ref"
        <5>1. plays'[n] = plays[n] + 1 /\ S' = S /\ P' = P - 1
          BY <3>2, <3>3, <3>6, <4>1, <4>3, <1>i DEF Tally
        <5> QED
          BY <2>k, <3>4, <5>1, <1>i
      <4>4. CASE rc[t] = "EOK" /\ req[t].op = "stop_ref"
        <5>1. Cardinality(Busy(n, {"stop_ref"})) >= 1 /\ Cardinality(Busy(n, {"stop_ref"})) \in Nat
          BY <3>6, <4>4, BusyCounts, BusyFinite
        <5>2. plays[n] >= 1
          BY <5>1, <1>i DEF PlayInv, Kept
        <5>3. plays'[n] = plays[n] - 1 /\ S' = S - 1 /\ P' = P
          BY <3>2, <3>3, <3>6, <4>1, <4>4, <5>2, <1>i DEF Tally
        <5> QED
          BY <2>k, <3>4, <5>3, <1>i
      <4> QED
        BY <3>1, <4>2, <4>3, <4>4
    <3> QED
      BY <3>5, <3>6
  <2>3. CASE ~state_adjust_refcount(t) /\ ~play_ref_return(t)
    <3>1. S' = S /\ P' = P /\ plays' = plays
      BY <2>3, <1>c, AdjustedStays
    <3>2. srefs'[p] = srefs[p]
      <4>1. CASE pc[t] # "sadjust"
        BY <2>s, <4>1, <1>p, ObjectStep
      <4>2. CASE pc[t] = "sadjust"
        BY <2>3, <4>2, StepAt
      <4> QED
        BY <4>1, <4>2
    <3> QED
      BY <2>k, <3>1, <3>2
  <2> QED
    BY <2>1, <2>2, <2>3
<1> QED
  BY <1>1, <1>2

-----------------------------------------------------------------------------
(* The pipeline lock and the element. *)

\* Who changes a pipeline in use, and how it got at it.
LEMMA ChangedBy ==
  ASSUME IInv, NEW t \in Thread, parser_parse_cmd(t) \/ Serve(t), NEW p \in Pipe, Steered(t, p)
  PROVE  /\ \/ elem'[p] = elem[p]
            \/ pc[t] = "update" /\ isnode[t] = p
            \/ pc[t] = "stop" /\ found[t] = p
         /\ srefs'[p] = srefs[p] \/ (pc[t] = "sadjust" /\ snode[t] = p)
<1>t. elem \in [Pipe -> States] /\ srefs \in [Pipe -> Nat]
  BY DEF IInv, TypeOK
<1>o. /\ pc[t] \notin {"update", "stop"} => elem'[p] = elem[p]
      /\ pc[t] # "sadjust" => srefs'[p] = srefs[p]
  BY ObjectStep, Zenon
<1>1. pc[t] = "update" => (isnode[t] # p => elem'[p] = elem[p])
  BY StepAt, <1>t DEF state_update
<1>2. pc[t] = "stop" => (found[t] # p => elem'[p] = elem[p])
  BY StepAt, <1>t DEF pipeline_deleter_stop
<1>3. pc[t] = "sadjust" => (snode[t] # p => srefs'[p] = srefs[p])
  BY StepAt, <1>t DEF state_adjust_refcount
<1> QED
  BY <1>o, <1>1, <1>2, <1>3

\* A thread inside play_ref or stop_ref has one pipeline in its hands.
LEMMA OnePipeline ==
  ASSUME IInv, PlayInv, NEW t \in Thread, req[t].op \in PlayApi, snode[t] # None
  PROVE  /\ snode[t] \in Named(req[t].name) /\ snode[t] \in list /\ snode[t] \in Pipe
         /\ node[t] = snode[t] /\ isnode[t] \in {None, snode[t]}
<1>1. Aimed(t) /\ Pointing(t) /\ TypeOK
  BY DEF PlayInv, IInv, Control
<1>2. node[t] # None
  BY <1>1 DEF Pointing
<1>3. snode[t] \in Named(req[t].name) /\ node[t] \in Named(req[t].name)
  BY <1>1, <1>2 DEF Aimed
<1>4. isnode[t] # None => isnode[t] \in Named(req[t].name)
  BY <1>1 DEF Aimed
<1>5. node[t] = snode[t] /\ isnode[t] \in {None, snode[t]}
  BY <1>3, <1>4, OneNamed
<1> QED
  BY <1>1, <1>3, <1>5 DEF Named, TypeOK

\* The pipeline lock lets one thread in.
LEMMA OneInside ==
  ASSUME IInv, PlayInv, NEW t \in Thread, NEW u \in Thread,
         req[t].op \in PlayApi, req[u].op \in PlayApi, pc[t] # "plock", pc[u] # "plock",
         snode[t] # None, snode[u] = snode[t]
  PROVE  t = u
<1>1. node[t] = snode[t] /\ node[u] = snode[t] /\ snode[t] \in Pipe
  BY OnePipeline
<1>2. pipeLock[snode[t]] = t /\ pipeLock[snode[t]] = u
  BY <1>1 DEF IInv, Control, Locking
<1> QED
  BY <1>2

\* What a deletion stops is not played.
LEMMA DeletedUnplayed ==
  ASSUME RefsOnly, IInv, RefInv, PlayInv, NEW t \in Thread, pc[t] \in DeleteLabels
  PROVE  ~Played(req[t].name)
<1>1. req[t].name \in Name
  BY DeleterAimed
<1> QED
  BY <1>1, PlayedListed DEF PlayInv

\* Every step keeps the pipelines on their way into the list stopped.
LEMMA FreshStep ==
  ASSUME RefsOnly, IInv, RefInv, PlayInv, NEW t \in Thread, parser_parse_cmd(t) \/ Serve(t),
         NEW u \in Thread
  PROVE  Fresh(u)'
<1>t. TypeOK /\ Control /\ Exclusive /\ FoundListed
  BY DEF IInv
<1> SUFFICES ASSUME pc'[u] = "append" PROVE srefs'[inner'[u]] = 0 /\ elem'[inner'[u]] = "NULL"
  BY DEF Fresh
<1>1. CASE u # t
  <2>1. pc[u] = "append" /\ inner'[u] = inner[u]
    BY <1>1, <1>t, OthersStay
  <2>2. PICK p \in Pipe : p = inner[u]
    BY <2>1, <1>t DEF TypeOK, Control, Pointing
  <2>3. Steered(t, p)
    BY <1>1, <2>1, <2>2 DEF Steered
  <2>4. srefs[p] = 0 /\ elem[p] = "NULL" /\ p \notin list
    BY <2>1, <2>2, <1>t DEF PlayInv, Fresh, Exclusive
  <2>5. ~(pc[t] = "update" /\ isnode[t] = p)
    <3>1. SUFFICES ASSUME pc[t] = "update" PROVE isnode[t] \in list
      BY <2>4
    <3>2. req[t].op \in PlayApi /\ isnode[t] # None
      BY <3>1, <1>t, RefsOnlyOps DEF Control, Placed, Pointing
    <3> QED
      BY <3>2 DEF PlayInv, Aimed, Named
  <2>6. ~(pc[t] = "stop" /\ found[t] = p)
    BY <2>4, <1>t DEF FoundListed
  <2>7. ~(pc[t] = "sadjust" /\ snode[t] = p)
    <3>1. SUFFICES ASSUME pc[t] = "sadjust" PROVE snode[t] \in list
      BY <2>4
    <3>2. req[t].op \in PlayApi /\ snode[t] # None
      BY <3>1, <1>t DEF Control, Placed, Pointing
    <3> QED
      BY <3>2, OnePipeline
  <2>8. srefs'[p] = srefs[p] /\ elem'[p] = elem[p]
    BY <2>3, <2>5, <2>6, <2>7, ChangedBy
  <2> QED
    BY <2>1, <2>2, <2>4, <2>8
<1>2. CASE u = t
  <2>1. pipeline_creator_create(t)
    BY <1>2, <1>t DEF Serve, parser_parse_cmd, list_append_child,
       parser_create_read, parser_create_to_string, list_delete, pipeline_deleter_stop,
       list_delete_link, get_by_uri_pipeline, get_by_uri_state, state_update, lock_session,
       create_ref_lookup, create_ref_relookup, pipeline_increment_refcount, delete_ref_lookup,
       delete_ref_count, pipeline_decrement_refcount, unlock_session, play_ref_pipeline_node,
       play_ref_lookup_again, play_ref_state_node, lock_pipeline, play_ref_count,
       state_adjust_refcount, unlock_pipeline, play_ref_return, Goto, Return, Finish, ReturnTo,
       FirstLabel, Request, TypeOK, Control, Placed
  <2>2. pc'[t] = "append" /\ pc[t] = "create" /\ req[t].op \in CreateOps
    BY <1>2, <2>1, <1>t DEF pipeline_creator_create, Control, Placed
  <2>3. ~Return(t, "BAD_DESCRIPTION")
    BY <2>2, <1>t DEF Return, Finish, Goto, ReturnTo, TypeOK
  <2>4. PICK p \in Free : /\ srefs' = [srefs EXCEPT ![p] = 0] /\ elem' = [elem EXCEPT ![p] = "NULL"]
                          /\ inner' = [inner EXCEPT ![t] = p]
    BY <2>1, <2>3 DEF pipeline_creator_create
  <2> QED
    BY <1>2, <2>4, <1>t DEF Free, TypeOK
<1> QED
  BY <1>1, <1>2

\* Every step keeps the holder of a pipeline lock where Midway says.
LEMMA MidwayStep ==
  ASSUME ByContract, IInv, RefInv, PlayInv, NEW t \in Thread, parser_parse_cmd(t) \/ Serve(t),
         NEW u \in Thread
  PROVE  Midway(u)'
<1>t. TypeOK /\ Control /\ UniqueNames
  BY DEF IInv
<1>c. RefsOnly /\ ~Faults
  BY DEF ByContract
<1> SUFFICES ASSUME req'[u].op \in PlayApi, pc'[u] \in UpdateLabels \cup {"sadjust"}
             PROVE  Midway(u)'
  BY DEF Midway
<1>1. CASE u # t
  <2>1. /\ pc'[u] = pc[u] /\ req'[u] = req[u] /\ snode'[u] = snode[u]
    BY <1>1, <1>t, OthersStay
  <2>2. req[u].op \in PlayApi /\ pc[u] \in UpdateLabels \cup {"sadjust"}
    BY <2>1
  <2>3. snode[u] # None
    BY <2>2, <1>t DEF Control, Pointing
  <2>4. PICK p \in Pipe : p = snode[u] /\ p \in Named(req[u].name) /\ p \in list
    BY <2>2, <2>3, OnePipeline
  <2>5. PICK m \in Name : m = req[u].name /\ Played(m)
    BY <2>2, PlayerName
  <2>6. p \in Named(m)'
    BY <2>4, <2>5, <1>c, NamesHeld DEF PlayInv
  <2>7. Steered(t, p)
    BY <2>4, <2>6 DEF Steered, Named
  <2>8. ~(pc[t] = "update" /\ isnode[t] = p)
    <3>1. SUFFICES ASSUME pc[t] = "update", isnode[t] = p PROVE FALSE
      OBVIOUS
    <3>2. req[t].op \in PlayApi /\ snode[t] # None
      BY <3>1, <1>t, <1>c, RefsOnlyOps DEF Control, Placed, Pointing
    <3>3. isnode[t] = snode[t]
      BY <3>1, <3>2, <2>4, OnePipeline
    <3> QED
      BY <1>1, <2>2, <2>4, <3>1, <3>2, <3>3, OneInside
  <2>9. ~(pc[t] = "stop" /\ found[t] = p)
    <3>1. SUFFICES ASSUME pc[t] = "stop", found[t] = p PROVE FALSE
      OBVIOUS
    <3>2. found[t] \in Named(req[t].name) /\ ~Played(req[t].name)
      BY <3>1, <1>c, DeleterAimed, DeletedUnplayed
    <3> QED
      BY <2>4, <2>5, <3>1, <3>2 DEF Named
  <2>10. ~(pc[t] = "sadjust" /\ snode[t] = p)
    <3>1. SUFFICES ASSUME pc[t] = "sadjust", snode[t] = p PROVE FALSE
      OBVIOUS
    <3>2. req[t].op \in PlayApi
      BY <3>1, <1>t DEF Control, Placed
    <3> QED
      BY <1>1, <2>2, <2>3, <2>4, <3>1, <3>2, OneInside
  <2>11. srefs'[p] = srefs[p] /\ elem'[p] = elem[p]
    BY <2>7, <2>8, <2>9, <2>10, ChangedBy
  <2>12. Midway(u)
    BY DEF PlayInv
  <2> QED
    BY <2>1, <2>2, <2>4, <2>11, <2>12 DEF Midway
<1>2. CASE u = t
  <2>1. /\ pc[t] \in {"scount", "find", "state", "update"} /\ req[t].op \in PlayApi
        /\ req'[t] = req[t] /\ snode'[t] = snode[t]
    <3>1. pc[t] \in {"scount", "find", "state", "update"}
      BY <1>2, <1>t DEF Serve, parser_parse_cmd, pipeline_creator_create, list_append_child,
         parser_create_read, parser_create_to_string, list_delete, pipeline_deleter_stop,
         list_delete_link, get_by_uri_pipeline, get_by_uri_state, state_update, lock_session,
         create_ref_lookup, create_ref_relookup, pipeline_increment_refcount, delete_ref_lookup,
         delete_ref_count, pipeline_decrement_refcount, unlock_session, play_ref_pipeline_node,
         play_ref_lookup_again, play_ref_state_node, lock_pipeline, play_ref_count,
         state_adjust_refcount, unlock_pipeline, play_ref_return, Goto, Return, Finish, ReturnTo,
         FirstLabel, Request, TypeOK, Control, Placed
    <3>2. req[t].op \in PlayApi
      BY <3>1, <1>t, <1>c, RefsOnlyOps DEF Control, Placed
    <3>3. req'[t] = req[t] /\ snode'[t] = snode[t]
      BY <3>1, <3>2, StepAt DEF play_ref_count, get_by_uri_pipeline, get_by_uri_state, state_update,
         Return, ptrVars
    <3> QED
      BY <3>1, <3>2, <3>3
  <2>2. snode[t] # None
    BY <2>1, <1>t DEF Control, Pointing
  <2>3. PICK p \in Pipe : p = snode[t] /\ p \in Named(req[t].name) /\ p \in list /\ node[t] = p
    BY <2>1, <2>2, OnePipeline
  <2>4. PICK m \in Name : m = req[t].name /\ Played(m)
    BY <2>1, PlayerName
  <2>5. p \in Named(m)'
    BY <2>3, <2>4, <1>c, NamesHeld DEF PlayInv
  <2>6. Steered(t, p)
    BY <2>3, <2>5 DEF Steered, Named
  <2>7. srefs'[p] = srefs[p]
    BY <2>1, <2>6, ChangedBy
  <2>8. Midway(t)
    BY DEF PlayInv
  <2> DEFINE first == IF req[t].op = "play_ref" THEN 0 ELSE 1
  <2>9. CASE pc[t] = "scount"
    <3>1. pc'[t] = IF srefs[p] = first THEN "find" ELSE "sadjust"
      BY <2>3, <2>9, <1>t, StepAt DEF play_ref_count, Goto, TypeOK
    <3>2. elem'[p] = elem[p]
      BY <2>6, <2>9, ChangedBy
    <3>3. srefs[p] # first => elem[p] = "PLAYING" /\ (req[t].op = "play_ref" \/ srefs[p] > 1)
      <4>1. SUFFICES ASSUME srefs[p] # first
                     PROVE  elem[p] = "PLAYING" /\ (req[t].op = "play_ref" \/ srefs[p] > 1)
        OBVIOUS
      <4>2. req[t].op = "stop_ref" => srefs[p] >= 1
        BY <2>3, <2>9, StopPositive
      <4>3. srefs[p] \in Nat
        BY <1>t DEF TypeOK
      <4>4. srefs[p] > 0 /\ (req[t].op = "play_ref" \/ srefs[p] > 1)
        BY <2>1, <4>1, <4>2, <4>3
      <4>5. ~\E v \in Thread : pc[v] = "sadjust" /\ node[v] = p
        <5>1. SUFFICES ASSUME NEW v \in Thread, pc[v] = "sadjust", node[v] = p PROVE FALSE
          OBVIOUS
        <5>2. req[v].op \in PlayApi /\ snode[v] # None
          BY <5>1, <1>t DEF Control, Placed, Pointing
        <5>3. snode[v] = p
          BY <5>1, <5>2, OnePipeline
        <5>4. v = t
          BY <2>1, <2>2, <2>3, <2>9, <5>1, <5>2, <5>3, OneInside
        <5> QED
          BY <2>9, <5>1, <5>4
      <4>6. Steady(p)
        BY <2>3 DEF PlayInv
      <4> QED
        BY <4>4, <4>5, <4>6 DEF Steady
    <3> QED
      BY <1>2, <2>1, <2>3, <2>7, <3>1, <3>2, <3>3 DEF Midway
  <2>10. CASE pc[t] \in {"find", "state"}
    <3>1. srefs[p] = first
      BY <2>1, <2>3, <2>8, <2>10 DEF Midway
    <3>2. pc'[t] # "sadjust"
      BY <2>1, <2>10, <1>t, StepAt DEF get_by_uri_pipeline, get_by_uri_state, Goto, Return, Finish,
         ReturnTo, TypeOK
    <3> QED
      BY <1>2, <2>1, <2>3, <2>7, <3>1, <3>2 DEF Midway
  <2>11. CASE pc[t] = "update"
    <3>1. srefs[p] = first
      BY <2>1, <2>3, <2>8, <2>11 DEF Midway
    <3>2. isnode[t] = p
      BY <2>1, <2>2, <2>3, <2>11, <1>t, OnePipeline DEF Control, Pointing
    <3>3. elem' = [elem EXCEPT ![p] = Target(t)]
      BY <2>11, <3>2, <1>c, StepAt DEF state_update, set_state
    <3>4. elem'[p] = IF req[t].op = "play_ref" THEN "PLAYING" ELSE "NULL"
      BY <2>1, <3>3, <1>t DEF Target, TypeOK
    <3>5. pc'[t] = "sadjust"
      BY <2>1, <2>11, <1>t, <1>c, StepAt DEF state_update, set_state, Return, Finish, ReturnTo, Goto,
         TypeOK
    <3> QED
      BY <1>2, <2>1, <2>3, <2>7, <3>1, <3>4, <3>5 DEF Midway
  <2> QED
    BY <2>1, <2>9, <2>10, <2>11
<1> QED
  BY <1>1, <1>2

\* Every step keeps the listed pipelines steady.
LEMMA SteadyStep ==
  ASSUME ByContract, IInv, RefInv, PlayInv, NEW t \in Thread, parser_parse_cmd(t) \/ Serve(t),
         NEW p \in list'
  PROVE  name'[p] \in Name /\ Steady(p)'
<1>t. TypeOK /\ Control /\ CreatedName /\ FoundListed
  BY DEF IInv
<1>c. RefsOnly /\ ~Faults
  BY DEF ByContract
<1>1. CASE p \notin list
  <2>1. list_append_child(t) /\ ~NameTaken(req[t].name) /\ p = inner[t]
    <3>1. PICK m : m = name'[p]
      OBVIOUS
    <3>2. p \in Named(m)' /\ p \notin Named(m)
      BY <1>1, <3>1 DEF Named
    <3> QED
      BY <3>2, NamedStep
  <2>2. pc[t] = "append" /\ UNCHANGED <<name, srefs, elem>>
    BY <2>1 DEF list_append_child
  <2>3. srefs[p] = 0 /\ elem[p] = "NULL"
    BY <2>1, <2>2 DEF PlayInv, Fresh
  <2>4. name[p] = req[t].name /\ req[t].name \in Name
    BY <2>1, <2>2, <1>t, RequestName DEF CreatedName, Control, Placed
  <2> QED
    BY <2>2, <2>3, <2>4 DEF Steady
<1>2. CASE p \in list
  <2>1. p \in Pipe /\ Steered(t, p)
    BY <1>2, <1>t DEF Steered, TypeOK
  <2>2. name'[p] = name[p] /\ name[p] \in Name
    BY <1>2, <2>1, ObjectStep DEF PlayInv
  <2>3. Steady(p)
    BY <1>2 DEF PlayInv
  <2>4. CASE \E u \in Thread \ {t} : pc[u] = "sadjust" /\ node[u] = p
    BY <2>2, <2>4, <1>t, OthersStay DEF Steady
  <2>5. CASE pc[t] = "sadjust" /\ node[t] = p
    <3>1. req[t].op \in PlayApi /\ snode[t] # None
      BY <2>5, <1>t DEF Control, Placed, Pointing
    <3>2. snode[t] = p /\ p \in Named(req[t].name)
      BY <2>5, <3>1, OnePipeline
    <3>3. elem[p] = IF req[t].op = "play_ref" \/ srefs[p] > 1 THEN "PLAYING" ELSE "NULL"
      BY <2>5, <3>1, <3>2 DEF PlayInv, Midway
    <3>4. elem'[p] = elem[p] /\ srefs[p] \in Nat
      BY <2>1, <2>5, <1>t, ChangedBy DEF TypeOK
    <3>5. srefs'[p] = IF req[t].op = "play_ref" THEN srefs[p] + 1 ELSE Decrement(srefs[p])
      BY <2>1, <2>5, <3>1, <3>2, <1>t, StepAt DEF state_adjust_refcount, TypeOK
    <3>6. req[t].op = "stop_ref" => srefs[p] >= 1
      BY <2>5, <3>2, StopPositive
    <3>7. srefs'[p] > 0 <=> elem'[p] = "PLAYING"
      BY <3>1, <3>3, <3>4, <3>5, <3>6 DEF Decrement
    <3> QED
      BY <2>2, <3>7 DEF Steady
  <2>6. CASE ~\E u \in Thread : pc[u] = "sadjust" /\ node[u] = p
    <3>1. srefs[p] > 0 <=> elem[p] = "PLAYING"
      BY <2>3, <2>6 DEF Steady
    <3>2. srefs'[p] = srefs[p]
      <4>1. ~(pc[t] = "sadjust" /\ snode[t] = p)
        <5>1. SUFFICES ASSUME pc[t] = "sadjust", snode[t] = p PROVE node[t] = p
          BY <2>6
        <5>2. req[t].op \in PlayApi /\ snode[t] # None
          BY <5>1, <1>t DEF Control, Placed, Pointing
        <5> QED
          BY <5>1, <5>2, OnePipeline
      <4> QED
        BY <2>1, <4>1, ChangedBy
    <3>3. CASE elem'[p] = elem[p]
      BY <2>2, <3>1, <3>2, <3>3 DEF Steady
    <3>4. CASE pc[t] = "update" /\ isnode[t] = p
      <4>1. req[t].op \in PlayApi /\ snode[t] # None
        BY <3>4, <1>t, <1>c, RefsOnlyOps DEF Control, Placed, Pointing
      <4>2. node[t] = p
        BY <2>1, <3>4, <4>1, OnePipeline
      <4>3. pc'[t] = "sadjust" /\ node'[t] = node[t]
        BY <3>4, <4>1, <1>t, <1>c, StepAt DEF state_update, set_state, Return, Finish, ReturnTo,
           Goto, TypeOK
      <4> QED
        BY <2>2, <4>2, <4>3 DEF Steady
    <3>5. CASE pc[t] = "stop" /\ found[t] = p
      <4>1. PICK n \in Name : n = req[t].name /\ p \in Named(n) /\ ~Played(n)
        BY <3>5, <1>c, DeleterAimed, DeletedUnplayed
      <4>2. /\ plays[n] = 0 /\ Cardinality(Adjusted(n, "play_ref")) = 0
            /\ Cardinality(Adjusted(n, "stop_ref")) = 0
        BY <4>1, <1>t, UnplayedQuiet DEF TypeOK
      <4>3. srefs[p] = 0
        <5>1. srefs[p] + 0 = 0 + 0
          BY <4>1, <4>2 DEF PlayInv, Counted
        <5> QED
          BY <2>1, <5>1, <1>t DEF TypeOK
      <4>4. elem'[p] = "NULL"
        BY <2>1, <3>5, <1>t, <1>c, StepAt DEF pipeline_deleter_stop, set_state, TypeOK
      <4> QED
        BY <2>2, <3>2, <4>3, <4>4 DEF Steady
    <3> QED
      BY <2>1, <3>3, <3>4, <3>5, ChangedBy
  <2> QED
    BY <2>4, <2>5, <2>6
<1> QED
  BY <1>1, <1>2

-----------------------------------------------------------------------------
(* Theorems. *)

\* Every step keeps the invariant of the play references.
LEMMA PlayStep ==
  ASSUME ByContract, IInv, IInv', RefInv, PlayInv, [Next]_vars
  PROVE  PlayInv'
<1>c. RefsOnly
  BY DEF ByContract
<1>1. ASSUME NEW t \in Thread, parser_parse_cmd(t) \/ Serve(t) PROVE PlayInv'
  <2>1. \A n \in Name : Kept(n)'
    BY <1>1, KeptStep DEF PlayInv, IInv
  <2>2. \A n \in Name : Counted(n)'
    BY <1>1, CountedStep
  <2>3. \A u \in Thread : Aimed(u)'
    BY <1>1, <1>c, AimedStep
  <2>4. \A u \in Thread : Fresh(u)' /\ Midway(u)'
    BY <1>1, <1>c, FreshStep, MidwayStep
  <2>5. \A p \in list' : name'[p] \in Name /\ Steady(p)'
    BY <1>1, SteadyStep
  <2> QED
    BY <2>1, <2>2, <2>3, <2>4, <2>5 DEF PlayInv
<1>2. CASE UNCHANGED vars
  <2>1. UNCHANGED <<list, name, srefs, elem, pc, req, rc, node, snode, inner, isnode, ledger, plays>>
    BY <1>2 DEF vars, objVars, lockVars, ptrVars, clientVars
  <2>2. \A n : Named(n)' = Named(n)
    BY <2>1 DEF Named
  <2>3. \A n, o : Busy(n, o)' = Busy(n, o) /\ Adjusted(n, o)' = Adjusted(n, o)
    BY <2>1 DEF Busy, Adjusted
  <2>4. \A n \in Name : Kept(n)' /\ Counted(n)'
    BY <2>1, <2>2, <2>3 DEF PlayInv, Kept, Played, Counted
  <2>5. \A u \in Thread : Aimed(u)' /\ Fresh(u)' /\ Midway(u)'
    BY <2>1, <2>2 DEF PlayInv, Aimed, Fresh, Midway
  <2>6. \A p \in list' : name'[p] \in Name /\ Steady(p)'
    BY <2>1 DEF PlayInv, Steady
  <2> QED
    BY <2>4, <2>5, <2>6 DEF PlayInv
<1> QED
  BY <1>1, <1>2 DEF Next

\* The daemon starts with nothing played.
LEMMA InitPlay == Init => PlayInv
<1> SUFFICES ASSUME Init PROVE PlayInv
  OBVIOUS
<1>1. \A n, o : o \subseteq RefApi \cup PlayApi => Busy(n, o) = {}
  BY DEF Init, Busy, NoRequest
<1>2. ASSUME NEW n \in Name PROVE Kept(n)
  <2>1. Busy(n, {"delete_ref"}) = {} /\ Busy(n, {"stop_ref"}) = {} /\ Busy(n, PlayApi) = {}
    BY <1>1
  <2>2. ledger[n] = 0 /\ plays[n] = 0
    BY DEF Init
  <2> QED
    BY <2>1, <2>2, FS_EmptySet DEF Kept, Played
<1> QED
  BY <1>2 DEF Init, PlayInv, Counted, Named, Aimed, Fresh, Midway, Steady, NoRequest

\* Under the contract, clients and the registry agree on the play references
\* in every reachable state.
THEOREM PlayInvariance == ASSUME ByContract PROVE Spec => [](IInv /\ RefInv /\ PlayInv)
<1>1. Init => IInv /\ RefInv /\ PlayInv
  BY InitInv, InitRef, InitPlay
<1>2. (IInv /\ RefInv /\ PlayInv) /\ [Next]_vars => (IInv /\ RefInv /\ PlayInv)'
  <2> SUFFICES ASSUME IInv, RefInv, PlayInv, [Next]_vars PROVE IInv' /\ RefInv' /\ PlayInv'
    OBVIOUS
  <2>1. IInv'
    BY NextInv
  <2>2. RefInv'
    BY NextRef DEF ByContract
  <2> QED
    BY <2>1, <2>2, PlayStep
<1> QED
  BY <1>1, <1>2, PTL DEF Spec

\* play_ref and stop_ref, when clients keep to the contract and elements change
\* their state when told: a pipeline nobody is about to play or stop plays
\* exactly while clients hold play references, and its refcount is their number.
THEOREM PlaysMatchClients == ASSUME ByContract PROVE Spec => []PlaysWhilePlayed
<1>1. IInv /\ RefInv /\ PlayInv => PlaysWhilePlayed
  <2> SUFFICES ASSUME IInv, PlayInv, NEW p \in list, Busy(name[p], PlayApi) = {}
               PROVE  srefs[p] = plays[name[p]] /\ (srefs[p] > 0 <=> elem[p] = "PLAYING")
    BY DEF PlaysWhilePlayed
  <2>1. PICK n \in Name : n = name[p]
    BY DEF PlayInv
  <2>2. p \in Named(n) /\ srefs[p] \in Nat /\ plays[n] \in Nat
    BY <2>1 DEF Named, IInv, TypeOK
  <2>3. Adjusted(n, "play_ref") = {} /\ Adjusted(n, "stop_ref") = {}
    BY <2>1 DEF Adjusted, Busy
  <2>4. srefs[p] + 0 = plays[n] + 0
    BY <2>2, <2>3, FS_EmptySet DEF PlayInv, Counted
  <2>5. ~\E t \in Thread : pc[t] = "sadjust" /\ node[t] = p
    <3>1. SUFFICES ASSUME NEW t \in Thread, pc[t] = "sadjust", node[t] = p PROVE FALSE
      OBVIOUS
    <3>2. req[t].op \in PlayApi /\ p # None
      BY <3>1 DEF IInv, Control, Placed, TypeOK
    <3>3. p \in Named(req[t].name)
      BY <3>1, <3>2 DEF PlayInv, Aimed
    <3> QED
      BY <3>2, <3>3 DEF Named, Busy
  <2>6. srefs[p] > 0 <=> elem[p] = "PLAYING"
    BY <2>5 DEF PlayInv, Steady
  <2> QED
    BY <2>1, <2>2, <2>4, <2>6
<1> QED
  BY <1>1, PlayInvariance, PTL

\* What gstd_state.c says of the play refcount holds under the same conditions:
\* when it reaches 0 the pipeline is stopped.
THEOREM ZeroStops == ASSUME ByContract PROVE Spec => StoppedAtZero
<1> DEFINE A == \A p \in Pipe : srefs[p] > 0 /\ srefs'[p] = 0 => elem'[p] = "NULL"
<1>1. (IInv /\ RefInv /\ PlayInv) /\ [Next]_vars => [A]_vars
  <2> SUFFICES ASSUME IInv, PlayInv, Next, NEW p \in Pipe, srefs[p] > 0, srefs'[p] = 0
               PROVE  elem'[p] = "NULL"
    OBVIOUS
  <2>1. PICK t \in Thread : parser_parse_cmd(t) \/ Serve(t)
    BY DEF Next
  <2>t. TypeOK /\ Control
    BY DEF IInv
  <2>2. CASE pipeline_creator_create(t)
    BY <2>2, <2>t DEF pipeline_creator_create, Free, objVars, TypeOK
  <2>3. CASE state_adjust_refcount(t)
    <3>1. pc[t] = "sadjust" /\ req[t].op \in PlayApi /\ snode[t] # None
      BY <2>3, <2>t DEF state_adjust_refcount, Control, Placed, Pointing
    <3>2. snode[t] \in Pipe /\ elem' = elem
      BY <2>3, <3>1, OnePipeline DEF state_adjust_refcount
    <3>3. p = snode[t] /\ req[t].op = "stop_ref" /\ srefs[p] = 1
      BY <2>3, <3>1, <3>2, <2>t DEF state_adjust_refcount, Decrement, TypeOK
    <3> QED
      BY <3>1, <3>2, <3>3 DEF PlayInv, Midway
  <2>4. CASE ~pipeline_creator_create(t) /\ ~state_adjust_refcount(t)
    <3>1. UNCHANGED srefs
      BY <2>1, <2>4 DEF Serve, parser_parse_cmd, list_append_child, parser_create_read,
         parser_create_to_string, list_delete, pipeline_deleter_stop, list_delete_link,
         get_by_uri_pipeline, get_by_uri_state, state_update, lock_session, create_ref_lookup,
         create_ref_relookup, pipeline_increment_refcount, delete_ref_lookup, delete_ref_count,
         pipeline_decrement_refcount, unlock_session, play_ref_pipeline_node,
         play_ref_lookup_again, play_ref_state_node, lock_pipeline, play_ref_count,
         unlock_pipeline, play_ref_return, objVars
    <3> QED
      BY <3>1
  <2> QED
    BY <2>2, <2>3, <2>4
<1> QED
  BY <1>1, PlayInvariance, PTL DEF Spec, StoppedAtZero
=============================================================================
