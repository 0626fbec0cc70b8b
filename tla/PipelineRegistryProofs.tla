------------------------ MODULE PipelineRegistryProofs ------------------------
(***************************************************************************)
(* Proofs about PipelineRegistry for any number of threads, names,         *)
(* descriptions and addresses.                                             *)
(***************************************************************************)
EXTENDS PipelineRegistry, FiniteSetTheorems, TLAPS

(* The inductive invariant. *)

\* Which request can be at which label.
Placed(t) ==
  /\ req[t].op = "none" <=> pc[t] = "idle"
  /\ pc[t] \in CreateLabels => req[t].op \in CreateOps
  /\ pc[t] \in DeleteLabels => req[t].op \in {"delete", "delete_ref"}
  /\ pc[t] \in UpdateLabels => req[t].op \in {"play", "stop"} \cup PlayApi
  /\ pc[t] \in {"relookup", "increment"} => req[t].op = "create_ref"
  /\ pc[t] \in {"count", "decrement"} => req[t].op = "delete_ref"
  /\ pc[t] \in {"lock", "lookup", "unlock"} => req[t].op \in RefApi
  /\ pc[t] \in PlayLabels => req[t].op \in PlayApi

\* Which pointer is set at which label.
Pointing(t) ==
  /\ inner[t] # None <=> pc[t] \in {"append", "print", "state", "snode"}
  /\ isnode[t] # None <=> pc[t] = "update"
  /\ found[t] # None <=> pc[t] \in {"stop", "unlink"}
  /\ node[t] # None => req[t].op \in RefApi \cup PlayApi
  /\ pc[t] \in {"lock", "lookup", "relookup"} \cup CreateLabels => node[t] = None
  /\ pc[t] \in {"count", "decrement"} => node[t] # None
  /\ req[t].op = "delete_ref" /\ pc[t] \in DeleteLabels => node[t] # None
  /\ req[t].op \in PlayApi => (node[t] # None <=> pc[t] # "node")
  /\ snode[t] # None => req[t].op \in PlayApi
  /\ req[t].op \in PlayApi /\ pc[t] \in {"plock", "scount", "sadjust"} \cup UpdateLabels
       => snode[t] # None
  /\ pc[t] \in {"node", "again", "snode"} => snode[t] = None

\* Who holds which lock.
Locking(t) ==
  /\ session = t <=> req[t].op \in RefApi /\ pc[t] # "lock"
  /\ listLock = t <=> pc[t] \in {"stop", "unlink"}
  /\ \A p \in Pipe :
       pipeLock[p] = t <=> node[t] = p /\ snode[t] # None /\ pc[t] # "plock"

Control == \A t \in Thread : Placed(t) /\ Pointing(t) /\ Locking(t)

USE RegistryAssumption
  DEF RefApi, PlayApi, RawApi, CreateOps, CreateLabels, DeleteLabels,
      UpdateLabels, RefLabels, PlayLabels, Labels, Codes, States

\* The daemon starts well typed.
LEMMA InitType == Init => TypeOK
BY DEF Init, TypeOK, NoRequest

\* The daemon starts with every thread idle and no lock held.
LEMMA InitControl == Init => Control
BY DEF Init, Control, Placed, Pointing, Locking, NoRequest

(* Types. *)

\* The answer to a request leaves the threads well typed.
LEMMA FinishType ==
  ASSUME TypeOK, NEW t \in Thread, Finish(t)
  PROVE  /\ pc' \in [Thread -> Labels]
         /\ req' \in [Thread -> Request \cup {NoRequest}]
         /\ rc' \in [Thread -> Codes]
BY DEF TypeOK, Finish, Goto

\* So does the return of an inner create, delete or update.
LEMMA ReturnType ==
  ASSUME TypeOK, Control, NEW t \in Thread, NEW c \in Codes, Return(t, c),
         pc[t] \in CreateLabels \cup DeleteLabels \cup UpdateLabels
  PROVE  /\ pc' \in [Thread -> Labels]
         /\ req' \in [Thread -> Request \cup {NoRequest}]
         /\ rc' \in [Thread -> Codes]
<1>1. CASE Finish(t)
  BY <1>1, FinishType
<1>2. CASE /\ req[t].op \notin RawApi
           /\ Goto(t, ReturnTo(t, c))
           /\ rc' = [rc EXCEPT ![t] = c]
           /\ UNCHANGED req
  <2>1. ReturnTo(t, c) \in Labels
    BY <1>2 DEF Control, Placed, ReturnTo
  <2> QED
    BY <1>2, <2>1 DEF TypeOK, Goto
<1> QED
  BY <1>1, <1>2 DEF Return

\* So does g_object_unref of a pipeline, for the object it may dispose.
LEMMA UnrefType ==
  ASSUME TypeOK, NEW p \in Pipe, NEW k \in Int, unref_pipeline(p, k)
  PROVE  /\ gref' \in [Pipe -> Int]
         /\ sgref' \in [Pipe -> Int]
         /\ elem' \in [Pipe -> States]
<1>1. DisposeDropsState(p) \in Int
  BY DEF DisposeDropsState
<1>2. sgref' \in [Pipe -> Int]
  BY <1>1 DEF TypeOK, unref_pipeline
<1> QED
  BY <1>2 DEF TypeOK, unref_pipeline, set_state

\* The clients never count fewer than no references.
LEMMA TallyType ==
  ASSUME NEW t \in Thread, NEW o, NEW c \in Nat
  PROVE  Tally(t, o, c) \in Nat
BY DEF Tally

\* Every step of a thread keeps the types.
LEMMA TypeStep ==
  ASSUME TypeOK, Control, NEW t \in Thread, parser_parse_cmd(t) \/ Serve(t)
  PROVE  TypeOK'
<1>1. CASE parser_parse_cmd(t)
  BY <1>1 DEF parser_parse_cmd, Goto, Request, FirstLabel, objVars, lockVars,
     ptrVars, clientVars, TypeOK
<1>2. CASE pipeline_creator_create(t)
  <2>1. pc' \in [Thread -> Labels] /\ rc' \in [Thread -> Codes] /\
        req' \in [Thread -> Request \cup {NoRequest}]
    BY <1>2, ReturnType DEF pipeline_creator_create, Goto, TypeOK
  <2>2. req[t].name \in Name \cup {None} /\ req[t].desc \in Desc \cup {None}
    BY DEF TypeOK, Request, NoRequest
  <2> QED
    BY <1>2, <2>1, <2>2 DEF pipeline_creator_create, Free, objVars, lockVars, ptrVars, clientVars, TypeOK
<1>3. CASE list_append_child(t)
  <2>1. inner[t] \in Pipe
    BY <1>3 DEF list_append_child, Control, Pointing, TypeOK
  <2>0. Cardinality(list) \in Nat
    BY FS_Subset, FS_CardinalityType DEF TypeOK
  <2>2. count' \in Int
    BY <1>3, <2>0 DEF list_append_child, TypeOK
  <2>3. pc' \in [Thread -> Labels] /\ rc' \in [Thread -> Codes] /\
        req' \in [Thread -> Request \cup {NoRequest}]
    BY <1>3, ReturnType DEF list_append_child, Goto, TypeOK
  <2>4. gref' \in [Pipe -> Int] /\ sgref' \in [Pipe -> Int] /\
        elem' \in [Pipe -> States]
    BY <1>3, <2>1, UnrefType DEF list_append_child, TypeOK
  <2> QED
    BY <1>3, <2>1, <2>2, <2>3, <2>4 DEF list_append_child, objVars, lockVars, ptrVars, clientVars, TypeOK
<1>4. CASE parser_create_read(t)
  <2>1. gref' \in [Pipe -> Int] /\ inner' \in [Thread -> Pipe \cup {None}]
    BY <1>4 DEF parser_create_read, list_find_child, Named, RefChild, TypeOK
  <2>2. pc' \in [Thread -> Labels] /\ rc' \in [Thread -> Codes] /\
        req' \in [Thread -> Request \cup {NoRequest}]
    BY <1>4, ReturnType DEF parser_create_read, Goto, TypeOK
  <2> QED
    BY <1>4, <2>1, <2>2 DEF parser_create_read, objVars, lockVars, ptrVars, clientVars, TypeOK
<1>5. CASE parser_create_to_string(t)
  <2>1. inner[t] \in Pipe
    BY <1>5 DEF parser_create_to_string, Control, Placed, Pointing, TypeOK
  <2> QED
    BY <1>5, <2>1, UnrefType, ReturnType DEF parser_create_to_string, Goto, objVars, lockVars, ptrVars, clientVars, TypeOK
<1>6. CASE list_delete(t)
  BY <1>6, ReturnType DEF list_delete, Goto, Named, objVars, lockVars,
     ptrVars, clientVars, TypeOK
<1>7. CASE pipeline_deleter_stop(t)
  <2>1. pc' \in [Thread -> Labels] /\ rc' \in [Thread -> Codes] /\
        req' \in [Thread -> Request \cup {NoRequest}]
    BY <1>7, ReturnType DEF pipeline_deleter_stop, Goto, TypeOK
  <2>2. found[t] \in Pipe
    BY <1>7 DEF pipeline_deleter_stop, Control, Pointing, TypeOK
  <2> QED
    BY <1>7, <2>1, <2>2 DEF pipeline_deleter_stop, set_state, objVars, lockVars, ptrVars, clientVars, TypeOK
<1>8. CASE list_delete_link(t)
  <2>1. found[t] \in Pipe
    BY <1>8 DEF list_delete_link, Control, Placed, Pointing, TypeOK
  <2> QED
    BY <1>8, <2>1, UnrefType, ReturnType DEF list_delete_link, Goto, objVars, lockVars, ptrVars, clientVars, TypeOK
<1>9. CASE get_by_uri_pipeline(t)
  <2>1. gref' \in [Pipe -> Int] /\ inner' \in [Thread -> Pipe \cup {None}]
    BY <1>9 DEF get_by_uri_pipeline, list_find_child, Named, RefChild, TypeOK
  <2>2. pc' \in [Thread -> Labels] /\ rc' \in [Thread -> Codes] /\
        req' \in [Thread -> Request \cup {NoRequest}]
    BY <1>9, ReturnType DEF get_by_uri_pipeline, Goto, TypeOK
  <2> QED
    BY <1>9, <2>1, <2>2 DEF get_by_uri_pipeline, objVars, lockVars, ptrVars, clientVars, TypeOK
<1>10. CASE get_by_uri_state(t)
  <2>1. inner[t] \in Pipe
    BY <1>10 DEF get_by_uri_state, Control, Placed, Pointing, TypeOK
  <2> QED
    BY <1>10, <2>1, UnrefType DEF get_by_uri_state, Goto, objVars, lockVars, ptrVars, clientVars, TypeOK
<1>11. CASE state_update(t)
  <2>1. isnode[t] \in Pipe
    BY <1>11 DEF state_update, Control, Pointing, TypeOK
  <2>2. pc' \in [Thread -> Labels] /\ rc' \in [Thread -> Codes] /\
        req' \in [Thread -> Request \cup {NoRequest}]
    BY <1>11, ReturnType DEF state_update
  <2>3. elem' \in [Pipe -> States]
    BY <1>11, <2>1 DEF state_update, set_state, Target, TypeOK
  <2>4. sgref' \in [Pipe -> Int] /\ isnode' \in [Thread -> Pipe \cup {None}]
    BY <1>11, <2>1 DEF state_update, TypeOK
  <2>5. UNCHANGED <<list, count, name, desc, prefs, srefs, gref, lockVars, node,
                    snode, inner, found, clientVars>>
    BY <1>11 DEF state_update
  <2> QED
    BY <2>2, <2>3, <2>4, <2>5 DEF lockVars, clientVars, TypeOK
<1>12. CASE lock_session(t)
  BY <1>12 DEF lock_session, Goto, SessionFree, objVars, lockVars, ptrVars,
     clientVars, TypeOK
<1>13. CASE create_ref_lookup(t)
  <2>1. gref' \in [Pipe -> Int] /\ node' \in [Thread -> Pipe \cup {None}]
    BY <1>13 DEF create_ref_lookup, list_find_child, Named, RefChild, TypeOK
  <2>2. pc' \in [Thread -> Labels] /\ rc' \in [Thread -> Codes] /\
        req' \in [Thread -> Request \cup {NoRequest}]
    BY <1>13 DEF create_ref_lookup, Goto, TypeOK
  <2> QED
    BY <1>13, <2>1, <2>2 DEF create_ref_lookup, objVars, lockVars, ptrVars, clientVars, TypeOK
<1>14. CASE create_ref_relookup(t)
  <2>1. gref' \in [Pipe -> Int] /\ node' \in [Thread -> Pipe \cup {None}]
    BY <1>14 DEF create_ref_relookup, list_find_child, Named, RefChild, TypeOK
  <2>2. pc' \in [Thread -> Labels] /\ rc' \in [Thread -> Codes] /\
        req' \in [Thread -> Request \cup {NoRequest}]
    BY <1>14 DEF create_ref_relookup, Goto, TypeOK
  <2> QED
    BY <1>14, <2>1, <2>2 DEF create_ref_relookup, objVars, lockVars, ptrVars, clientVars, TypeOK
<1>15. CASE pipeline_increment_refcount(t)
  BY <1>15 DEF pipeline_increment_refcount, Goto, objVars, lockVars, ptrVars,
     clientVars, TypeOK
<1>16. CASE delete_ref_lookup(t)
  <2>1. gref' \in [Pipe -> Int] /\ node' \in [Thread -> Pipe \cup {None}]
    BY <1>16 DEF delete_ref_lookup, list_find_child, Named, RefChild, TypeOK
  <2>2. pc' \in [Thread -> Labels] /\ rc' \in [Thread -> Codes] /\
        req' \in [Thread -> Request \cup {NoRequest}]
    BY <1>16 DEF delete_ref_lookup, Goto, TypeOK
  <2> QED
    BY <1>16, <2>1, <2>2 DEF delete_ref_lookup, objVars, lockVars, ptrVars, clientVars, TypeOK
<1>17. CASE delete_ref_count(t)
  BY <1>17 DEF delete_ref_count, Goto, objVars, lockVars, ptrVars, clientVars,
     TypeOK
<1>18. CASE pipeline_decrement_refcount(t)
  BY <1>18 DEF pipeline_decrement_refcount, Goto, Decrement, Control,
     Pointing, objVars, lockVars, ptrVars, clientVars, TypeOK
<1>19. CASE unlock_session(t)
  <2>1. ledger' \in [Name -> Nat]
    BY <1>19, TallyType DEF unlock_session, TypeOK, Control, Placed, Request, NoRequest
  <2>2. gref' \in [Pipe -> Int] /\ sgref' \in [Pipe -> Int] /\
        elem' \in [Pipe -> States]
    BY <1>19, UnrefType DEF unlock_session, TypeOK
  <2> QED
    BY <1>19, <2>1, <2>2, FinishType DEF unlock_session, objVars, lockVars, ptrVars, clientVars, TypeOK
<1>20. CASE play_ref_pipeline_node(t)
  <2>1. gref' \in [Pipe -> Int] /\ node' \in [Thread -> Pipe \cup {None}]
    BY <1>20 DEF play_ref_pipeline_node, list_find_child, Named, RefChild, TypeOK
  <2>2. pc' \in [Thread -> Labels] /\ rc' \in [Thread -> Codes] /\
        req' \in [Thread -> Request \cup {NoRequest}]
    BY <1>20, FinishType DEF play_ref_pipeline_node, Goto, TypeOK
  <2> QED
    BY <1>20, <2>1, <2>2 DEF play_ref_pipeline_node, objVars, lockVars, ptrVars, clientVars, TypeOK
<1>21. CASE play_ref_lookup_again(t)
  <2>1. gref' \in [Pipe -> Int] /\ inner' \in [Thread -> Pipe \cup {None}]
    BY <1>21 DEF play_ref_lookup_again, list_find_child, Named, RefChild, TypeOK
  <2>2. pc' \in [Thread -> Labels] /\ rc' \in [Thread -> Codes] /\
        req' \in [Thread -> Request \cup {NoRequest}]
    BY <1>21 DEF play_ref_lookup_again, Goto, TypeOK
  <2> QED
    BY <1>21, <2>1, <2>2 DEF play_ref_lookup_again, objVars, lockVars, ptrVars, clientVars, TypeOK
<1>22. CASE play_ref_state_node(t)
  <2>1. inner[t] \in Pipe
    BY <1>22 DEF play_ref_state_node, Control, Placed, Pointing, TypeOK
  <2> QED
    BY <1>22, <2>1, UnrefType DEF play_ref_state_node, Goto, objVars, lockVars, ptrVars, clientVars, TypeOK
<1>23. CASE lock_pipeline(t)
  BY <1>23 DEF lock_pipeline, Goto, PipelineFree, objVars, lockVars, ptrVars,
     clientVars, TypeOK
<1>24. CASE play_ref_count(t)
  BY <1>24 DEF play_ref_count, Goto, objVars, lockVars, ptrVars, clientVars,
     TypeOK
<1>25. CASE state_adjust_refcount(t)
  <2>1. snode[t] \in Pipe
    BY <1>25 DEF state_adjust_refcount, Control, Placed, Pointing, TypeOK
  <2>2. srefs' \in [Pipe -> Nat]
    BY <1>25, <2>1 DEF state_adjust_refcount, Control, Placed, Decrement, TypeOK
  <2> QED
    BY <1>25, <2>2 DEF state_adjust_refcount, Goto, objVars, lockVars, ptrVars, clientVars, TypeOK
<1>26. CASE unlock_pipeline(t)
  BY <1>26 DEF unlock_pipeline, Control, Pointing, objVars, lockVars, ptrVars,
     clientVars, TypeOK
<1>27. CASE play_ref_return(t)
  <2>1. node[t] \in Pipe
    BY <1>27 DEF play_ref_return, Control, Placed, Pointing, TypeOK
  <2>2. plays' \in [Name -> Nat]
    BY <1>27, TallyType DEF play_ref_return, TypeOK, Control, Placed, Request, NoRequest
  <2> QED
    BY <1>27, <2>1, <2>2, UnrefType, FinishType DEF play_ref_return, objVars, lockVars, ptrVars, clientVars, TypeOK
<1> QED
  BY <1>1, <1>2, <1>3, <1>4, <1>5, <1>6, <1>7, <1>8, <1>9, <1>10, <1>11,
     <1>12, <1>13, <1>14, <1>15, <1>16, <1>17, <1>18, <1>19, <1>20, <1>21,
     <1>22, <1>23, <1>24, <1>25, <1>26, <1>27 DEF Serve

-----------------------------------------------------------------------------
(* Control. *)

\* Every step keeps the control facts: which pointers a thread holds at each
\* label, what it points to, and which locks it has.
LEMMA ControlStep ==
  ASSUME TypeOK, Control, TypeOK', NEW t \in Thread, parser_parse_cmd(t) \/ Serve(t)
  PROVE  Control'
<1>1. CASE parser_parse_cmd(t)
  BY <1>1 DEF parser_parse_cmd, Goto, Request, FirstLabel, objVars, lockVars,
     ptrVars, clientVars, TypeOK, Control, Placed, Pointing, Locking
<1>2. CASE pipeline_creator_create(t)
  BY <1>2 DEF pipeline_creator_create, Goto, Return, Finish, ReturnTo, Free,
     NoRequest, objVars, lockVars, ptrVars, clientVars, TypeOK, Control,
     Placed, Pointing, Locking
<1>3. CASE list_append_child(t)
  BY <1>3 DEF list_append_child, Goto, Return, Finish, ReturnTo, NoRequest,
     unref_pipeline, set_state, DisposeDropsState, objVars, lockVars, ptrVars,
     clientVars, TypeOK, Control, Placed, Pointing, Locking
<1>4. CASE parser_create_read(t)
  BY <1>4 DEF parser_create_read, Goto, Return, Finish, ReturnTo, NoRequest,
     list_find_child, Named, RefChild, objVars, lockVars, ptrVars, clientVars,
     TypeOK, Control, Placed, Pointing, Locking
<1>5. CASE parser_create_to_string(t)
  BY <1>5 DEF parser_create_to_string, Goto, Return, Finish, ReturnTo,
     NoRequest, unref_pipeline, set_state, DisposeDropsState, objVars,
     lockVars, ptrVars, clientVars, TypeOK, Control, Placed, Pointing, Locking
<1>6. CASE list_delete(t)
  BY <1>6 DEF list_delete, Goto, Return, Finish, ReturnTo, NoRequest, Named,
     objVars, lockVars, ptrVars, clientVars, TypeOK, Control, Placed,
     Pointing, Locking
<1>7. CASE pipeline_deleter_stop(t)
  BY <1>7 DEF pipeline_deleter_stop, Goto, Return, Finish, ReturnTo,
     NoRequest, set_state, objVars, lockVars, ptrVars, clientVars, TypeOK,
     Control, Placed, Pointing, Locking
<1>8. CASE list_delete_link(t)
  BY <1>8 DEF list_delete_link, Goto, Return, Finish, ReturnTo, NoRequest,
     unref_pipeline, set_state, DisposeDropsState, objVars, lockVars, ptrVars,
     clientVars, TypeOK, Control, Placed, Pointing, Locking
<1>9. CASE get_by_uri_pipeline(t)
  BY <1>9 DEF get_by_uri_pipeline, Goto, Return, Finish, ReturnTo, NoRequest,
     list_find_child, Named, RefChild, objVars, lockVars, ptrVars, clientVars,
     TypeOK, Control, Placed, Pointing, Locking
<1>10. CASE get_by_uri_state(t)
  BY <1>10 DEF get_by_uri_state, Goto, unref_pipeline, set_state,
     DisposeDropsState, objVars, lockVars, ptrVars, clientVars, TypeOK,
     Control, Placed, Pointing, Locking
<1>11. CASE state_update(t)
  BY <1>11 DEF state_update, Goto, Return, Finish, ReturnTo, NoRequest,
     set_state, objVars, lockVars, ptrVars, clientVars, TypeOK, Control,
     Placed, Pointing, Locking
<1>12. CASE lock_session(t)
  BY <1>12 DEF lock_session, Goto, SessionFree, objVars, lockVars, ptrVars,
     clientVars, TypeOK, Control, Placed, Pointing, Locking
<1>13. CASE create_ref_lookup(t)
  BY <1>13 DEF create_ref_lookup, Goto, list_find_child, Named, RefChild,
     objVars, lockVars, ptrVars, clientVars, TypeOK, Control, Placed,
     Pointing, Locking
<1>14. CASE create_ref_relookup(t)
  BY <1>14 DEF create_ref_relookup, Goto, list_find_child, Named, RefChild,
     objVars, lockVars, ptrVars, clientVars, TypeOK, Control, Placed,
     Pointing, Locking
<1>15. CASE pipeline_increment_refcount(t)
  BY <1>15 DEF pipeline_increment_refcount, Goto, objVars, lockVars, ptrVars,
     clientVars, TypeOK, Control, Placed, Pointing, Locking
<1>16. CASE delete_ref_lookup(t)
  BY <1>16 DEF delete_ref_lookup, Goto, list_find_child, Named, RefChild,
     objVars, lockVars, ptrVars, clientVars, TypeOK, Control, Placed,
     Pointing, Locking
<1>17. CASE delete_ref_count(t)
  BY <1>17 DEF delete_ref_count, Goto, objVars, lockVars, ptrVars, clientVars,
     TypeOK, Control, Placed, Pointing, Locking
<1>18. CASE pipeline_decrement_refcount(t)
  BY <1>18 DEF pipeline_decrement_refcount, Goto, Decrement, objVars,
     lockVars, ptrVars, clientVars, TypeOK, Control, Placed, Pointing, Locking
<1>19. CASE unlock_session(t)
  BY <1>19 DEF unlock_session, Goto, Finish, Tally, NoRequest, unref_pipeline,
     set_state, DisposeDropsState, objVars, lockVars, ptrVars, clientVars,
     TypeOK, Control, Placed, Pointing, Locking
<1>20. CASE play_ref_pipeline_node(t)
  BY <1>20 DEF play_ref_pipeline_node, Goto, Finish, NoRequest,
     list_find_child, Named, RefChild, objVars, lockVars, ptrVars, clientVars,
     TypeOK, Control, Placed, Pointing, Locking
<1>21. CASE play_ref_lookup_again(t)
  BY <1>21 DEF play_ref_lookup_again, Goto, list_find_child, Named, RefChild,
     objVars, lockVars, ptrVars, clientVars, TypeOK, Control, Placed,
     Pointing, Locking
<1>22. CASE play_ref_state_node(t)
  BY <1>22 DEF play_ref_state_node, Goto, unref_pipeline, set_state,
     DisposeDropsState, objVars, lockVars, ptrVars, clientVars, TypeOK,
     Control, Placed, Pointing, Locking
<1>23. CASE lock_pipeline(t)
  BY <1>23 DEF lock_pipeline, Goto, PipelineFree, objVars, lockVars, ptrVars,
     clientVars, TypeOK, Control, Placed, Pointing, Locking
<1>24. CASE play_ref_count(t)
  BY <1>24 DEF play_ref_count, Goto, objVars, lockVars, ptrVars, clientVars,
     TypeOK, Control, Placed, Pointing, Locking
<1>25. CASE state_adjust_refcount(t)
  BY <1>25 DEF state_adjust_refcount, Goto, Decrement, objVars, lockVars,
     ptrVars, clientVars, TypeOK, Control, Placed, Pointing, Locking
<1>26. CASE unlock_pipeline(t)
  BY <1>26 DEF unlock_pipeline, Goto, objVars, lockVars, ptrVars, clientVars,
     TypeOK, Control, Placed, Pointing, Locking
<1>27. CASE play_ref_return(t)
  BY <1>27 DEF play_ref_return, Goto, Finish, Tally, NoRequest,
     unref_pipeline, set_state, DisposeDropsState, objVars, lockVars, ptrVars,
     clientVars, TypeOK, Control, Placed, Pointing, Locking
<1> QED
  BY <1>1, <1>2, <1>3, <1>4, <1>5, <1>6, <1>7, <1>8, <1>9, <1>10, <1>11,
     <1>12, <1>13, <1>14, <1>15, <1>16, <1>17, <1>18, <1>19, <1>20, <1>21,
     <1>22, <1>23, <1>24, <1>25, <1>26, <1>27 DEF Serve

-----------------------------------------------------------------------------
(* References. *)

\* A pipeline on its way into the list is known to its creator only.
Exclusive ==
  \A t \in Thread : pc[t] = "append" =>
    /\ inner[t] \notin list
    /\ \A u \in Thread : node[u] # inner[t] /\ (u # t => inner[u] # inner[t])

\* What gstd_list_delete found stays listed until it unlinks it.
FoundListed ==
  \A t \in Thread : pc[t] \in {"stop", "unlink"} => found[t] \in list

\* The new pipeline carries the name in the request.
CreatedName ==
  \A t \in Thread : pc[t] = "append" => name[inner[t]] = req[t].name

IInv ==
  TypeOK /\ Control /\ PipelineRefsExact /\ Exclusive /\ FoundListed
  /\ CreatedName /\ UniqueNames

\* A pipeline has finitely many holders.
LEMMA HoldersFinite ==
  ASSUME NEW p \in Pipe
  PROVE  IsFiniteSet(Holders(p)) /\ Cardinality(Holders(p)) \in Nat
<1> DEFINE N == {t \in Thread : node[t] = p}
           I == {t \in Thread : inner[t] = p}
           L == IF p \in list THEN {<<None, "list">>} ELSE {}
<1>1. IsFiniteSet(N) /\ IsFiniteSet(I)
  BY FS_Subset
<1>2. IsFiniteSet(N \X {"node"}) /\ IsFiniteSet(I \X {"inner"})
  BY <1>1, FS_Product, FS_Singleton
<1>3. IsFiniteSet(L)
  BY FS_Singleton, FS_EmptySet
<1>4. IsFiniteSet((N \X {"node"} \cup I \X {"inner"}) \cup L)
  BY <1>2, <1>3, FS_Union
<1> QED
  BY <1>4, FS_CardinalityType DEF Holders

\* Nothing points to an object without references.
LEMMA UnheldWhenZero ==
  ASSUME TypeOK, PipelineRefsExact, NEW p \in Pipe, gref[p] = 0
  PROVE  p \notin list /\ \A t \in Thread : node[t] # p /\ inner[t] # p
<1>1. Holders(p) = {}
  BY HoldersFinite, FS_EmptySet DEF PipelineRefsExact
<1>2. p \notin list
  <2>1. SUFFICES ASSUME p \in list PROVE FALSE
    OBVIOUS
  <2>2. <<None, "list">> \in Holders(p)
    BY <2>1 DEF Holders
  <2> QED
    BY <1>1, <2>2
<1>3. ASSUME NEW t \in Thread PROVE node[t] # p
  <2>1. SUFFICES ASSUME node[t] = p PROVE FALSE
    OBVIOUS
  <2>2. <<t, "node">> \in Holders(p)
    BY <2>1 DEF Holders
  <2> QED
    BY <1>1, <2>2
<1>4. ASSUME NEW t \in Thread PROVE inner[t] # p
  <2>1. SUFFICES ASSUME inner[t] = p PROVE FALSE
    OBVIOUS
  <2>2. <<t, "inner">> \in Holders(p)
    BY <2>1 DEF Holders
  <2> QED
    BY <1>1, <2>2
<1> QED
  BY <1>2, <1>3, <1>4

\* Steps that touch no counted pointer and no count keep the counts exact.
LEMMA SameHolders ==
  ASSUME PipelineRefsExact, UNCHANGED <<node, inner, list, gref>>
  PROVE  PipelineRefsExact'
BY DEF PipelineRefsExact, Holders

\* A thread takes a reference into pipeline_node.
LEMMA TakeNode ==
  ASSUME TypeOK, PipelineRefsExact, NEW t \in Thread, NEW p \in Pipe,
         node[t] = None, node' = [node EXCEPT ![t] = p],
         gref' = [gref EXCEPT ![p] = @ + 1], UNCHANGED <<inner, list>>
  PROVE  PipelineRefsExact'
<1> DEFINE h == <<t, "node">>
<1>1. h \notin Holders(p) /\ Holders(p)' = Holders(p) \cup {h}
  BY DEF Holders, TypeOK
<1>2. Cardinality(Holders(p) \cup {h}) = Cardinality(Holders(p)) + 1
  BY <1>1, HoldersFinite, FS_AddElement
<1>3. \A q \in Pipe \ {p} : Holders(q)' = Holders(q)
  BY DEF Holders, TypeOK
<1> QED
  BY <1>1, <1>2, <1>3 DEF PipelineRefsExact, TypeOK

\* A thread drops the reference in pipeline_node.
LEMMA DropNode ==
  ASSUME TypeOK, PipelineRefsExact, NEW t \in Thread, NEW p \in Pipe,
         node[t] = p, node' = [node EXCEPT ![t] = None],
         gref' = [gref EXCEPT ![p] = @ - 1], UNCHANGED <<inner, list>>
  PROVE  PipelineRefsExact'
<1> DEFINE h == <<t, "node">>
<1>1. h \in Holders(p) /\ Holders(p)' = Holders(p) \ {h}
  BY DEF Holders, TypeOK
<1>2. Cardinality(Holders(p) \ {h}) = Cardinality(Holders(p)) - 1
  BY <1>1, HoldersFinite, FS_RemoveElement
<1>3. \A q \in Pipe \ {p} : Holders(q)' = Holders(q)
  BY DEF Holders, TypeOK
<1> QED
  BY <1>1, <1>2, <1>3 DEF PipelineRefsExact, TypeOK

\* An inner call takes a reference.
LEMMA TakeInner ==
  ASSUME TypeOK, PipelineRefsExact, NEW t \in Thread, NEW p \in Pipe,
         inner[t] = None, inner' = [inner EXCEPT ![t] = p],
         gref' = [gref EXCEPT ![p] = @ + 1], UNCHANGED <<node, list>>
  PROVE  PipelineRefsExact'
<1> DEFINE h == <<t, "inner">>
<1>1. h \notin Holders(p) /\ Holders(p)' = Holders(p) \cup {h}
  BY DEF Holders, TypeOK
<1>2. Cardinality(Holders(p) \cup {h}) = Cardinality(Holders(p)) + 1
  BY <1>1, HoldersFinite, FS_AddElement
<1>3. \A q \in Pipe \ {p} : Holders(q)' = Holders(q)
  BY DEF Holders, TypeOK
<1> QED
  BY <1>1, <1>2, <1>3 DEF PipelineRefsExact, TypeOK

\* An inner call drops its reference.
LEMMA DropInner ==
  ASSUME TypeOK, PipelineRefsExact, NEW t \in Thread, NEW p \in Pipe,
         inner[t] = p, inner' = [inner EXCEPT ![t] = None],
         gref' = [gref EXCEPT ![p] = @ - 1], UNCHANGED <<node, list>>
  PROVE  PipelineRefsExact'
<1> DEFINE h == <<t, "inner">>
<1>1. h \in Holders(p) /\ Holders(p)' = Holders(p) \ {h}
  BY DEF Holders, TypeOK
<1>2. Cardinality(Holders(p) \ {h}) = Cardinality(Holders(p)) - 1
  BY <1>1, HoldersFinite, FS_RemoveElement
<1>3. \A q \in Pipe \ {p} : Holders(q)' = Holders(q)
  BY DEF Holders, TypeOK
<1> QED
  BY <1>1, <1>2, <1>3 DEF PipelineRefsExact, TypeOK

\* The list takes over the reference of the creator.
LEMMA ListInner ==
  ASSUME TypeOK, PipelineRefsExact, NEW t \in Thread, NEW p \in Pipe,
         inner[t] = p, p \notin list, inner' = [inner EXCEPT ![t] = None],
         list' = list \cup {p}, UNCHANGED <<node, gref>>
  PROVE  PipelineRefsExact'
<1> DEFINE h == <<t, "inner">>
           l == <<None, "list">>
<1>1. h \in Holders(p) /\ l \notin Holders(p) /\ h # l
  BY DEF Holders, TypeOK
<1>2. Holders(p)' = (Holders(p) \ {h}) \cup {l}
  BY DEF Holders, TypeOK
<1>3. IsFiniteSet(Holders(p) \ {h}) /\
      Cardinality(Holders(p) \ {h}) = Cardinality(Holders(p)) - 1
  BY <1>1, HoldersFinite, FS_RemoveElement
<1>4. Cardinality((Holders(p) \ {h}) \cup {l}) = Cardinality(Holders(p) \ {h}) + 1
  BY <1>1, <1>3, FS_AddElement
<1>5. \A q \in Pipe \ {p} : Holders(q)' = Holders(q)
  BY DEF Holders, TypeOK
<1>6. Cardinality(Holders(p)') = Cardinality(Holders(p))
  BY <1>2, <1>3, <1>4, HoldersFinite
<1> QED
  BY <1>5, <1>6 DEF PipelineRefsExact, TypeOK

\* A deletion takes the pipeline off the list and drops its reference.
LEMMA Unlist ==
  ASSUME TypeOK, PipelineRefsExact, NEW p \in list,
         gref' = [gref EXCEPT ![p] = @ - 1], list' = list \ {p},
         UNCHANGED <<node, inner>>
  PROVE  PipelineRefsExact'
<1> DEFINE l == <<None, "list">>
<1>0. p \in Pipe
  BY DEF TypeOK
<1>1. l \in Holders(p) /\ Holders(p)' = Holders(p) \ {l}
  BY DEF Holders, TypeOK
<1>2. Cardinality(Holders(p) \ {l}) = Cardinality(Holders(p)) - 1
  BY <1>0, <1>1, HoldersFinite, FS_RemoveElement
<1>3. \A q \in Pipe \ {p} : Holders(q)' = Holders(q)
  BY DEF Holders, TypeOK
<1> QED
  BY <1>0, <1>1, <1>2, <1>3 DEF PipelineRefsExact, TypeOK

\* Every step keeps the GObject count of each pipeline exact.
LEMMA RefsStep ==
  ASSUME TypeOK, Control, PipelineRefsExact, Exclusive, FoundListed, NEW t \in Thread, parser_parse_cmd(t) \/ Serve(t)
  PROVE  PipelineRefsExact'
<1>1. CASE parser_parse_cmd(t)
  BY <1>1, SameHolders DEF parser_parse_cmd, objVars, lockVars, ptrVars
<1>2. CASE pipeline_creator_create(t)
  <2>1. inner[t] = None
    BY <1>2 DEF pipeline_creator_create, Control, Pointing
  <2>2. ASSUME NEW p \in Free, gref' = [gref EXCEPT ![p] = 1],
               inner' = [inner EXCEPT ![t] = p]
        PROVE  PipelineRefsExact'
    <3>1. p \in Pipe /\ gref' = [gref EXCEPT ![p] = @ + 1]
      BY <2>2 DEF Free, TypeOK
    <3> QED
      BY <1>2, <2>1, <2>2, <3>1, TakeInner DEF pipeline_creator_create
  <2>3. CASE UNCHANGED <<objVars, inner>>
    BY <1>2, <2>3, SameHolders DEF pipeline_creator_create, objVars
  <2> QED
    BY <1>2, <2>2, <2>3 DEF pipeline_creator_create
<1>3. CASE list_append_child(t)
  <2>1. inner[t] \in Pipe /\ inner[t] \notin list
    BY <1>3 DEF list_append_child, TypeOK, Control, Pointing, Exclusive
  <2>2. CASE NameTaken(req[t].name)
    BY <1>3, <2>1, <2>2, DropInner DEF list_append_child, unref_pipeline
  <2>3. CASE ~NameTaken(req[t].name)
    BY <1>3, <2>1, <2>3, ListInner DEF list_append_child
  <2> QED
    BY <2>2, <2>3
<1>4. CASE parser_create_read(t)
  <2>1. inner[t] = None
    BY <1>4 DEF parser_create_read, TypeOK, Control, Placed, Pointing
  <2>2. UNCHANGED <<node, list>>
    BY <1>4 DEF parser_create_read
  <2>3. CASE \E p \in Named(req[t].name) :
               gref' = [gref EXCEPT ![p] = @ + 1] /\ inner' = [inner EXCEPT ![t] = p]
    BY <2>1, <2>2, <2>3, TakeInner DEF Named, TypeOK
  <2>4. CASE inner' = [inner EXCEPT ![t] = None] /\ UNCHANGED gref
    BY <2>1, <2>2, <2>4, SameHolders DEF TypeOK
  <2> QED
    BY <1>4, <2>3, <2>4 DEF parser_create_read, list_find_child, RefChild
<1>5. CASE parser_create_to_string(t)
  <2>1. inner[t] \in Pipe
    BY <1>5 DEF parser_create_to_string, TypeOK, Control, Placed, Pointing
  <2> QED
    BY <1>5, <2>1, DropInner DEF parser_create_to_string, unref_pipeline
<1>6. CASE list_delete(t)
  BY <1>6, SameHolders DEF list_delete, objVars, lockVars, ptrVars
<1>7. CASE pipeline_deleter_stop(t)
  BY <1>7, SameHolders DEF pipeline_deleter_stop, objVars, lockVars, ptrVars
<1>8. CASE list_delete_link(t)
  <2>1. found[t] \in list
    BY <1>8 DEF list_delete_link, FoundListed
  <2> QED
    BY <1>8, <2>1, Unlist DEF list_delete_link, unref_pipeline
<1>9. CASE get_by_uri_pipeline(t)
  <2>1. inner[t] = None
    BY <1>9 DEF get_by_uri_pipeline, TypeOK, Control, Placed, Pointing
  <2>2. UNCHANGED <<node, list>>
    BY <1>9 DEF get_by_uri_pipeline
  <2>3. CASE \E p \in Named(req[t].name) :
               gref' = [gref EXCEPT ![p] = @ + 1] /\ inner' = [inner EXCEPT ![t] = p]
    BY <2>1, <2>2, <2>3, TakeInner DEF Named, TypeOK
  <2>4. CASE inner' = [inner EXCEPT ![t] = None] /\ UNCHANGED gref
    BY <2>1, <2>2, <2>4, SameHolders DEF TypeOK
  <2> QED
    BY <1>9, <2>3, <2>4 DEF get_by_uri_pipeline, list_find_child, RefChild
<1>10. CASE get_by_uri_state(t)
  <2>1. inner[t] \in Pipe
    BY <1>10 DEF get_by_uri_state, TypeOK, Control, Placed, Pointing
  <2> QED
    BY <1>10, <2>1, DropInner DEF get_by_uri_state, unref_pipeline
<1>11. CASE state_update(t)
  BY <1>11, SameHolders DEF state_update, objVars, lockVars, ptrVars
<1>12. CASE lock_session(t)
  BY <1>12, SameHolders DEF lock_session, objVars, lockVars, ptrVars
<1>13. CASE create_ref_lookup(t)
  <2>1. node[t] = None
    BY <1>13 DEF create_ref_lookup, TypeOK, Control, Placed, Pointing
  <2>2. UNCHANGED <<inner, list>>
    BY <1>13 DEF create_ref_lookup
  <2>3. CASE \E p \in Named(req[t].name) :
               gref' = [gref EXCEPT ![p] = @ + 1] /\ node' = [node EXCEPT ![t] = p]
    BY <2>1, <2>2, <2>3, TakeNode DEF Named, TypeOK
  <2>4. CASE node' = [node EXCEPT ![t] = None] /\ UNCHANGED gref
    BY <2>1, <2>2, <2>4, SameHolders DEF TypeOK
  <2> QED
    BY <1>13, <2>3, <2>4 DEF create_ref_lookup, list_find_child, RefChild
<1>14. CASE create_ref_relookup(t)
  <2>1. node[t] = None
    BY <1>14 DEF create_ref_relookup, TypeOK, Control, Placed, Pointing
  <2>2. UNCHANGED <<inner, list>>
    BY <1>14 DEF create_ref_relookup
  <2>3. CASE \E p \in Named(req[t].name) :
               gref' = [gref EXCEPT ![p] = @ + 1] /\ node' = [node EXCEPT ![t] = p]
    BY <2>1, <2>2, <2>3, TakeNode DEF Named, TypeOK
  <2>4. CASE node' = [node EXCEPT ![t] = None] /\ UNCHANGED gref
    BY <2>1, <2>2, <2>4, SameHolders DEF TypeOK
  <2> QED
    BY <1>14, <2>3, <2>4 DEF create_ref_relookup, list_find_child, RefChild
<1>15. CASE pipeline_increment_refcount(t)
  BY <1>15, SameHolders DEF pipeline_increment_refcount, objVars, lockVars,
     ptrVars
<1>16. CASE delete_ref_lookup(t)
  <2>1. node[t] = None
    BY <1>16 DEF delete_ref_lookup, TypeOK, Control, Placed, Pointing
  <2>2. UNCHANGED <<inner, list>>
    BY <1>16 DEF delete_ref_lookup
  <2>3. CASE \E p \in Named(req[t].name) :
               gref' = [gref EXCEPT ![p] = @ + 1] /\ node' = [node EXCEPT ![t] = p]
    BY <2>1, <2>2, <2>3, TakeNode DEF Named, TypeOK
  <2>4. CASE node' = [node EXCEPT ![t] = None] /\ UNCHANGED gref
    BY <2>1, <2>2, <2>4, SameHolders DEF TypeOK
  <2> QED
    BY <1>16, <2>3, <2>4 DEF delete_ref_lookup, list_find_child, RefChild
<1>17. CASE delete_ref_count(t)
  BY <1>17, SameHolders DEF delete_ref_count, objVars, lockVars, ptrVars
<1>18. CASE pipeline_decrement_refcount(t)
  BY <1>18, SameHolders DEF pipeline_decrement_refcount, objVars, lockVars,
     ptrVars
<1>19. CASE unlock_session(t)
  <2>1. CASE node[t] = None
    BY <1>19, <2>1, SameHolders DEF unlock_session, TypeOK
  <2>2. CASE node[t] # None
    <3>1. node[t] \in Pipe
      BY <2>2 DEF TypeOK
    <3> QED
      BY <1>19, <2>2, <3>1, DropNode DEF unlock_session, unref_pipeline
  <2> QED
    BY <2>1, <2>2
<1>20. CASE play_ref_pipeline_node(t)
  <2>1. node[t] = None
    BY <1>20 DEF play_ref_pipeline_node, TypeOK, Control, Placed, Pointing
  <2>2. UNCHANGED <<inner, list>>
    BY <1>20 DEF play_ref_pipeline_node
  <2>3. CASE \E p \in Named(req[t].name) :
               gref' = [gref EXCEPT ![p] = @ + 1] /\ node' = [node EXCEPT ![t] = p]
    BY <2>1, <2>2, <2>3, TakeNode DEF Named, TypeOK
  <2>4. CASE node' = [node EXCEPT ![t] = None] /\ UNCHANGED gref
    BY <2>1, <2>2, <2>4, SameHolders DEF TypeOK
  <2> QED
    BY <1>20, <2>3, <2>4 DEF play_ref_pipeline_node, list_find_child, RefChild
<1>21. CASE play_ref_lookup_again(t)
  <2>1. inner[t] = None
    BY <1>21 DEF play_ref_lookup_again, TypeOK, Control, Placed, Pointing
  <2>2. UNCHANGED <<node, list>>
    BY <1>21 DEF play_ref_lookup_again
  <2>3. CASE \E p \in Named(req[t].name) :
               gref' = [gref EXCEPT ![p] = @ + 1] /\ inner' = [inner EXCEPT ![t] = p]
    BY <2>1, <2>2, <2>3, TakeInner DEF Named, TypeOK
  <2>4. CASE inner' = [inner EXCEPT ![t] = None] /\ UNCHANGED gref
    BY <2>1, <2>2, <2>4, SameHolders DEF TypeOK
  <2> QED
    BY <1>21, <2>3, <2>4 DEF play_ref_lookup_again, list_find_child, RefChild
<1>22. CASE play_ref_state_node(t)
  <2>1. inner[t] \in Pipe
    BY <1>22 DEF play_ref_state_node, TypeOK, Control, Placed, Pointing
  <2> QED
    BY <1>22, <2>1, DropInner DEF play_ref_state_node, unref_pipeline
<1>23. CASE lock_pipeline(t)
  BY <1>23, SameHolders DEF lock_pipeline, objVars, lockVars, ptrVars
<1>24. CASE play_ref_count(t)
  BY <1>24, SameHolders DEF play_ref_count, objVars, lockVars, ptrVars
<1>25. CASE state_adjust_refcount(t)
  BY <1>25, SameHolders DEF state_adjust_refcount, objVars, lockVars, ptrVars
<1>26. CASE unlock_pipeline(t)
  BY <1>26, SameHolders DEF unlock_pipeline, objVars, lockVars, ptrVars
<1>27. CASE play_ref_return(t)
  <2>1. node[t] \in Pipe
    BY <1>27 DEF play_ref_return, TypeOK, Control, Placed, Pointing
  <2> QED
    BY <1>27, <2>1, DropNode DEF play_ref_return, unref_pipeline
<1> QED
  BY <1>1, <1>2, <1>3, <1>4, <1>5, <1>6, <1>7, <1>8, <1>9, <1>10, <1>11,
     <1>12, <1>13, <1>14, <1>15, <1>16, <1>17, <1>18, <1>19, <1>20, <1>21,
     <1>22, <1>23, <1>24, <1>25, <1>26, <1>27 DEF Serve

-----------------------------------------------------------------------------
(* The list. *)

\* Every step keeps deletions exclusive: one thread at most is inside the
\* deleter, and it holds the list lock.
LEMMA ExclusiveStep ==
  ASSUME TypeOK, Control, PipelineRefsExact, Exclusive, NEW t \in Thread, parser_parse_cmd(t) \/ Serve(t)
  PROVE  Exclusive'
<1>1. CASE parser_parse_cmd(t)
  BY <1>1 DEF parser_parse_cmd, Goto, FirstLabel, Request, objVars, lockVars,
     ptrVars, Exclusive, TypeOK, Control, Placed, Pointing
<1>2. CASE pipeline_creator_create(t)
  <2>1. ASSUME NEW p \in Free, inner' = [inner EXCEPT ![t] = p],
               pc' = [pc EXCEPT ![t] = "append"]
        PROVE  Exclusive'
    <3>1. p \notin list /\ \A u \in Thread : node[u] # p /\ inner[u] # p
      BY <2>1, UnheldWhenZero DEF Free
    <3> QED
      BY <1>2, <2>1, <3>1 DEF pipeline_creator_create, Exclusive, TypeOK
  <2>2. CASE Return(t, "BAD_DESCRIPTION") /\ UNCHANGED inner
    BY <1>2, <2>2 DEF pipeline_creator_create, Return, Finish, ReturnTo, Goto,
       Exclusive, TypeOK, Control, Placed
  <2> QED
    BY <1>2, <2>1, <2>2 DEF pipeline_creator_create, Goto
<1>3. CASE list_append_child(t)
  BY <1>3 DEF list_append_child, Goto, Return, Finish, ReturnTo, objVars,
     lockVars, ptrVars, Exclusive, TypeOK, Control, Placed, Pointing
<1>4. CASE parser_create_read(t)
  BY <1>4 DEF parser_create_read, Goto, Return, Finish, ReturnTo,
     list_find_child, Named, objVars, lockVars, ptrVars, Exclusive, TypeOK,
     Control, Placed, Pointing
<1>5. CASE parser_create_to_string(t)
  BY <1>5 DEF parser_create_to_string, Goto, Return, Finish, ReturnTo,
     objVars, lockVars, ptrVars, Exclusive, TypeOK, Control, Placed, Pointing
<1>6. CASE list_delete(t)
  BY <1>6 DEF list_delete, Goto, Return, Finish, ReturnTo, Named, objVars,
     lockVars, ptrVars, Exclusive, TypeOK, Control, Placed, Pointing
<1>7. CASE pipeline_deleter_stop(t)
  BY <1>7 DEF pipeline_deleter_stop, Goto, Return, Finish, ReturnTo, objVars,
     lockVars, ptrVars, Exclusive, TypeOK, Control, Placed, Pointing
<1>8. CASE list_delete_link(t)
  BY <1>8 DEF list_delete_link, Goto, Return, Finish, ReturnTo, objVars,
     lockVars, ptrVars, Exclusive, TypeOK, Control, Placed, Pointing
<1>9. CASE get_by_uri_pipeline(t)
  BY <1>9 DEF get_by_uri_pipeline, Goto, Return, Finish, ReturnTo,
     list_find_child, Named, objVars, lockVars, ptrVars, Exclusive, TypeOK,
     Control, Placed, Pointing
<1>10. CASE get_by_uri_state(t)
  BY <1>10 DEF get_by_uri_state, Goto, objVars, lockVars, ptrVars, Exclusive,
     TypeOK, Control, Placed, Pointing
<1>11. CASE state_update(t)
  BY <1>11 DEF state_update, Goto, Return, Finish, ReturnTo, objVars,
     lockVars, ptrVars, Exclusive, TypeOK, Control, Placed, Pointing
<1>12. CASE lock_session(t)
  BY <1>12 DEF lock_session, Goto, objVars, lockVars, ptrVars, Exclusive,
     TypeOK, Control, Placed, Pointing
<1>13. CASE create_ref_lookup(t)
  BY <1>13 DEF create_ref_lookup, Goto, list_find_child, Named, objVars,
     lockVars, ptrVars, Exclusive, TypeOK, Control, Placed, Pointing
<1>14. CASE create_ref_relookup(t)
  BY <1>14 DEF create_ref_relookup, Goto, list_find_child, Named, objVars,
     lockVars, ptrVars, Exclusive, TypeOK, Control, Placed, Pointing
<1>15. CASE pipeline_increment_refcount(t)
  BY <1>15 DEF pipeline_increment_refcount, Goto, objVars, lockVars, ptrVars,
     Exclusive, TypeOK, Control, Placed, Pointing
<1>16. CASE delete_ref_lookup(t)
  BY <1>16 DEF delete_ref_lookup, Goto, list_find_child, Named, objVars,
     lockVars, ptrVars, Exclusive, TypeOK, Control, Placed, Pointing
<1>17. CASE delete_ref_count(t)
  BY <1>17 DEF delete_ref_count, Goto, objVars, lockVars, ptrVars, Exclusive,
     TypeOK, Control, Placed, Pointing
<1>18. CASE pipeline_decrement_refcount(t)
  BY <1>18 DEF pipeline_decrement_refcount, Goto, objVars, lockVars, ptrVars,
     Exclusive, TypeOK, Control, Placed, Pointing
<1>19. CASE unlock_session(t)
  BY <1>19 DEF unlock_session, Goto, Finish, objVars, lockVars, ptrVars,
     Exclusive, TypeOK, Control, Placed, Pointing
<1>20. CASE play_ref_pipeline_node(t)
  BY <1>20 DEF play_ref_pipeline_node, Goto, Finish, list_find_child, Named,
     objVars, lockVars, ptrVars, Exclusive, TypeOK, Control, Placed, Pointing
<1>21. CASE play_ref_lookup_again(t)
  BY <1>21 DEF play_ref_lookup_again, Goto, list_find_child, Named, objVars,
     lockVars, ptrVars, Exclusive, TypeOK, Control, Placed, Pointing
<1>22. CASE play_ref_state_node(t)
  BY <1>22 DEF play_ref_state_node, Goto, objVars, lockVars, ptrVars,
     Exclusive, TypeOK, Control, Placed, Pointing
<1>23. CASE lock_pipeline(t)
  BY <1>23 DEF lock_pipeline, Goto, objVars, lockVars, ptrVars, Exclusive,
     TypeOK, Control, Placed, Pointing
<1>24. CASE play_ref_count(t)
  BY <1>24 DEF play_ref_count, Goto, objVars, lockVars, ptrVars, Exclusive,
     TypeOK, Control, Placed, Pointing
<1>25. CASE state_adjust_refcount(t)
  BY <1>25 DEF state_adjust_refcount, Goto, objVars, lockVars, ptrVars,
     Exclusive, TypeOK, Control, Placed, Pointing
<1>26. CASE unlock_pipeline(t)
  BY <1>26 DEF unlock_pipeline, Goto, objVars, lockVars, ptrVars, Exclusive,
     TypeOK, Control, Placed, Pointing
<1>27. CASE play_ref_return(t)
  BY <1>27 DEF play_ref_return, Goto, Finish, objVars, lockVars, ptrVars,
     Exclusive, TypeOK, Control, Placed, Pointing
<1> QED
  BY <1>1, <1>2, <1>3, <1>4, <1>5, <1>6, <1>7, <1>8, <1>9, <1>10, <1>11,
     <1>12, <1>13, <1>14, <1>15, <1>16, <1>17, <1>18, <1>19, <1>20, <1>21,
     <1>22, <1>23, <1>24, <1>25, <1>26, <1>27 DEF Serve

\* What a deletion found stays on the list until the deletion unlinks it.
LEMMA FoundListedStep ==
  ASSUME TypeOK, Control, FoundListed, NEW t \in Thread, parser_parse_cmd(t) \/ Serve(t)
  PROVE  FoundListed'
<1>1. CASE parser_parse_cmd(t)
  BY <1>1 DEF parser_parse_cmd, Goto, FirstLabel, Request, objVars, lockVars,
     ptrVars, FoundListed, TypeOK, Control, Placed, Pointing, Locking
<1>2. CASE pipeline_creator_create(t)
  BY <1>2 DEF pipeline_creator_create, Goto, Return, Finish, ReturnTo,
     objVars, lockVars, ptrVars, FoundListed, TypeOK, Control, Placed,
     Pointing, Locking
<1>3. CASE list_append_child(t)
  BY <1>3 DEF list_append_child, Goto, Return, Finish, ReturnTo, objVars,
     lockVars, ptrVars, FoundListed, TypeOK, Control, Placed, Pointing,
     Locking
<1>4. CASE parser_create_read(t)
  BY <1>4 DEF parser_create_read, Goto, Return, Finish, ReturnTo, Named,
     objVars, lockVars, ptrVars, FoundListed, TypeOK, Control, Placed,
     Pointing, Locking
<1>5. CASE parser_create_to_string(t)
  BY <1>5 DEF parser_create_to_string, Goto, Return, Finish, ReturnTo,
     objVars, lockVars, ptrVars, FoundListed, TypeOK, Control, Placed,
     Pointing, Locking
<1>6. CASE list_delete(t)
  BY <1>6 DEF list_delete, Goto, Return, Finish, ReturnTo, Named, objVars,
     lockVars, ptrVars, FoundListed, TypeOK, Control, Placed, Pointing,
     Locking
<1>7. CASE pipeline_deleter_stop(t)
  BY <1>7 DEF pipeline_deleter_stop, Goto, Return, Finish, ReturnTo, objVars,
     lockVars, ptrVars, FoundListed, TypeOK, Control, Placed, Pointing,
     Locking
<1>8. CASE list_delete_link(t)
  BY <1>8 DEF list_delete_link, Goto, Return, Finish, ReturnTo, objVars,
     lockVars, ptrVars, FoundListed, TypeOK, Control, Placed, Pointing,
     Locking
<1>9. CASE get_by_uri_pipeline(t)
  BY <1>9 DEF get_by_uri_pipeline, Goto, Return, Finish, ReturnTo, Named,
     objVars, lockVars, ptrVars, FoundListed, TypeOK, Control, Placed,
     Pointing, Locking
<1>10. CASE get_by_uri_state(t)
  BY <1>10 DEF get_by_uri_state, Goto, objVars, lockVars, ptrVars,
     FoundListed, TypeOK, Control, Placed, Pointing, Locking
<1>11. CASE state_update(t)
  BY <1>11 DEF state_update, Goto, Return, Finish, ReturnTo, objVars,
     lockVars, ptrVars, FoundListed, TypeOK, Control, Placed, Pointing,
     Locking
<1>12. CASE lock_session(t)
  BY <1>12 DEF lock_session, Goto, objVars, lockVars, ptrVars, FoundListed,
     TypeOK, Control, Placed, Pointing, Locking
<1>13. CASE create_ref_lookup(t)
  BY <1>13 DEF create_ref_lookup, Goto, Named, objVars, lockVars, ptrVars,
     FoundListed, TypeOK, Control, Placed, Pointing, Locking
<1>14. CASE create_ref_relookup(t)
  BY <1>14 DEF create_ref_relookup, Goto, Named, objVars, lockVars, ptrVars,
     FoundListed, TypeOK, Control, Placed, Pointing, Locking
<1>15. CASE pipeline_increment_refcount(t)
  BY <1>15 DEF pipeline_increment_refcount, Goto, objVars, lockVars, ptrVars,
     FoundListed, TypeOK, Control, Placed, Pointing, Locking
<1>16. CASE delete_ref_lookup(t)
  BY <1>16 DEF delete_ref_lookup, Goto, Named, objVars, lockVars, ptrVars,
     FoundListed, TypeOK, Control, Placed, Pointing, Locking
<1>17. CASE delete_ref_count(t)
  BY <1>17 DEF delete_ref_count, Goto, objVars, lockVars, ptrVars,
     FoundListed, TypeOK, Control, Placed, Pointing, Locking
<1>18. CASE pipeline_decrement_refcount(t)
  BY <1>18 DEF pipeline_decrement_refcount, Goto, objVars, lockVars, ptrVars,
     FoundListed, TypeOK, Control, Placed, Pointing, Locking
<1>19. CASE unlock_session(t)
  BY <1>19 DEF unlock_session, Goto, Finish, objVars, lockVars, ptrVars,
     FoundListed, TypeOK, Control, Placed, Pointing, Locking
<1>20. CASE play_ref_pipeline_node(t)
  BY <1>20 DEF play_ref_pipeline_node, Goto, Finish, Named, objVars, lockVars,
     ptrVars, FoundListed, TypeOK, Control, Placed, Pointing, Locking
<1>21. CASE play_ref_lookup_again(t)
  BY <1>21 DEF play_ref_lookup_again, Goto, Named, objVars, lockVars, ptrVars,
     FoundListed, TypeOK, Control, Placed, Pointing, Locking
<1>22. CASE play_ref_state_node(t)
  BY <1>22 DEF play_ref_state_node, Goto, objVars, lockVars, ptrVars,
     FoundListed, TypeOK, Control, Placed, Pointing, Locking
<1>23. CASE lock_pipeline(t)
  BY <1>23 DEF lock_pipeline, Goto, objVars, lockVars, ptrVars, FoundListed,
     TypeOK, Control, Placed, Pointing, Locking
<1>24. CASE play_ref_count(t)
  BY <1>24 DEF play_ref_count, Goto, objVars, lockVars, ptrVars, FoundListed,
     TypeOK, Control, Placed, Pointing, Locking
<1>25. CASE state_adjust_refcount(t)
  BY <1>25 DEF state_adjust_refcount, Goto, objVars, lockVars, ptrVars,
     FoundListed, TypeOK, Control, Placed, Pointing, Locking
<1>26. CASE unlock_pipeline(t)
  BY <1>26 DEF unlock_pipeline, Goto, objVars, lockVars, ptrVars, FoundListed,
     TypeOK, Control, Placed, Pointing, Locking
<1>27. CASE play_ref_return(t)
  BY <1>27 DEF play_ref_return, Goto, Finish, objVars, lockVars, ptrVars,
     FoundListed, TypeOK, Control, Placed, Pointing, Locking
<1> QED
  BY <1>1, <1>2, <1>3, <1>4, <1>5, <1>6, <1>7, <1>8, <1>9, <1>10, <1>11,
     <1>12, <1>13, <1>14, <1>15, <1>16, <1>17, <1>18, <1>19, <1>20, <1>21,
     <1>22, <1>23, <1>24, <1>25, <1>26, <1>27 DEF Serve

\* A pipeline created and not yet listed has the requested name and is not on
\* the list.
LEMMA CreatedNameStep ==
  ASSUME TypeOK, Control, PipelineRefsExact, CreatedName, NEW t \in Thread, parser_parse_cmd(t) \/ Serve(t)
  PROVE  CreatedName'
<1>1. CASE parser_parse_cmd(t)
  BY <1>1 DEF parser_parse_cmd, Goto, FirstLabel, Request, objVars, lockVars,
     ptrVars, CreatedName, TypeOK, Control, Placed, Pointing
<1>2. CASE pipeline_creator_create(t)
  <2>1. ASSUME NEW p \in Free, name' = [name EXCEPT ![p] = req[t].name],
               inner' = [inner EXCEPT ![t] = p], UNCHANGED req,
               pc' = [pc EXCEPT ![t] = "append"]
        PROVE  CreatedName'
    <3>1. \A u \in Thread : inner[u] # p
      BY <2>1, UnheldWhenZero DEF Free
    <3> QED
      BY <2>1, <3>1 DEF Free, CreatedName, TypeOK
  <2>2. CASE Return(t, "BAD_DESCRIPTION") /\ UNCHANGED <<objVars, inner>>
    BY <1>2, <2>2 DEF pipeline_creator_create, Return, Finish, ReturnTo, Goto,
       objVars, CreatedName, TypeOK, Control, Placed
  <2> QED
    BY <1>2, <2>1, <2>2 DEF pipeline_creator_create, Goto
<1>3. CASE list_append_child(t)
  BY <1>3 DEF list_append_child, Goto, Return, Finish, ReturnTo, objVars,
     lockVars, ptrVars, CreatedName, TypeOK, Control, Placed, Pointing
<1>4. CASE parser_create_read(t)
  BY <1>4 DEF parser_create_read, Goto, Return, Finish, ReturnTo,
     list_find_child, Named, objVars, lockVars, ptrVars, CreatedName, TypeOK,
     Control, Placed, Pointing
<1>5. CASE parser_create_to_string(t)
  BY <1>5 DEF parser_create_to_string, Goto, Return, Finish, ReturnTo,
     objVars, lockVars, ptrVars, CreatedName, TypeOK, Control, Placed,
     Pointing
<1>6. CASE list_delete(t)
  BY <1>6 DEF list_delete, Goto, Return, Finish, ReturnTo, Named, objVars,
     lockVars, ptrVars, CreatedName, TypeOK, Control, Placed, Pointing
<1>7. CASE pipeline_deleter_stop(t)
  BY <1>7 DEF pipeline_deleter_stop, Goto, Return, Finish, ReturnTo, objVars,
     lockVars, ptrVars, CreatedName, TypeOK, Control, Placed, Pointing
<1>8. CASE list_delete_link(t)
  BY <1>8 DEF list_delete_link, Goto, Return, Finish, ReturnTo, objVars,
     lockVars, ptrVars, CreatedName, TypeOK, Control, Placed, Pointing
<1>9. CASE get_by_uri_pipeline(t)
  BY <1>9 DEF get_by_uri_pipeline, Goto, Return, Finish, ReturnTo,
     list_find_child, Named, objVars, lockVars, ptrVars, CreatedName, TypeOK,
     Control, Placed, Pointing
<1>10. CASE get_by_uri_state(t)
  BY <1>10 DEF get_by_uri_state, Goto, objVars, lockVars, ptrVars,
     CreatedName, TypeOK, Control, Placed, Pointing
<1>11. CASE state_update(t)
  BY <1>11 DEF state_update, Goto, Return, Finish, ReturnTo, objVars,
     lockVars, ptrVars, CreatedName, TypeOK, Control, Placed, Pointing
<1>12. CASE lock_session(t)
  BY <1>12 DEF lock_session, Goto, objVars, lockVars, ptrVars, CreatedName,
     TypeOK, Control, Placed, Pointing
<1>13. CASE create_ref_lookup(t)
  BY <1>13 DEF create_ref_lookup, Goto, list_find_child, Named, objVars,
     lockVars, ptrVars, CreatedName, TypeOK, Control, Placed, Pointing
<1>14. CASE create_ref_relookup(t)
  BY <1>14 DEF create_ref_relookup, Goto, list_find_child, Named, objVars,
     lockVars, ptrVars, CreatedName, TypeOK, Control, Placed, Pointing
<1>15. CASE pipeline_increment_refcount(t)
  BY <1>15 DEF pipeline_increment_refcount, Goto, objVars, lockVars, ptrVars,
     CreatedName, TypeOK, Control, Placed, Pointing
<1>16. CASE delete_ref_lookup(t)
  BY <1>16 DEF delete_ref_lookup, Goto, list_find_child, Named, objVars,
     lockVars, ptrVars, CreatedName, TypeOK, Control, Placed, Pointing
<1>17. CASE delete_ref_count(t)
  BY <1>17 DEF delete_ref_count, Goto, objVars, lockVars, ptrVars,
     CreatedName, TypeOK, Control, Placed, Pointing
<1>18. CASE pipeline_decrement_refcount(t)
  BY <1>18 DEF pipeline_decrement_refcount, Goto, objVars, lockVars, ptrVars,
     CreatedName, TypeOK, Control, Placed, Pointing
<1>19. CASE unlock_session(t)
  BY <1>19 DEF unlock_session, Goto, Finish, objVars, lockVars, ptrVars,
     CreatedName, TypeOK, Control, Placed, Pointing
<1>20. CASE play_ref_pipeline_node(t)
  BY <1>20 DEF play_ref_pipeline_node, Goto, Finish, list_find_child, Named,
     objVars, lockVars, ptrVars, CreatedName, TypeOK, Control, Placed,
     Pointing
<1>21. CASE play_ref_lookup_again(t)
  BY <1>21 DEF play_ref_lookup_again, Goto, list_find_child, Named, objVars,
     lockVars, ptrVars, CreatedName, TypeOK, Control, Placed, Pointing
<1>22. CASE play_ref_state_node(t)
  BY <1>22 DEF play_ref_state_node, Goto, objVars, lockVars, ptrVars,
     CreatedName, TypeOK, Control, Placed, Pointing
<1>23. CASE lock_pipeline(t)
  BY <1>23 DEF lock_pipeline, Goto, objVars, lockVars, ptrVars, CreatedName,
     TypeOK, Control, Placed, Pointing
<1>24. CASE play_ref_count(t)
  BY <1>24 DEF play_ref_count, Goto, objVars, lockVars, ptrVars, CreatedName,
     TypeOK, Control, Placed, Pointing
<1>25. CASE state_adjust_refcount(t)
  BY <1>25 DEF state_adjust_refcount, Goto, objVars, lockVars, ptrVars,
     CreatedName, TypeOK, Control, Placed, Pointing
<1>26. CASE unlock_pipeline(t)
  BY <1>26 DEF unlock_pipeline, Goto, objVars, lockVars, ptrVars, CreatedName,
     TypeOK, Control, Placed, Pointing
<1>27. CASE play_ref_return(t)
  BY <1>27 DEF play_ref_return, Goto, Finish, objVars, lockVars, ptrVars,
     CreatedName, TypeOK, Control, Placed, Pointing
<1> QED
  BY <1>1, <1>2, <1>3, <1>4, <1>5, <1>6, <1>7, <1>8, <1>9, <1>10, <1>11,
     <1>12, <1>13, <1>14, <1>15, <1>16, <1>17, <1>18, <1>19, <1>20, <1>21,
     <1>22, <1>23, <1>24, <1>25, <1>26, <1>27 DEF Serve

\* Every step keeps the names on the list unique and the count its length.
LEMMA NamesStep ==
  ASSUME TypeOK, Control, PipelineRefsExact, Exclusive, FoundListed, CreatedName,
         UniqueNames, NEW t \in Thread, parser_parse_cmd(t) \/ Serve(t)
  PROVE  UniqueNames'
<1>1. CASE parser_parse_cmd(t)
  BY <1>1 DEF parser_parse_cmd, objVars, lockVars, ptrVars, UniqueNames
<1>2. CASE pipeline_creator_create(t)
  <2>1. ASSUME NEW p \in Free, name' = [name EXCEPT ![p] = req[t].name]
        PROVE  UniqueNames'
    <3>1. p \notin list
      BY <2>1, UnheldWhenZero DEF Free
    <3> QED
      BY <1>2, <2>1, <3>1 DEF pipeline_creator_create, UniqueNames, TypeOK
  <2>2. CASE UNCHANGED name
    BY <1>2, <2>2 DEF pipeline_creator_create, UniqueNames
  <2> QED
    BY <1>2, <2>1, <2>2 DEF pipeline_creator_create, objVars
<1>3. CASE list_append_child(t)
  <2>1. inner[t] \in Pipe /\ inner[t] \notin list /\ IsFiniteSet(list)
    BY <1>3, FS_Subset DEF list_append_child, TypeOK, Control, Pointing, Exclusive
  <2>2. Cardinality(list \cup {inner[t]}) = Cardinality(list) + 1
    BY <2>1, FS_AddElement
  <2>3. CASE NameTaken(req[t].name)
    BY <1>3, <2>3 DEF list_append_child, UniqueNames
  <2>4. CASE ~NameTaken(req[t].name)
    <3>1. name[inner[t]] = req[t].name
      BY <1>3 DEF list_append_child, CreatedName
    <3> QED
      BY <1>3, <2>2, <2>4, <3>1 DEF list_append_child, NameTaken, Named, UniqueNames
  <2> QED
    BY <2>3, <2>4
<1>4. CASE parser_create_read(t)
  BY <1>4 DEF parser_create_read, objVars, lockVars, ptrVars, UniqueNames
<1>5. CASE parser_create_to_string(t)
  BY <1>5 DEF parser_create_to_string, objVars, lockVars, ptrVars, UniqueNames
<1>6. CASE list_delete(t)
  BY <1>6 DEF list_delete, objVars, lockVars, ptrVars, UniqueNames
<1>7. CASE pipeline_deleter_stop(t)
  BY <1>7 DEF pipeline_deleter_stop, objVars, lockVars, ptrVars, UniqueNames
<1>8. CASE list_delete_link(t)
  <2>1. found[t] \in list /\ IsFiniteSet(list)
    BY <1>8, FS_Subset DEF list_delete_link, FoundListed, TypeOK
  <2>2. Cardinality(list \ {found[t]}) = Cardinality(list) - 1
    BY <2>1, FS_RemoveElement
  <2> QED
    BY <1>8, <2>2 DEF list_delete_link, UniqueNames
<1>9. CASE get_by_uri_pipeline(t)
  BY <1>9 DEF get_by_uri_pipeline, objVars, lockVars, ptrVars, UniqueNames
<1>10. CASE get_by_uri_state(t)
  BY <1>10 DEF get_by_uri_state, objVars, lockVars, ptrVars, UniqueNames
<1>11. CASE state_update(t)
  BY <1>11 DEF state_update, objVars, lockVars, ptrVars, UniqueNames
<1>12. CASE lock_session(t)
  BY <1>12 DEF lock_session, objVars, lockVars, ptrVars, UniqueNames
<1>13. CASE create_ref_lookup(t)
  BY <1>13 DEF create_ref_lookup, objVars, lockVars, ptrVars, UniqueNames
<1>14. CASE create_ref_relookup(t)
  BY <1>14 DEF create_ref_relookup, objVars, lockVars, ptrVars, UniqueNames
<1>15. CASE pipeline_increment_refcount(t)
  BY <1>15 DEF pipeline_increment_refcount, objVars, lockVars, ptrVars,
     UniqueNames
<1>16. CASE delete_ref_lookup(t)
  BY <1>16 DEF delete_ref_lookup, objVars, lockVars, ptrVars, UniqueNames
<1>17. CASE delete_ref_count(t)
  BY <1>17 DEF delete_ref_count, objVars, lockVars, ptrVars, UniqueNames
<1>18. CASE pipeline_decrement_refcount(t)
  BY <1>18 DEF pipeline_decrement_refcount, objVars, lockVars, ptrVars,
     UniqueNames
<1>19. CASE unlock_session(t)
  BY <1>19 DEF unlock_session, objVars, lockVars, ptrVars, UniqueNames
<1>20. CASE play_ref_pipeline_node(t)
  BY <1>20 DEF play_ref_pipeline_node, objVars, lockVars, ptrVars, UniqueNames
<1>21. CASE play_ref_lookup_again(t)
  BY <1>21 DEF play_ref_lookup_again, objVars, lockVars, ptrVars, UniqueNames
<1>22. CASE play_ref_state_node(t)
  BY <1>22 DEF play_ref_state_node, objVars, lockVars, ptrVars, UniqueNames
<1>23. CASE lock_pipeline(t)
  BY <1>23 DEF lock_pipeline, objVars, lockVars, ptrVars, UniqueNames
<1>24. CASE play_ref_count(t)
  BY <1>24 DEF play_ref_count, objVars, lockVars, ptrVars, UniqueNames
<1>25. CASE state_adjust_refcount(t)
  BY <1>25 DEF state_adjust_refcount, objVars, lockVars, ptrVars, UniqueNames
<1>26. CASE unlock_pipeline(t)
  BY <1>26 DEF unlock_pipeline, objVars, lockVars, ptrVars, UniqueNames
<1>27. CASE play_ref_return(t)
  BY <1>27 DEF play_ref_return, objVars, lockVars, ptrVars, UniqueNames
<1> QED
  BY <1>1, <1>2, <1>3, <1>4, <1>5, <1>6, <1>7, <1>8, <1>9, <1>10, <1>11,
     <1>12, <1>13, <1>14, <1>15, <1>16, <1>17, <1>18, <1>19, <1>20, <1>21,
     <1>22, <1>23, <1>24, <1>25, <1>26, <1>27 DEF Serve

-----------------------------------------------------------------------------
(* Theorems. *)

\* The daemon starts in the inductive invariant.
LEMMA InitInv == Init => IInv
<1> SUFFICES ASSUME Init PROVE IInv
  OBVIOUS
<1>1. TypeOK /\ Control
  BY InitType, InitControl
<1>2. \A p \in Pipe : Holders(p) = {}
  BY DEF Init, Holders
<1>3. PipelineRefsExact
  BY <1>2, FS_EmptySet DEF PipelineRefsExact, Init
<1>4. UniqueNames
  BY FS_EmptySet DEF UniqueNames, Init
<1> QED
  BY <1>1, <1>3, <1>4 DEF Init, IInv, Exclusive, FoundListed, CreatedName

\* Every step of every thread keeps the inductive invariant.
LEMMA NextInv == IInv /\ [Next]_vars => IInv'
<1> SUFFICES ASSUME IInv, [Next]_vars PROVE IInv'
  OBVIOUS
<1>1. ASSUME NEW t \in Thread, parser_parse_cmd(t) \/ Serve(t)
      PROVE  IInv'
  <2>1. TypeOK'
    BY <1>1, TypeStep DEF IInv
  <2>2. Control'
    BY <1>1, <2>1, ControlStep DEF IInv
  <2>3. PipelineRefsExact'
    BY <1>1, RefsStep DEF IInv
  <2>4. Exclusive' /\ FoundListed' /\ CreatedName'
    BY <1>1, ExclusiveStep, FoundListedStep, CreatedNameStep DEF IInv
  <2>5. UniqueNames'
    BY <1>1, NamesStep DEF IInv
  <2> QED
    BY <2>1, <2>2, <2>3, <2>4, <2>5 DEF IInv
<1>2. CASE UNCHANGED vars
  BY <1>2 DEF vars, objVars, lockVars, ptrVars, clientVars, IInv, TypeOK, Control,
     Placed, Pointing, Locking, PipelineRefsExact, Holders, Exclusive,
     FoundListed, CreatedName, UniqueNames
<1> QED
  BY <1>1, <1>2 DEF Next

\* The inductive invariant of the registry holds in every reachable state, for
\* any number of threads, names, descriptions and pipelines.
THEOREM Invariance == Spec => []IInv
BY InitInv, NextInv, PTL DEF Spec

\* Every reachable state is well typed: in particular the two refcounts of a
\* pipeline, which the code keeps in unsigned integers, never go below zero.
THEOREM TypeCorrect == Spec => []TypeOK
<1>1. IInv => TypeOK
  BY DEF IInv
<1> QED
  BY Invariance, <1>1, PTL

\* Whatever requests are mixed and however threads interleave, names in the
\* list stay unique and its count stays the number of its members.
THEOREM NamesUnique == Spec => []UniqueNames
<1>1. IInv => UniqueNames
  BY DEF IInv
<1> QED
  BY Invariance, <1>1, PTL

\* The GObject count of every pipeline is the number of pointers to it: none
\* is used after it was disposed, none is left undisposed.
THEOREM PipelineRefsCounted == Spec => []PipelineRefsExact
<1>1. IInv => PipelineRefsExact
  BY DEF IInv
<1> QED
  BY Invariance, <1>1, PTL

-----------------------------------------------------------------------------
(* References to states: counting. *)

\* The threads whose pointer, one of those the threads keep, is to p.
Pointers(f, p) == {t \in Thread : f[t] = p}

\* The reference a pipeline that lives holds to its state.
Own(p) == IF gref[p] > 0 THEN 1 ELSE 0

\* How many references to the state at p there are beyond the ones somebody
\* holds: those failed deletions leaked.
Slack(p) ==
  sgref[p] - (Cardinality(Pointers(snode, p)) + Cardinality(Pointers(isnode, p))
              + Cardinality(Pointers(found, p)) + Own(p))

\* No state has too few references, and without faults none has too many.
SlackOK == \A p \in Pipe : Slack(p) >= 0 /\ (~Faults => Slack(p) = 0)

\* Finitely many threads point to p.
LEMMA PointersFinite ==
  ASSUME NEW f, NEW p
  PROVE  IsFiniteSet(Pointers(f, p)) /\ Cardinality(Pointers(f, p)) \in Nat
<1>1. IsFiniteSet(Pointers(f, p))
  BY FS_Subset DEF Pointers
<1> QED
  BY <1>1, FS_CardinalityType

\* A thread whose pointer was empty makes it one to p.
LEMMA PointerTaken ==
  ASSUME NEW f, NEW g, NEW t \in Thread, NEW p \in Pipe, f[t] = None, g[t] = p,
         \A u \in Thread \ {t} : g[u] = f[u], NEW q \in Pipe
  PROVE  Cardinality(Pointers(g, q)) =
           Cardinality(Pointers(f, q)) + (IF q = p THEN 1 ELSE 0)
<1>1. CASE q = p
  <2>1. t \notin Pointers(f, q) /\ Pointers(g, q) = Pointers(f, q) \cup {t}
    BY <1>1 DEF Pointers
  <2>2. Cardinality(Pointers(f, q) \cup {t}) = Cardinality(Pointers(f, q)) + 1
    BY <2>1, PointersFinite, FS_AddElement
  <2> QED
    BY <1>1, <2>1, <2>2
<1>2. CASE q # p
  <2>1. Pointers(g, q) = Pointers(f, q)
    BY <1>2 DEF Pointers
  <2> QED
    BY <1>2, <2>1, PointersFinite
<1> QED
  BY <1>1, <1>2

\* A thread that points to p empties its pointer.
LEMMA PointerDropped ==
  ASSUME NEW f, NEW g, NEW t \in Thread, NEW p \in Pipe, f[t] = p, g[t] = None,
         \A u \in Thread \ {t} : g[u] = f[u], NEW q \in Pipe
  PROVE  Cardinality(Pointers(g, q)) =
           Cardinality(Pointers(f, q)) - (IF q = p THEN 1 ELSE 0)
<1>1. CASE q = p
  <2>1. t \in Pointers(f, q) /\ Pointers(g, q) = Pointers(f, q) \ {t}
    BY <1>1 DEF Pointers
  <2>2. Cardinality(Pointers(f, q) \ {t}) = Cardinality(Pointers(f, q)) - 1
    BY <2>1, PointersFinite, FS_RemoveElement
  <2> QED
    BY <1>1, <2>1, <2>2
<1>2. CASE q # p
  <2>1. Pointers(g, q) = Pointers(f, q)
    BY <1>2 DEF Pointers
  <2> QED
    BY <1>2, <2>1, PointersFinite
<1> QED
  BY <1>1, <1>2

\* The holders of a kind are as many as the pointers of that kind.
LEMMA TaggedCount ==
  ASSUME NEW S, IsFiniteSet(S), NEW k
  PROVE  IsFiniteSet(S \X {k}) /\ Cardinality(S \X {k}) = Cardinality(S)
<1>1. IsFiniteSet({k}) /\ Cardinality({k}) = 1
  BY FS_Singleton
<1>2. IsFiniteSet(S \X {k}) /\ Cardinality(S \X {k}) = Cardinality(S) * Cardinality({k})
  BY <1>1, FS_Product
<1>3. Cardinality(S) \in Nat
  BY FS_CardinalityType
<1> QED
  BY <1>1, <1>2, <1>3

\* Disjoint finite sets count together.
LEMMA DisjointCount ==
  ASSUME NEW A, NEW B, IsFiniteSet(A), IsFiniteSet(B), A \cap B = {}
  PROVE  IsFiniteSet(A \cup B) /\ Cardinality(A \cup B) = Cardinality(A) + Cardinality(B)
<1>1. Cardinality(A) \in Nat /\ Cardinality(B) \in Nat
  BY FS_CardinalityType
<1>2. Cardinality(A \cap B) = 0
  BY FS_EmptySet
<1>3. /\ IsFiniteSet(A \cup B)
      /\ Cardinality(A \cup B) = Cardinality(A) + Cardinality(B) - Cardinality(A \cap B)
  BY FS_Union
<1> QED
  BY <1>1, <1>2, <1>3

\* The holders of a state are its pointers and, while it lives, its pipeline.
LEMMA StateHoldersCount ==
  ASSUME NEW p \in Pipe
  PROVE  Cardinality(StateHolders(p)) =
           Cardinality(Pointers(snode, p)) + Cardinality(Pointers(isnode, p))
           + Cardinality(Pointers(found, p)) + Own(p)
<1> DEFINE S == Pointers(snode, p) \X {"snode"}
           I == Pointers(isnode, p) \X {"isnode"}
           F == Pointers(found, p) \X {"deleter"}
           G == IF gref[p] > 0 THEN {<<None, "pipeline">>} ELSE {}
<1>1. StateHolders(p) = ((S \cup I) \cup F) \cup G
  BY DEF StateHolders, Pointers
<1>2. /\ IsFiniteSet(S) /\ Cardinality(S) = Cardinality(Pointers(snode, p))
      /\ IsFiniteSet(I) /\ Cardinality(I) = Cardinality(Pointers(isnode, p))
      /\ IsFiniteSet(F) /\ Cardinality(F) = Cardinality(Pointers(found, p))
  BY PointersFinite, TaggedCount
<1>3. IsFiniteSet(G) /\ Cardinality(G) = Own(p)
  BY FS_Singleton, FS_EmptySet DEF Own
<1>4. S \cap I = {} /\ (S \cup I) \cap F = {} /\ ((S \cup I) \cup F) \cap G = {}
  OBVIOUS
<1> HIDE DEF S, I, F, G
<1>5. IsFiniteSet(S \cup I) /\ Cardinality(S \cup I) = Cardinality(S) + Cardinality(I)
  BY <1>2, <1>4, DisjointCount
<1>6. /\ IsFiniteSet((S \cup I) \cup F)
      /\ Cardinality((S \cup I) \cup F) = Cardinality(S \cup I) + Cardinality(F)
  BY <1>2, <1>4, <1>5, DisjointCount
<1>7. Cardinality(((S \cup I) \cup F) \cup G) = Cardinality((S \cup I) \cup F) + Cardinality(G)
  BY <1>3, <1>4, <1>6, DisjointCount
<1> QED
  BY <1>1, <1>2, <1>3, <1>5, <1>6, <1>7

\* The invariant in terms of the slack.
LEMMA SlackExact == TypeOK => (StateRefsExact <=> SlackOK)
<1> SUFFICES ASSUME TypeOK, NEW p \in Pipe
             PROVE  /\ sgref[p] >= Cardinality(StateHolders(p)) <=> Slack(p) >= 0
                    /\ sgref[p] = Cardinality(StateHolders(p)) <=> Slack(p) = 0
  BY DEF StateRefsExact, SlackOK
<1>1. /\ Cardinality(Pointers(snode, p)) \in Nat /\ Cardinality(Pointers(isnode, p)) \in Nat
      /\ Cardinality(Pointers(found, p)) \in Nat
  BY PointersFinite
<1>2. sgref[p] \in Int /\ Own(p) \in Nat
  BY DEF TypeOK, Own
<1> QED
  BY <1>1, <1>2, StateHoldersCount DEF Slack

\* What is in somebody's hands is alive.
LEMMA HeldAlive ==
  ASSUME TypeOK, PipelineRefsExact, NEW p \in Pipe,
         p \in list \/ \E t \in Thread : node[t] = p \/ inner[t] = p
  PROVE  gref[p] \in Nat /\ gref[p] > 0
<1>1. gref[p] \in Nat
  BY HoldersFinite DEF PipelineRefsExact
<1>2. gref[p] # 0
  BY UnheldWhenZero
<1> QED
  BY <1>1, <1>2

-----------------------------------------------------------------------------
(* References to states: what a step does to the slack. *)

\* The slack is a number, before and after a step.
LEMMA SlackInt ==
  ASSUME TypeOK
  PROVE  \A q \in Pipe :
           /\ Cardinality(Pointers(snode, q)) \in Nat /\ Cardinality(Pointers(isnode, q)) \in Nat
           /\ Cardinality(Pointers(found, q)) \in Nat
           /\ sgref[q] \in Int /\ Own(q) \in 0..1 /\ Slack(q) \in Int
<1> SUFFICES ASSUME NEW q \in Pipe
             PROVE  /\ Cardinality(Pointers(snode, q)) \in Nat
                    /\ Cardinality(Pointers(isnode, q)) \in Nat
                    /\ Cardinality(Pointers(found, q)) \in Nat
                    /\ sgref[q] \in Int /\ Own(q) \in 0..1 /\ Slack(q) \in Int
  OBVIOUS
<1>1. /\ Cardinality(Pointers(snode, q)) \in Nat /\ Cardinality(Pointers(isnode, q)) \in Nat
      /\ Cardinality(Pointers(found, q)) \in Nat
  BY PointersFinite
<1>2. sgref[q] \in Int /\ Own(q) \in 0..1
  BY DEF TypeOK, Own
<1> QED
  BY <1>1, <1>2 DEF Slack

\* A step that leaves every slack alone keeps the counts.
LEMMA SlackKept ==
  ASSUME TypeOK, TypeOK', StateRefsExact, \A q \in Pipe : Slack(q)' = Slack(q)
  PROVE  StateRefsExact'
<1>1. SlackOK
  BY SlackExact
<1>2. SlackOK'
  BY <1>1 DEF SlackOK
<1>3. TypeOK' => (StateRefsExact' <=> SlackOK')
  BY SlackExact, PTL
<1> QED
  BY <1>2, <1>3

\* Steps that touch neither the pointers nor the counts.
LEMMA SameStates ==
  ASSUME TypeOK, TypeOK', StateRefsExact, UNCHANGED <<snode, isnode, found, sgref, gref>>
  PROVE  StateRefsExact'
BY SlackKept DEF Slack, Own, Pointers

\* gstd_list_find_child refers a pipeline that lives already.
LEMMA FindStates ==
  ASSUME TypeOK, TypeOK', PipelineRefsExact, StateRefsExact, NEW n,
         UNCHANGED <<snode, isnode, found, sgref>>,
         \/ \E p \in Named(n) : gref' = [gref EXCEPT ![p] = @ + 1]
         \/ UNCHANGED gref
  PROVE  StateRefsExact'
<1>1. CASE UNCHANGED gref
  BY <1>1, SameStates
<1>2. ASSUME NEW p \in Named(n), gref' = [gref EXCEPT ![p] = @ + 1]
      PROVE  StateRefsExact'
  <2>1. p \in Pipe /\ p \in list
    BY DEF Named, TypeOK
  <2>2. gref[p] > 0 /\ gref \in [Pipe -> Int]
    BY <2>1, HeldAlive DEF TypeOK
  <2>3. \A q \in Pipe : Own(q)' = Own(q)
    BY <1>2, <2>1, <2>2 DEF Own
  <2>4. \A q \in Pipe : Slack(q)' = Slack(q)
    BY <2>3 DEF Slack
  <2> QED
    BY <2>4, SlackKept
<1> QED
  BY <1>1, <1>2

\* g_object_unref of a pipeline in somebody's hands drops the reference to its
\* state together with its own life.
LEMMA UnrefOwn ==
  ASSUME TypeOK, NEW p \in Pipe, gref[p] > 0, NEW k \in Int, unref_pipeline(p, k)
  PROVE  \A q \in Pipe : sgref'[q] - Own(q)' = sgref[q] - Own(q) - (IF q = p THEN k ELSE 0)
<1>1. gref \in [Pipe -> Int] /\ sgref \in [Pipe -> Int]
  BY DEF TypeOK
<1>2. gref' = [gref EXCEPT ![p] = @ - 1]
  BY DEF unref_pipeline
<1>3. sgref' = [sgref EXCEPT ![p] = @ - (IF gref[p] = 1 THEN 1 ELSE 0) - k]
  BY DEF unref_pipeline, DisposeDropsState
<1>4. ASSUME NEW q \in Pipe, q # p PROVE sgref'[q] = sgref[q] /\ Own(q)' = Own(q)
  BY <1>1, <1>2, <1>3, <1>4 DEF Own
<1>5. sgref'[p] - Own(p)' = sgref[p] - Own(p) - k
  <2>1. CASE gref[p] = 1
    BY <1>1, <1>2, <1>3, <2>1 DEF Own
  <2>2. CASE gref[p] > 1
    BY <1>1, <1>2, <1>3, <2>2 DEF Own
  <2> QED
    BY <1>1, <2>1, <2>2
<1>6. \A q \in Pipe : sgref[q] \in Int /\ Own(q) \in Int
  BY <1>1 DEF Own
<1> QED
  BY <1>4, <1>5, <1>6

\* A thread drops a pipeline, and no pointer to a state changes hands.
LEMMA UnrefStates ==
  ASSUME TypeOK, TypeOK', StateRefsExact, NEW p \in Pipe, gref[p] > 0,
         unref_pipeline(p, 0), UNCHANGED <<snode, isnode, found>>
  PROVE  StateRefsExact'
<1>1. \A q \in Pipe : sgref'[q] - Own(q)' = sgref[q] - Own(q)
  <2>1. \A q \in Pipe : sgref'[q] - Own(q)' = sgref[q] - Own(q) - (IF q = p THEN 0 ELSE 0)
    BY UnrefOwn
  <2> QED
    BY <2>1, SlackInt
<1>2. \A q \in Pipe : /\ sgref'[q] \in Int /\ Own(q)' \in Int
                      /\ Cardinality(Pointers(snode, q)) \in Nat
                      /\ Cardinality(Pointers(isnode, q)) \in Nat
                      /\ Cardinality(Pointers(found, q)) \in Nat
                      /\ sgref[q] \in Int /\ Own(q) \in Int
  BY SlackInt DEF TypeOK, Own
<1>3. \A q \in Pipe : Slack(q)' =
        sgref'[q] - (Cardinality(Pointers(snode, q)) + Cardinality(Pointers(isnode, q))
                     + Cardinality(Pointers(found, q)) + Own(q)')
  BY DEF Slack
<1>4. \A q \in Pipe : Slack(q)' = Slack(q)
  BY <1>1, <1>2, <1>3 DEF Slack
<1> QED
  BY <1>4, SlackKept

\* The pointers to the state at p.
Uses(p) ==
  Cardinality(Pointers(snode, p)) + Cardinality(Pointers(isnode, p))
  + Cardinality(Pointers(found, p))

\* The pointers that change hands and the references that are counted balance.
LEMMA SlackBalanced ==
  ASSUME TypeOK, TypeOK', StateRefsExact, NEW d \in [Pipe -> Int],
         \A q \in Pipe : sgref'[q] - Own(q)' = sgref[q] - Own(q) + d[q],
         \A q \in Pipe : Uses(q)' = Uses(q) + d[q]
  PROVE  StateRefsExact'
<1> SUFFICES ASSUME NEW q \in Pipe PROVE Slack(q)' = Slack(q)
  BY SlackKept
<1>1. /\ Uses(q) \in Int /\ sgref[q] \in Int /\ Own(q) \in Int
      /\ Slack(q) = sgref[q] - (Uses(q) + Own(q))
  BY SlackInt DEF Uses, Slack
<1>2. Own(q)' \in Int /\ sgref'[q] \in Int
  BY DEF TypeOK, Own
<1>3. /\ Cardinality(Pointers(snode', q)) \in Nat /\ Cardinality(Pointers(isnode', q)) \in Nat
      /\ Cardinality(Pointers(found', q)) \in Nat
  BY PointersFinite
<1>4. Uses(q)' \in Int /\ Slack(q)' = sgref'[q] - (Uses(q)' + Own(q)')
  BY <1>2, <1>3 DEF Uses, Slack
<1>5. sgref'[q] - Own(q)' = sgref[q] - Own(q) + d[q] /\ Uses(q)' = Uses(q) + d[q] /\ d[q] \in Int
  OBVIOUS
<1> QED
  BY <1>1, <1>2, <1>4, <1>5

\* A function that is k at one address and 0 elsewhere.
At(p, k) == [q \in Pipe |-> IF q = p THEN k ELSE 0]

\* A thread sets one of its empty pointers to a state.
LEMMA UseTaken ==
  ASSUME TypeOK, NEW t \in Thread, NEW p \in Pipe,
         \/ snode[t] = None /\ snode' = [snode EXCEPT ![t] = p] /\ UNCHANGED <<isnode, found>>
         \/ isnode[t] = None /\ isnode' = [isnode EXCEPT ![t] = p] /\ UNCHANGED <<snode, found>>
         \/ found[t] = None /\ found' = [found EXCEPT ![t] = p] /\ UNCHANGED <<snode, isnode>>
  PROVE  \A q \in Pipe : Uses(q)' = Uses(q) + At(p, 1)[q]
<1> SUFFICES ASSUME NEW q \in Pipe PROVE Uses(q)' = Uses(q) + At(p, 1)[q]
  OBVIOUS
<1>1. At(p, 1)[q] = (IF q = p THEN 1 ELSE 0) /\ At(p, 1)[q] \in Int
  BY DEF At
<1>2. /\ Cardinality(Pointers(snode, q)) \in Nat /\ Cardinality(Pointers(isnode, q)) \in Nat
      /\ Cardinality(Pointers(found, q)) \in Nat
  BY PointersFinite
<1>3. /\ snode \in [Thread -> Pipe \cup {None}] /\ isnode \in [Thread -> Pipe \cup {None}]
      /\ found \in [Thread -> Pipe \cup {None}]
  BY DEF TypeOK
<1>4. CASE snode[t] = None /\ snode' = [snode EXCEPT ![t] = p] /\ UNCHANGED <<isnode, found>>
  <2>1. snode[t] = None /\ snode'[t] = p /\ \A u \in Thread \ {t} : snode'[u] = snode[u]
    BY <1>3, <1>4
  <2>2. Cardinality(Pointers(snode', q)) =
          Cardinality(Pointers(snode, q)) + (IF q = p THEN 1 ELSE 0)
    BY <2>1, PointerTaken
  <2> QED
    BY <1>1, <1>2, <1>4, <2>2 DEF Uses
<1>5. CASE isnode[t] = None /\ isnode' = [isnode EXCEPT ![t] = p] /\ UNCHANGED <<snode, found>>
  <2>1. isnode[t] = None /\ isnode'[t] = p /\ \A u \in Thread \ {t} : isnode'[u] = isnode[u]
    BY <1>3, <1>5
  <2>2. Cardinality(Pointers(isnode', q)) =
          Cardinality(Pointers(isnode, q)) + (IF q = p THEN 1 ELSE 0)
    BY <2>1, PointerTaken
  <2> QED
    BY <1>1, <1>2, <1>5, <2>2 DEF Uses
<1>6. CASE found[t] = None /\ found' = [found EXCEPT ![t] = p] /\ UNCHANGED <<snode, isnode>>
  <2>1. found[t] = None /\ found'[t] = p /\ \A u \in Thread \ {t} : found'[u] = found[u]
    BY <1>3, <1>6
  <2>2. Cardinality(Pointers(found', q)) =
          Cardinality(Pointers(found, q)) + (IF q = p THEN 1 ELSE 0)
    BY <2>1, PointerTaken
  <2> QED
    BY <1>1, <1>2, <1>6, <2>2 DEF Uses
<1> QED
  BY <1>4, <1>5, <1>6

\* A thread empties one of its pointers to a state.
LEMMA UseDropped ==
  ASSUME TypeOK, NEW t \in Thread, NEW p \in Pipe,
         \/ snode[t] = p /\ snode' = [snode EXCEPT ![t] = None] /\ UNCHANGED <<isnode, found>>
         \/ isnode[t] = p /\ isnode' = [isnode EXCEPT ![t] = None] /\ UNCHANGED <<snode, found>>
         \/ found[t] = p /\ found' = [found EXCEPT ![t] = None] /\ UNCHANGED <<snode, isnode>>
  PROVE  \A q \in Pipe : Uses(q)' = Uses(q) + At(p, -1)[q]
<1> SUFFICES ASSUME NEW q \in Pipe PROVE Uses(q)' = Uses(q) + At(p, -1)[q]
  OBVIOUS
<1>1. At(p, -1)[q] = 0 - (IF q = p THEN 1 ELSE 0) /\ At(p, -1)[q] \in Int
  BY DEF At
<1>2. /\ Cardinality(Pointers(snode, q)) \in Nat /\ Cardinality(Pointers(isnode, q)) \in Nat
      /\ Cardinality(Pointers(found, q)) \in Nat
  BY PointersFinite
<1>3. /\ snode \in [Thread -> Pipe \cup {None}] /\ isnode \in [Thread -> Pipe \cup {None}]
      /\ found \in [Thread -> Pipe \cup {None}]
  BY DEF TypeOK
<1>4. CASE snode[t] = p /\ snode' = [snode EXCEPT ![t] = None] /\ UNCHANGED <<isnode, found>>
  <2>1. snode[t] = p /\ snode'[t] = None /\ \A u \in Thread \ {t} : snode'[u] = snode[u]
    BY <1>3, <1>4
  <2>2. Cardinality(Pointers(snode', q)) =
          Cardinality(Pointers(snode, q)) - (IF q = p THEN 1 ELSE 0)
    BY <2>1, PointerDropped
  <2> QED
    BY <1>1, <1>2, <1>4, <2>2 DEF Uses
<1>5. CASE isnode[t] = p /\ isnode' = [isnode EXCEPT ![t] = None] /\ UNCHANGED <<snode, found>>
  <2>1. isnode[t] = p /\ isnode'[t] = None /\ \A u \in Thread \ {t} : isnode'[u] = isnode[u]
    BY <1>3, <1>5
  <2>2. Cardinality(Pointers(isnode', q)) =
          Cardinality(Pointers(isnode, q)) - (IF q = p THEN 1 ELSE 0)
    BY <2>1, PointerDropped
  <2> QED
    BY <1>1, <1>2, <1>5, <2>2 DEF Uses
<1>6. CASE found[t] = p /\ found' = [found EXCEPT ![t] = None] /\ UNCHANGED <<snode, isnode>>
  <2>1. found[t] = p /\ found'[t] = None /\ \A u \in Thread \ {t} : found'[u] = found[u]
    BY <1>3, <1>6
  <2>2. Cardinality(Pointers(found', q)) =
          Cardinality(Pointers(found, q)) - (IF q = p THEN 1 ELSE 0)
    BY <2>1, PointerDropped
  <2> QED
    BY <1>1, <1>2, <1>6, <2>2 DEF Uses
<1> QED
  BY <1>4, <1>5, <1>6

\* The count of the state at p changes by k, and no pipeline's life does.
LEMMA CountMoved ==
  ASSUME TypeOK, NEW p \in Pipe, NEW k \in Int,
         sgref'[p] = sgref[p] + k, \A q \in Pipe \ {p} : sgref'[q] = sgref[q], UNCHANGED gref
  PROVE  \A q \in Pipe : sgref'[q] - Own(q)' = sgref[q] - Own(q) + At(p, k)[q]
<1> SUFFICES ASSUME NEW q \in Pipe
             PROVE  sgref'[q] - Own(q)' = sgref[q] - Own(q) + At(p, k)[q]
  OBVIOUS
<1>1. sgref[q] \in Int /\ sgref \in [Pipe -> Int] /\ Own(q) \in Int /\ Own(q)' = Own(q)
  BY DEF TypeOK, Own
<1>2. At(p, k)[q] = (IF q = p THEN k ELSE 0)
  BY DEF At
<1> QED
  BY <1>1, <1>2

\* A thread exchanges a pipeline it holds for a pointer to its state.
LEMMA StateTaken ==
  ASSUME TypeOK, TypeOK', PipelineRefsExact, StateRefsExact, NEW t \in Thread, NEW p \in Pipe,
         inner[t] = p, unref_pipeline(p, -1),
         \/ snode[t] = None /\ snode' = [snode EXCEPT ![t] = p] /\ UNCHANGED <<isnode, found>>
         \/ isnode[t] = None /\ isnode' = [isnode EXCEPT ![t] = p] /\ UNCHANGED <<snode, found>>
  PROVE  StateRefsExact'
<1>1. gref[p] > 0
  BY HeldAlive
<1>2. \A q \in Pipe : sgref'[q] - Own(q)' = sgref[q] - Own(q) - (IF q = p THEN -1 ELSE 0)
  BY <1>1, UnrefOwn
<1>3. \A q \in Pipe : sgref'[q] - Own(q)' = sgref[q] - Own(q) + At(p, 1)[q]
  BY <1>2, SlackInt DEF At
<1>4. \A q \in Pipe : Uses(q)' = Uses(q) + At(p, 1)[q]
  BY UseTaken
<1>5. At(p, 1) \in [Pipe -> Int]
  BY DEF At
<1> QED
  BY <1>3, <1>4, <1>5, SlackBalanced

\* A thread drops a state together with its pointer.
LEMMA StateDropped ==
  ASSUME TypeOK, TypeOK', StateRefsExact, NEW t \in Thread, NEW p \in Pipe,
         sgref' = [sgref EXCEPT ![p] = @ + (-1)], UNCHANGED gref,
         \/ snode[t] = p /\ snode' = [snode EXCEPT ![t] = None] /\ UNCHANGED <<isnode, found>>
         \/ isnode[t] = p /\ isnode' = [isnode EXCEPT ![t] = None] /\ UNCHANGED <<snode, found>>
  PROVE  StateRefsExact'
<1>1. \A q \in Pipe : Uses(q)' = Uses(q) + At(p, -1)[q]
  BY UseDropped
<1>2. \A q \in Pipe : sgref'[q] - Own(q)' = sgref[q] - Own(q) + At(p, -1)[q]
  <2>1. sgref'[p] = sgref[p] + (-1) /\ \A q \in Pipe \ {p} : sgref'[q] = sgref[q]
    BY DEF TypeOK
  <2> QED
    BY <2>1, CountMoved
<1>3. At(p, -1) \in [Pipe -> Int]
  BY DEF At
<1> QED
  BY <1>1, <1>2, <1>3, SlackBalanced

\* Every step keeps the GObject count of each state at the number of its
\* holders, but for the reference a failed deletion leaks.
LEMMA StateRefsStep ==
  ASSUME IInv, TypeOK', StateRefsExact, NEW t \in Thread, parser_parse_cmd(t) \/ Serve(t)
  PROVE  StateRefsExact'
<1> USE DEF IInv
<1>1. CASE parser_parse_cmd(t)
  BY <1>1, SameStates DEF parser_parse_cmd, objVars, ptrVars
<1>2. CASE pipeline_creator_create(t)
  <2>1. UNCHANGED <<snode, isnode, found>>
    BY <1>2 DEF pipeline_creator_create
  <2>2. ASSUME NEW p \in Free, gref' = [gref EXCEPT ![p] = 1], sgref' = [sgref EXCEPT ![p] = 1]
        PROVE  StateRefsExact'
    <3>1. p \in Pipe /\ gref[p] = 0 /\ sgref[p] = 0
      BY DEF Free
    <3>2. gref \in [Pipe -> Int] /\ sgref \in [Pipe -> Int]
      BY DEF TypeOK
    <3>3. ASSUME NEW q \in Pipe, q # p PROVE sgref'[q] = sgref[q] /\ Own(q)' = Own(q)
      BY <2>2, <3>2, <3>3 DEF Own
    <3>4. sgref'[p] = 1 /\ Own(p)' = 1 /\ Own(p) = 0
      BY <2>2, <3>1, <3>2 DEF Own
    <3>5. \A q \in Pipe : Slack(q)' = Slack(q)
      <4> SUFFICES ASSUME NEW q \in Pipe PROVE Slack(q)' = Slack(q)
        OBVIOUS
      <4>1. Slack(q)' = sgref'[q] - (Cardinality(Pointers(snode, q))
              + Cardinality(Pointers(isnode, q)) + Cardinality(Pointers(found, q)) + Own(q)')
        BY <2>1 DEF Slack
      <4>2. CASE q = p
        BY <3>1, <3>4, <4>1, <4>2, SlackInt DEF Slack
      <4>3. CASE q # p
        BY <3>3, <4>1, <4>3 DEF Slack
      <4> QED
        BY <4>2, <4>3
    <3> QED
      BY <3>5, SlackKept
  <2>3. CASE UNCHANGED objVars
    BY <2>1, <2>3, SameStates DEF objVars
  <2> QED
    BY <1>2, <2>2, <2>3 DEF pipeline_creator_create
<1>3. CASE list_append_child(t)
  <2>1. UNCHANGED <<snode, isnode, found>>
    BY <1>3 DEF list_append_child
  <2>2. PICK p \in Pipe : p = inner[t]
    BY <1>3 DEF list_append_child, TypeOK, Control, Pointing
  <2>3. gref[p] > 0
    BY <2>2, HeldAlive
  <2>4. unref_pipeline(p, 0) \/ UNCHANGED <<gref, sgref>>
    BY <1>3, <2>2 DEF list_append_child
  <2> QED
    BY <2>1, <2>3, <2>4, UnrefStates, SameStates
<1>4. CASE parser_create_read(t)
  <2>1. UNCHANGED <<snode, isnode, found, sgref>>
    BY <1>4 DEF parser_create_read
  <2>2. \/ \E p \in Named(req[t].name) : gref' = [gref EXCEPT ![p] = @ + 1]
        \/ UNCHANGED gref
    BY <1>4 DEF parser_create_read, list_find_child, RefChild
  <2> QED
    BY <2>1, <2>2, FindStates
<1>5. CASE parser_create_to_string(t)
  <2>1. UNCHANGED <<snode, isnode, found>>
    BY <1>5 DEF parser_create_to_string
  <2>2. PICK p \in Pipe : p = inner[t]
    BY <1>5 DEF parser_create_to_string, TypeOK, Control, Pointing
  <2>3. gref[p] > 0
    BY <2>2, HeldAlive
  <2>4. unref_pipeline(p, 0)
    BY <1>5, <2>2 DEF parser_create_to_string
  <2> QED
    BY <2>1, <2>3, <2>4, UnrefStates
<1>6. CASE list_delete(t)
  <2>1. UNCHANGED <<snode, isnode, gref>> /\ found[t] = None
    BY <1>6 DEF list_delete, Control, Pointing
  <2>2. ASSUME NEW p \in Named(req[t].name), found' = [found EXCEPT ![t] = p],
               sgref' = [sgref EXCEPT ![p] = @ + 1]
        PROVE  StateRefsExact'
    <3>1. p \in Pipe
      BY DEF Named, TypeOK
    <3>2. \A q \in Pipe : Uses(q)' = Uses(q) + At(p, 1)[q]
      BY <2>1, <2>2, <3>1, UseTaken
    <3>3. \A q \in Pipe : sgref'[q] - Own(q)' = sgref[q] - Own(q) + At(p, 1)[q]
      <4>1. sgref'[p] = sgref[p] + 1 /\ \A q \in Pipe \ {p} : sgref'[q] = sgref[q]
        BY <2>2, <3>1 DEF TypeOK
      <4> QED
        BY <2>1, <3>1, <4>1, CountMoved
    <3>4. At(p, 1) \in [Pipe -> Int]
      BY DEF At
    <3> QED
      BY <3>2, <3>3, <3>4, SlackBalanced
  <2>3. CASE UNCHANGED <<found, sgref>>
    BY <2>1, <2>3, SameStates
  <2> QED
    BY <1>6, <2>2, <2>3 DEF list_delete
<1>7. CASE pipeline_deleter_stop(t)
  <2>1. UNCHANGED <<snode, isnode, gref, sgref>>
    BY <1>7 DEF pipeline_deleter_stop
  <2>2. CASE UNCHANGED found
    BY <2>1, <2>2, SameStates
  <2>3. CASE Faults /\ found' = [found EXCEPT ![t] = None]
    <3>1. PICK p \in Pipe : p = found[t]
      BY <1>7 DEF pipeline_deleter_stop, TypeOK, Control, Pointing
    <3>2. \A q \in Pipe : Uses(q)' = Uses(q) + At(p, -1)[q]
      BY <2>1, <2>3, <3>1, UseDropped
    <3>3. \A q \in Pipe : Slack(q)' >= Slack(q)
      <4> SUFFICES ASSUME NEW q \in Pipe PROVE Slack(q)' >= Slack(q)
        OBVIOUS
      <4>1. At(p, -1)[q] \in {-1, 0} /\ Uses(q)' = Uses(q) + At(p, -1)[q]
        BY <3>2 DEF At
      <4>2. /\ Uses(q) \in Int /\ sgref[q] \in Int /\ Own(q) \in Int
            /\ Slack(q) = sgref[q] - (Uses(q) + Own(q))
        BY SlackInt DEF Uses, Slack
      <4>3. Slack(q)' = sgref[q] - (Uses(q)' + Own(q))
        <5>1. Own(q)' = Own(q) /\ sgref'[q] = sgref[q]
          BY <2>1 DEF Own
        <5> QED
          BY <5>1 DEF Uses, Slack
      <4> QED
        BY <4>1, <4>2, <4>3
    <3>4. SlackOK
      BY SlackExact
    <3>5. SlackOK'
      <4> SUFFICES ASSUME NEW q \in Pipe PROVE Slack(q)' >= 0
        BY <2>3 DEF SlackOK
      <4>1. Slack(q) >= 0 /\ Slack(q) \in Int /\ Slack(q)' >= Slack(q)
        BY <3>3, <3>4, SlackInt DEF SlackOK
      <4>2. Slack(q)' \in Int
        <5>1. /\ Cardinality(Pointers(snode', q)) \in Nat
              /\ Cardinality(Pointers(isnode', q)) \in Nat
              /\ Cardinality(Pointers(found', q)) \in Nat
          BY PointersFinite
        <5>2. sgref'[q] \in Int /\ Own(q)' \in Int
          BY DEF TypeOK, Own
        <5> QED
          BY <5>1, <5>2 DEF Slack
      <4> QED
        BY <4>1, <4>2
    <3>6. TypeOK' => (StateRefsExact' <=> SlackOK')
      BY SlackExact, PTL
    <3> QED
      BY <3>5, <3>6
  <2> QED
    BY <1>7, <2>2, <2>3 DEF pipeline_deleter_stop, set_state
<1>8. CASE list_delete_link(t)
  <2>1. PICK p \in Pipe : p = found[t]
    BY <1>8 DEF list_delete_link, TypeOK, Control, Pointing
  <2>2. p \in list
    BY <1>8, <2>1 DEF list_delete_link, FoundListed
  <2>3. gref[p] > 0
    BY <2>2, HeldAlive
  <2>4. unref_pipeline(p, 1) /\ found' = [found EXCEPT ![t] = None] /\ UNCHANGED <<snode, isnode>>
    BY <1>8, <2>1 DEF list_delete_link
  <2>5. \A q \in Pipe : sgref'[q] - Own(q)' = sgref[q] - Own(q) - (IF q = p THEN 1 ELSE 0)
    BY <2>3, <2>4, UnrefOwn
  <2>6. \A q \in Pipe : sgref'[q] - Own(q)' = sgref[q] - Own(q) + At(p, -1)[q]
    BY <2>5, SlackInt DEF At
  <2>7. \A q \in Pipe : Uses(q)' = Uses(q) + At(p, -1)[q]
    BY <2>1, <2>4, UseDropped
  <2>8. At(p, -1) \in [Pipe -> Int]
    BY DEF At
  <2> QED
    BY <2>6, <2>7, <2>8, SlackBalanced
<1>9. CASE get_by_uri_pipeline(t)
  <2>1. UNCHANGED <<snode, isnode, found, sgref>>
    BY <1>9 DEF get_by_uri_pipeline
  <2>2. \/ \E p \in Named(req[t].name) : gref' = [gref EXCEPT ![p] = @ + 1]
        \/ UNCHANGED gref
    BY <1>9 DEF get_by_uri_pipeline, list_find_child, RefChild
  <2> QED
    BY <2>1, <2>2, FindStates
<1>10. CASE get_by_uri_state(t)
  <2>1. PICK p \in Pipe : p = inner[t]
    BY <1>10 DEF get_by_uri_state, TypeOK, Control, Pointing
  <2>2. unref_pipeline(p, -1) /\ isnode' = [isnode EXCEPT ![t] = p] /\ UNCHANGED <<snode, found>>
    BY <1>10, <2>1 DEF get_by_uri_state
  <2>3. isnode[t] = None
    BY <1>10 DEF get_by_uri_state, Control, Pointing
  <2> QED
    BY <2>1, <2>2, <2>3, StateTaken
<1>11. CASE state_update(t)
  <2>1. PICK p \in Pipe : p = isnode[t]
    BY <1>11 DEF state_update, TypeOK, Control, Pointing
  <2>2. /\ isnode' = [isnode EXCEPT ![t] = None] /\ UNCHANGED <<snode, found, gref>>
        /\ sgref' = [sgref EXCEPT ![p] = @ + (-1)]
    BY <1>11, <2>1 DEF state_update, TypeOK
  <2> QED
    BY <2>1, <2>2, StateDropped
<1>12. CASE lock_session(t)
  BY <1>12, SameStates DEF lock_session, objVars, ptrVars
<1>13. CASE create_ref_lookup(t)
  <2>1. UNCHANGED <<snode, isnode, found, sgref>>
    BY <1>13 DEF create_ref_lookup
  <2>2. \/ \E p \in Named(req[t].name) : gref' = [gref EXCEPT ![p] = @ + 1]
        \/ UNCHANGED gref
    BY <1>13 DEF create_ref_lookup, list_find_child, RefChild
  <2> QED
    BY <2>1, <2>2, FindStates
<1>14. CASE create_ref_relookup(t)
  <2>1. UNCHANGED <<snode, isnode, found, sgref>>
    BY <1>14 DEF create_ref_relookup
  <2>2. \/ \E p \in Named(req[t].name) : gref' = [gref EXCEPT ![p] = @ + 1]
        \/ UNCHANGED gref
    BY <1>14 DEF create_ref_relookup, list_find_child, RefChild
  <2> QED
    BY <2>1, <2>2, FindStates
<1>15. CASE pipeline_increment_refcount(t)
  BY <1>15, SameStates DEF pipeline_increment_refcount, objVars, ptrVars
<1>16. CASE delete_ref_lookup(t)
  <2>1. UNCHANGED <<snode, isnode, found, sgref>>
    BY <1>16 DEF delete_ref_lookup
  <2>2. \/ \E p \in Named(req[t].name) : gref' = [gref EXCEPT ![p] = @ + 1]
        \/ UNCHANGED gref
    BY <1>16 DEF delete_ref_lookup, list_find_child, RefChild
  <2> QED
    BY <2>1, <2>2, FindStates
<1>17. CASE delete_ref_count(t)
  BY <1>17, SameStates DEF delete_ref_count, objVars, ptrVars
<1>18. CASE pipeline_decrement_refcount(t)
  BY <1>18, SameStates DEF pipeline_decrement_refcount, objVars, ptrVars
<1>19. CASE unlock_session(t)
  <2>1. UNCHANGED <<snode, isnode, found>>
    BY <1>19 DEF unlock_session
  <2>2. CASE node[t] = None
    BY <1>19, <2>1, <2>2, SameStates DEF unlock_session
  <2>3. CASE node[t] # None
    <3>1. PICK p \in Pipe : p = node[t]
      BY <2>3 DEF TypeOK
    <3>2. gref[p] > 0
      BY <3>1, HeldAlive
    <3>3. unref_pipeline(p, 0)
      BY <1>19, <2>3, <3>1 DEF unlock_session
    <3> QED
      BY <2>1, <3>2, <3>3, UnrefStates
  <2> QED
    BY <2>2, <2>3
<1>20. CASE play_ref_pipeline_node(t)
  <2>1. UNCHANGED <<snode, isnode, found, sgref>>
    BY <1>20 DEF play_ref_pipeline_node
  <2>2. \/ \E p \in Named(req[t].name) : gref' = [gref EXCEPT ![p] = @ + 1]
        \/ UNCHANGED gref
    BY <1>20 DEF play_ref_pipeline_node, list_find_child, RefChild
  <2> QED
    BY <2>1, <2>2, FindStates
<1>21. CASE play_ref_lookup_again(t)
  <2>1. UNCHANGED <<snode, isnode, found, sgref>>
    BY <1>21 DEF play_ref_lookup_again
  <2>2. \/ \E p \in Named(req[t].name) : gref' = [gref EXCEPT ![p] = @ + 1]
        \/ UNCHANGED gref
    BY <1>21 DEF play_ref_lookup_again, list_find_child, RefChild
  <2> QED
    BY <2>1, <2>2, FindStates
<1>22. CASE play_ref_state_node(t)
  <2>1. PICK p \in Pipe : p = inner[t]
    BY <1>22 DEF play_ref_state_node, TypeOK, Control, Pointing
  <2>2. unref_pipeline(p, -1) /\ snode' = [snode EXCEPT ![t] = p] /\ UNCHANGED <<isnode, found>>
    BY <1>22, <2>1 DEF play_ref_state_node
  <2>3. snode[t] = None
    BY <1>22 DEF play_ref_state_node, Control, Pointing
  <2> QED
    BY <2>1, <2>2, <2>3, StateTaken
<1>23. CASE lock_pipeline(t)
  BY <1>23, SameStates DEF lock_pipeline, objVars, ptrVars
<1>24. CASE play_ref_count(t)
  BY <1>24, SameStates DEF play_ref_count, objVars, ptrVars
<1>25. CASE state_adjust_refcount(t)
  BY <1>25, SameStates DEF state_adjust_refcount, objVars, ptrVars
<1>26. CASE unlock_pipeline(t)
  <2>1. PICK p \in Pipe : p = snode[t]
    BY <1>26 DEF unlock_pipeline, TypeOK, Control, Pointing
  <2>2. /\ snode' = [snode EXCEPT ![t] = None] /\ UNCHANGED <<isnode, found, gref>>
        /\ sgref' = [sgref EXCEPT ![p] = @ + (-1)]
    BY <1>26, <2>1 DEF unlock_pipeline, TypeOK
  <2> QED
    BY <2>1, <2>2, StateDropped
<1>27. CASE play_ref_return(t)
  <2>1. UNCHANGED <<snode, isnode, found>>
    BY <1>27 DEF play_ref_return
  <2>2. PICK p \in Pipe : p = node[t]
    BY <1>27 DEF play_ref_return, TypeOK, Control, Placed, Pointing
  <2>3. gref[p] > 0
    BY <2>2, HeldAlive
  <2>4. unref_pipeline(p, 0)
    BY <1>27, <2>2 DEF play_ref_return
  <2> QED
    BY <2>1, <2>3, <2>4, UnrefStates
<1> QED
  BY <1>1, <1>2, <1>3, <1>4, <1>5, <1>6, <1>7, <1>8, <1>9, <1>10, <1>11,
     <1>12, <1>13, <1>14, <1>15, <1>16, <1>17, <1>18, <1>19, <1>20, <1>21,
     <1>22, <1>23, <1>24, <1>25, <1>26, <1>27 DEF Serve

-----------------------------------------------------------------------------
(* References to states: the theorem. *)

\* Whatever requests are mixed and however threads interleave, no state object
\* is disposed while its pipeline or a thread can reach it; and when setting a
\* pipeline's state never fails, it is disposed once nobody can.
THEOREM StateRefsCounted == Spec => []StateRefsExact
<1>1. Init => StateRefsExact
  <2> SUFFICES ASSUME Init, NEW p \in Pipe
               PROVE  sgref[p] = 0 /\ Cardinality(StateHolders(p)) = 0
    BY DEF StateRefsExact
  <2>1. StateHolders(p) = {}
    BY DEF Init, StateHolders
  <2> QED
    BY <2>1, FS_EmptySet DEF Init
<1>2. IInv /\ StateRefsExact /\ [Next]_vars => StateRefsExact'
  <2> SUFFICES ASSUME IInv, StateRefsExact, [Next]_vars PROVE StateRefsExact'
    OBVIOUS
  <2>1. TypeOK /\ TypeOK'
    BY NextInv DEF IInv
  <2>2. CASE Next
    BY <2>1, <2>2, StateRefsStep DEF Next
  <2>3. CASE UNCHANGED vars
    BY <2>1, <2>3, SameStates DEF vars, objVars, ptrVars
  <2> QED
    BY <2>2, <2>3
<1> QED
  BY Invariance, <1>1, <1>2, PTL DEF Spec
=============================================================================
