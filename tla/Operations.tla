----------------------------- MODULE Operations -----------------------------
(***************************************************************************)
(* The operations on the daemon's resources: the readers that lead from an *)
(* object to its child, the creators, the updaters and the deleters.       *)
(*                                                                         *)
(* env is what GStreamer does during one request: whether it accepts (ok), *)
(* whether a state change it accepts is still going on when it returns     *)
(* (late), the state a refused change stops in (part), the message or the  *)
(* signal that came in time (msg), and what the iterator over a new        *)
(* pipeline's elements returns before it goes through (scan).              *)
(***************************************************************************)
EXTENDS Resources

-----------------------------------------------------------------------------
(* Readers *)

\* gstd_property_reader_is_gstd
is_gstd(w, n, name) == get_property(w, n, name).node # NullNode

\* gstd_property_mask_type: a property object for a value of one of gstd's objects.
mask_type(n, name) == [kind |-> "value", of |-> n, name |-> name]

property_reader_read(w, n, name) ==
  IF ~Has(Props(n.kind), name) THEN Found("NO_RESOURCE", NullNode)
  ELSE IF ~Get(Props(n.kind), name).read THEN Found("NO_READ", NullNode)
  ELSE IF is_gstd(w, n, name) THEN Found("EOK", get_property(w, n, name).node)
  ELSE Found("EOK", mask_type(n, name))

\* A property of the int class, the only one there is.
list_reader_read_count(n) == Found("EOK", [kind |-> "count", of |-> n, name |-> "count"])
list_reader_read_child(w, n, name) ==
  LET child == find_child(w, n, name)
  IN Found(IF child = NullNode THEN "NO_RESOURCE" ELSE "EOK", child)
list_reader_read(w, n, name) ==
  IF name = "count" THEN list_reader_read_count(n) ELSE list_reader_read_child(w, n, name)

\* The wait for the signal is SignalReader's; here it came or it did not.
signal_reader_read(w, n, name, env) ==
  IF name = "callback"
  THEN Found("EOK", IF env.msg = "none" THEN NullNode ELSE Res("callback", n.id, n.elem, n.name))
  ELSE IF name = "disconnect" THEN Found("EOK", NullNode)
  ELSE property_reader_read(w, n, name)

\* The wait for the message is PipelineBus's.
msg_reader_read(w, n, name, env) ==
  IF name = "message"
  THEN Found("EOK", IF env.msg = "none" THEN NullNode ELSE Res("message", n.id, "", env.msg))
  ELSE property_reader_read(w, n, name)

no_reader_read == Found("NO_READ", NullNode)

\* gstd_object_read
object_read(w, n, name, env) ==
  CASE n.kind = "null" -> Found("NULL_ARGUMENT", NullNode)
    [] n.kind = "list" -> list_reader_read(w, n, name)
    [] n.kind = "signal" -> signal_reader_read(w, n, name, env)
    [] n.kind = "bus" -> msg_reader_read(w, n, name, env)
    [] n.kind \in {"session", "pipeline", "element", "debug"} -> property_reader_read(w, n, name)
    [] OTHER -> no_reader_read

\* gstd_get_by_uri: empty segments are skipped, and whatever fails is a bad command.
get_by_uri(w, uri, env) ==
  LET at[i \in 0 .. Len(uri)] ==
        IF i = 0 THEN Found("EOK", Session)
        ELSE LET parent == at[i - 1]
                 read == object_read(w, parent.node, uri[i], env)
             IN IF parent.code # "EOK" \/ uri[i] = "" THEN parent
                ELSE IF read.code = "EOK" THEN read
                ELSE Found("BAD_COMMAND", NullNode)
  IN at[Len(uri)]

-----------------------------------------------------------------------------
(* State, gstd_state.c *)

States == {"null", "ready", "paused", "playing"}
Upper == [NULL |-> "null", READY |-> "ready", PAUSED |-> "paused", PLAYING |-> "playing"]

\* A faulty variant: the text is taken for a state's name whatever it is.
AsGiven(text) == IF Len(text) # 1 THEN "none" ELSE text[1]
\* A state's name in either case, "none" for anything else.
state_enum(text) ==
  IF Len(text) # 1 THEN "none"
  ELSE IF text[1] \in States THEN text[1]
  ELSE IF text[1] \in DOMAIN Upper THEN Upper[text[1]]
  ELSE "none"

\* gst_element_set_state, of GStreamer.
set_state(inst, state, env) ==
  IF ~env.ok THEN LET s == IF env.part = "same" THEN inst.cur ELSE env.part
                  IN [inst EXCEPT !.goal = s, !.cur = s]
  ELSE IF env.late THEN [inst EXCEPT !.goal = state]
  ELSE [inst EXCEPT !.goal = state, !.cur = state]

\* A faulty variant: what GStreamer returns is not looked at.
StateNeverFails(w, id, text, env) ==
  IF state_enum(text) = "none" THEN Done("BAD_VALUE", w)
  ELSE Done("EOK", [w EXCEPT !.inst[id] = set_state(@, state_enum(text), env)])
state_update(w, id, text, env) ==
  IF state_enum(text) = "none" THEN Done("BAD_VALUE", w)
  ELSE Done(IF env.ok THEN "EOK" ELSE "STATE_ERROR",
            [w EXCEPT !.inst[id] = set_state(@, state_enum(text), env)])

-----------------------------------------------------------------------------
(* Creators *)

\* gstd_pipeline_fill_elements: the iterator returns env.scan, then goes through.  A resync
\* starts over, and what is in the list already is refused; too many in a row, or an error,
\* and the scan is given up, which is no failure.
fill_elements(names, scan) ==
  LET run[i \in 0 .. Len(scan)] ==
        IF i = 0 THEN [saved |-> 0, best |-> 0, resyncs |-> 0, done |-> FALSE]
        ELSE LET r == run[i - 1] IN
             IF r.done THEN r
             ELSE IF scan[i] = "error" THEN [r EXCEPT !.done = TRUE]
             ELSE IF scan[i] = "resync"
                  THEN IF r.resyncs + 1 > MaxResync THEN [r EXCEPT !.done = TRUE]
                       ELSE [r EXCEPT !.resyncs = @ + 1, !.saved = 0]
             ELSE [r EXCEPT !.resyncs = 0, !.saved = @ + 1,
                            !.best = IF @ < r.saved + 1 THEN r.saved + 1 ELSE @]
      r == run[Len(scan)]
  IN IF r.done /\ r.best < Len(names) THEN SubSeq(names, 1, r.best) ELSE names

\* gstd_pipeline_init, gstd_pipeline_bus_init, gstd_signal_init, gstd_state_init
pipeline_init(name, desc, names) ==
  LET all == {Launch[desc][i] : i \in DOMAIN Launch[desc]}
      objects == UNION {{fill_properties(e)[i].target : i \in DOMAIN fill_properties(e)} : e \in all}
  IN [name |-> name, desc |-> desc, goal |-> "null", cur |-> "null",
      verbose |-> FALSE, timeout |-> <<"-1">>, types |-> <<"error+warning+info">>, elements |-> names,
      lists |-> [e \in all |-> Lists(e)],
      sigtimes |-> [e \in all |-> [s \in {Class[e].signals[i].name : i \in DOMAIN Class[e].signals}
                                     |-> <<"-1">>]],
      vals |-> [o \in objects |->
                  [p \in {Class[o].props[i].name : i \in DOMAIN Class[o].props} |->
                     Get(Class[o].props, p).default]]]

\* gstd_pipeline_create: a description that GStreamer does not accept makes no pipeline.
pipeline_create(name, desc, env) ==
  IF desc \notin DOMAIN Launch THEN [code |-> "BAD_DESCRIPTION"]
  ELSE [code |-> "EOK", inst |-> pipeline_init(name, desc, fill_elements(Launch[desc], env.scan))]

pipeline_creator_create(name, desc, env) ==
  IF name = <<>> THEN [code |-> "MISSING_NAME"]
  ELSE IF desc = <<>> THEN [code |-> "MISSING_ARGUMENT"]
  ELSE pipeline_create(name[1], desc, env)

\* gstd_list_create: only the list of pipelines has a creator.
list_create(w, n, name, desc, env) ==
  IF n.name # "pipelines" THEN Done("NO_CREATE", w)
  ELSE LET built == pipeline_creator_create(name, desc, env)
       IN IF built.code # "EOK" THEN Done(built.code, w) ELSE append_child(w, name[1], built.inst)

\* gstd_event_factory.c: the event, or FALSE where it makes none.
ascii_to_boolean(text) == text \in {<<"true">>, <<"false">>}

\* strtod reads 0 from what is no number, and GStreamer makes no seek event at rate 0; the
\* other tokens are taken as they come.
ascii_to_double(token) == IF token \in DOMAIN Number THEN Number[token] ELSE "0"
make_seek_event(desc) == desc = <<>> \/ ascii_to_double(desc[1]) # "0"
make_flush_stop_event(desc) == desc = <<>> \/ ascii_to_boolean(desc)
parse_event(name) ==
  CASE name = "eos" -> "eos"
    [] name = "seek" -> "seek"
    [] name \in {"flush-start", "flush_start"} -> "flush_start"
    [] name \in {"flush-stop", "flush_stop"} -> "flush_stop"
    [] OTHER -> "unknown"
event_factory_make(name, desc) ==
  CASE parse_event(name) = "seek" -> make_seek_event(desc)
    [] parse_event(name) = "flush_stop" -> make_flush_stop_event(desc)
    [] OTHER -> parse_event(name) # "unknown"

send_event(name, desc, env) ==
  IF ~event_factory_make(name, desc) THEN "BAD_VALUE"
  ELSE IF env.ok THEN "EOK" ELSE "EVENT_ERROR"
event_creator_create(name, desc, env) ==
  IF name = <<>> THEN "NULL_ARGUMENT" ELSE send_event(name[1], desc, env)

\* gstd_action_create_default: the count of the words must be that of the parameters.
Emitted == {"string", "int", "uint", "uint64", "boolean", "float", "double"}
action_create(n, name, desc) ==
  LET params == Get(Class[n.elem].actions, n.name).params IN
  IF \/ name = <<>>
     \/ Len(params) > 0 /\ desc \in {<<>>, <<"(null)">>, <<"">>}
     \/ desc # <<>> /\ (IF desc = <<"">> THEN 0 ELSE Len(desc)) # Len(params)
  THEN "NULL_ARGUMENT"
  ELSE IF \E i \in DOMAIN params : params[i] \notin Emitted THEN "BAD_COMMAND"
  ELSE "EOK"

\* gstd_object_create: events and actions leave nothing behind.
object_create(w, n, name, desc, env) ==
  CASE n.kind = "list" -> list_create(w, n, name, desc, env)
    [] n.kind = "event" -> Done(event_creator_create(name, desc, env), w)
    [] n.kind = "action" -> Done(action_create(n, name, desc), w)
    [] OTHER -> Done("NO_CREATE", w)

-----------------------------------------------------------------------------
(* Updaters *)

\* g_object_set_property does nothing for a property without a writer.
SetTarget(w, n, text) ==
  LET entry == Entry(n) IN
  IF entry.pspec.write THEN [w EXCEPT !.inst[n.id].vals[entry.target][entry.pspec.name] = text] ELSE w

\* gstd_property_array_update: it looks the property up by the name in the list, which a
\* child's property does not have; atof reads 0 from what is no number.
property_array_update(w, n, text) ==
  IF ~Has(Class[Entry(n).target].props, n.name) THEN Done("MISSING_INITIALIZATION", w)
  ELSE Done("EOK", SetTarget(w, n, [i \in DOMAIN text |-> ascii_to_double(text[i])]))

\* gstd_property_update_default
property_update(w, n, text) ==
  LET value == deserialize(Entry(n).pspec.type, text) IN
  IF element_property_get_type(Entry(n).pspec.type) = "array" THEN property_array_update(w, n, text)
  ELSE IF value = <<>> THEN Done("BAD_VALUE", w)
  ELSE Done("EOK", SetTarget(w, n, value))
value_update(w, n, text) ==
  LET pspec == Get(Props(n.of.kind), n.name)
      value == deserialize(pspec.type, text)
  IN IF value = <<>> THEN Done("BAD_VALUE", w)
     ELSE Done("EOK", IF pspec.write THEN set_property(w, n.of, n.name, value) ELSE w)

\* gstd_property_int_update: every text is a number to strtoull, and the count cannot be written.
property_int_update(w) == Done("EOK", w)

\* gstd_object_update
object_update(w, n, text, env) ==
  CASE n.kind = "state" -> state_update(w, n.id, text, env)
    [] n.kind = "property" -> property_update(w, n, text)
    [] n.kind = "value" -> value_update(w, n, text)
    [] n.kind = "count" -> property_int_update(w)
    [] OTHER -> Done("NO_UPDATE", w)

-----------------------------------------------------------------------------
(* Deleters *)

\* gstd_pipeline_deleter_delete: the pipeline is stopped first.
pipeline_deleter_delete(w, id, env) == state_update(w, id, <<"NULL">>, env)

\* gstd_list_delete: what the deleter refuses stays.  The other lists have gstd_no_deleter,
\* which reports success.
list_delete(w, n, name, env) ==
  LET i == find_node(w, n, name)
      done == pipeline_deleter_delete(w, w.pipes[i], env)
  IN IF i = 0 THEN Done("NO_RESOURCE", w)
     ELSE IF n.name # "pipelines" THEN Done("EOK", Unlink(w, n, i))
     ELSE IF done.code # "EOK" THEN done
     ELSE Done("EOK", Unlink(done.w, n, i))

\* gstd_object_delete: of anything else nothing is deleted, with success.
object_delete(w, n, name, env) ==
  IF n.kind = "list" THEN list_delete(w, n, name, env) ELSE Done("EOK", w)
=============================================================================
