----------------------------- MODULE Documents ------------------------------
(***************************************************************************)
(* What the daemon writes of its resources: the to_string functions, each  *)
(* a text of Json tokens.                                                  *)
(***************************************************************************)
EXTENDS Operations

\* The member "param" that describes a property.
Param(type) ==
  Member("param", Nested(Object(String("description", <<"blurb">>) \o String("type", <<type>>)
                                \o String("access", <<"flags">>))))

-----------------------------------------------------------------------------

\* gstd_object_to_string_default
object_to_string(w, n) ==
  Object(Member("properties", Nested(Array(
    Each(Props(n.kind), LAMBDA p : Nested(
      Object(String("name", <<p.name>>) \o Value("value", p.type, get_property(w, n, p.name).text)
             \o Param(p.type))))))))

\* A faulty variant: the bracket is not cut off.
KeepsBracket(w, n) ==
  object_to_string(w, n)
  \o Member("nodes", Nested(Array(
       Each(List(w, n), LAMBDA name : Nested(Object(Member("name", print_name(name))))))))
  \o <<end_object>>
\* gstd_list_to_string: the last bracket of the parent's text is cut off, and the nodes pasted
\* behind, their names as they are.
list_to_string(w, n) ==
  Front(object_to_string(w, n))
  \o Member("nodes", Nested(Array(
       Each(List(w, n), LAMBDA name : Nested(Object(Member("name", print_name(name))))))))
  \o <<end_object>>

\* gstd_state_to_string: the state is read again, and may still be the one before the goal.
state_to_string(w, n) ==
  Object(String("name", <<"state">>) \o String("value", <<Inst(w, n).cur>>)
         \o Param("GstdStateEnum"))

property_add_value(type, text) == set_string_value(serialize(type, text))
property_int_add_value(type, text) == set_value(type, text)
property_array_add_value(text) ==
  Nested(Array(Each(text, LAMBDA word : set_value("float", <<word>>))))

\* gstd_property_to_string, with the name of the GObject property.
property_to_string(pspec, value) ==
  Object(String("name", <<pspec.name>>)
         \o Member("value", IF pspec.read THEN value ELSE set_null_value)
         \o Param(pspec.type))

TargetText(w, n) == Inst(w, n).vals[Entry(n).target][Entry(n).pspec.name]
PropertyValue(w, n) ==
  IF element_property_get_type(Entry(n).pspec.type) = "array"
  THEN property_array_add_value(TargetText(w, n))
  ELSE property_add_value(Entry(n).pspec.type, TargetText(w, n))

\* What g_signal_query tells of a signal or an action.
action_to_string(signal) ==
  Object(String("name", <<signal.name>>)
         \o Member("arguments", Nested(Array(
              Each(signal.params, LAMBDA type : set_string_value(<<type>>)))))
         \o String("return", <<"void">>))

\* The first argument of a callback is the element itself.
callback_to_string(signal) ==
  Object(String("name", <<signal.name>>)
         \o Member("arguments", Nested(Array(
              Each(<<"object">> \o signal.params, LAMBDA type :
                Nested(Object(String("type", <<type>>) \o Value("value", type, <<"arg">>))))))))

-----------------------------------------------------------------------------
(* gstd_element.c *)

element_properties_to_string(w, n) ==
  Member("element_properties", Nested(Array(
    Each(Inst(w, n).lists[n.elem].properties, LAMBDA name :
      LET p == Res("property", n.id, n.elem, name) IN
      Nested(Object(String("name", <<name>>)
             \o Value("value", Entry(p).pspec.type,
                      IF Entry(p).pspec.read THEN TargetText(w, p) ELSE <<"0">>)
             \o Param(Entry(p).pspec.type)))))))

signals_to_string_internal(signals, names) ==
  Nested(Array(Each(names, LAMBDA name : Nested(action_to_string(Get(signals, name))))))
element_signals_to_string(w, n) ==
  Member("element_signals",
         signals_to_string_internal(Class[n.elem].signals, Inst(w, n).lists[n.elem].signals))
element_actions_to_string(w, n) ==
  Member("element_actions",
         signals_to_string_internal(Class[n.elem].actions, Inst(w, n).lists[n.elem].actions))
element_internal_to_string(w, n) ==
  Object(element_properties_to_string(w, n) \o element_signals_to_string(w, n)
         \o element_actions_to_string(w, n))

\* The last bracket of the parent's text is cut off, another object pasted behind.
element_to_string(w, n) == Front(object_to_string(w, n)) \o <<Nested(element_internal_to_string(w, n))>>

-----------------------------------------------------------------------------
(* Bus messages *)

\* Numbers, whatever they are.
Numbers(type, names) == Joined(names, LAMBDA name : Value(name, type, <<"0">>))
simple_to_string == String("message", <<"text">>) \o String("debug", <<"text">>)
qos_to_string ==
  Member("buffer", Nested(Object(Value("live", "boolean", <<"true">>)
    \o Numbers("uint64", <<"running_time", "stream_time", "timestamp", "duration">>))))
  \o Member("values", Nested(Object(Numbers("int64", <<"jitter">>) \o Numbers("double", <<"proportion">>)
    \o Numbers("int", <<"quality">>))))
  \o Member("stats",
            Nested(Object(Numbers("int", <<"format">>) \o Numbers("uint64", <<"processed", "dropped">>))))
stream_status_to_string ==
  Member("stream_status", Nested(Object(Numbers("int", <<"type">>) \o String("type_name", <<"name">>)
    \o String("owner", <<"name">>) \o String("owner_factory", <<"name">>))))

\* A structure of one field; without a structure nothing is written.
bus_msg_element_to_string == Member("structure", Nested(Object(Numbers("int", <<"field">>))))
state_changed_to_string ==
  String("oldstate", <<"null">>) \o String("newstate", <<"ready">>) \o String("pending", <<"null">>)
notify_to_string ==
  String("object-name", <<"name">>) \o String("property_name", <<"name">>) \o String("message", <<"text">>)

\* gstd_bus_msg_factory_make: what the class of a type adds to the message.
bus_msg_factory_make(type) ==
  CASE type \in {"error", "warning", "info"} -> simple_to_string
    [] type = "qos" -> qos_to_string
    [] type = "stream-status" -> stream_status_to_string
    [] type = "element" -> bus_msg_element_to_string
    [] type = "state-changed" -> state_changed_to_string
    [] type = "property-notify" -> notify_to_string
    [] OTHER -> <<>>

bus_msg_to_string(type) ==
  Object(String("type", <<type>>) \o String("source", <<"name">>) \o String("timestamp", <<"0">>)
         \o Numbers("int", <<"seqnum">>) \o bus_msg_factory_make(type))

-----------------------------------------------------------------------------

\* gstd_object_to_string
to_string(w, n) ==
  CASE n.kind = "list" -> list_to_string(w, n)
    [] n.kind = "element" -> element_to_string(w, n)
    [] n.kind = "state" -> state_to_string(w, n)
    [] n.kind = "property" -> property_to_string(Entry(n).pspec, PropertyValue(w, n))
    [] n.kind = "value" ->
         LET pspec == Get(Props(n.of.kind), n.name)
         IN property_to_string(pspec,
              property_add_value(pspec.type, get_property(w, n.of, n.name).text))
    [] n.kind = "count" ->
         LET pspec == Get(list_class, "count")
         IN property_to_string(pspec,
              property_int_add_value(pspec.type, get_property(w, n.of, "count").text))
    [] n.kind = "action" -> action_to_string(Get(Class[n.elem].actions, n.name))
    [] n.kind = "callback" -> callback_to_string(Get(Class[n.elem].signals, n.name))
    [] n.kind = "message" -> bus_msg_to_string(n.name)
    [] OTHER -> object_to_string(w, n)

\* What a client of the socket server receives; no text is JSON's null.
Reply(code, response) ==
  Object(Value("code", "int", <<code>>) \o String("description", <<"text">>)
         \o Member("response", IF response = <<>> THEN set_null_value ELSE Nested(response)))
=============================================================================
