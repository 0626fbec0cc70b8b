----------------------------- MODULE Resources -----------------------------
(***************************************************************************)
(* The daemon's resources and the four operations on them: the objects a   *)
(* URI can name, what reading a child, creating, updating and deleting     *)
(* does on each (gstd_object.c and the creators, readers, updaters and     *)
(* deleters it is given).                                                  *)
(*                                                                         *)
(* A world w is the session's content: the ids of the listed pipelines,    *)
(* every pipeline ever built (a request may still hold one that was        *)
(* deleted), and the debug object.  A node is what a URI led to.  env is   *)
(* what GStreamer answers during one request.                              *)
(***************************************************************************)
EXTENDS Json, Integers, FiniteSets

CONSTANTS
  Launch,     \* accepted descriptions, and the names of the elements they build
  Class,      \* the GObject class of every element and child, by its name
  Number,     \* the spellings of integers, and the integer each one spells
  MsgTypes,   \* the sets of message types that have a name
  MaxResync   \* GSTD_MAX_ITERATOR_RESYNC

Pspecs == [name : STRING, type : STRING, read : BOOLEAN, write : BOOLEAN, default : Seq(STRING)]
Signals == [name : STRING, params : Seq(STRING)]

\* Descriptions build elements of known classes, of which there are finitely many, and no
\* object is below itself.
ASSUME ResourcesAssumption ==
  /\ IsFiniteSet(DOMAIN Class)
  /\ \A desc \in DOMAIN Launch : Launch[desc] \in Seq(DOMAIN Class)
  /\ \A o \in DOMAIN Class :
       /\ Class[o].props \in Seq(Pspecs) /\ Class[o].children \in Seq(DOMAIN Class)
       /\ Class[o].signals \in Seq(Signals) /\ Class[o].actions \in Seq(Signals)
  /\ \E height \in [DOMAIN Class -> 0 .. Cardinality(DOMAIN Class)] :
       \A o \in DOMAIN Class : \A i \in DOMAIN Class[o].children :
         height[Class[o].children[i]] < height[o]

Res(kind, id, elem, name) == [kind |-> kind, id |-> id, elem |-> elem, name |-> name]
NullNode == Res("null", 0, "", "")
Session == Res("session", 0, "", "session")
Pspec(name, type, read, write) == [name |-> name, type |-> type, read |-> read, write |-> write]

Found(code, node) == [code |-> code, node |-> node]
Done(code, w) == [code |-> code, w |-> w]

Has(s, name) == \E i \in DOMAIN s : s[i].name = name
Get(s, name) == s[CHOOSE i \in DOMAIN s : s[i].name = name]

-----------------------------------------------------------------------------
(* gst_value_serialize and gst_value_deserialize, of GStreamer *)

Integral == {"int", "uint", "int64", "uint64"}

\* A string of several words is put in quotes.
serialize(type, text) ==
  IF type = "string" /\ Len(text) > 1 THEN <<"quoted">> \o text ELSE text

\* The value that a text stands for, <<>> if it stands for none.
deserialize(type, text) ==
  IF type = "string" THEN text
  ELSE IF Len(text) # 1 THEN <<>>
  ELSE IF type \in Integral
       THEN (IF text[1] \in DOMAIN Number THEN <<Number[text[1]]>> ELSE <<>>)
  ELSE IF type = "boolean" THEN (IF text[1] \in {"true", "false"} THEN text ELSE <<>>)
  ELSE IF type = "flags" THEN (IF text[1] \in MsgTypes THEN text ELSE <<>>)
  ELSE <<>>

-----------------------------------------------------------------------------
(* What an element's lists hold, from its class *)

\* gstd_element_append_object_properties: the properties of an object.
append_object_properties(object) ==
  [i \in DOMAIN Class[object].props |->
     [name |-> Class[object].props[i].name, target |-> object, pspec |-> Class[object].props[i]]]

\* The properties of the children, those of a child's own children before its own.
Below(child, entries) ==
  [i \in DOMAIN entries |-> [entries[i] EXCEPT !.name = child \o "::" \o @]]
fill_child_properties[object \in DOMAIN Class] ==
  Joined(Class[object].children,
         LAMBDA child : Below(child, fill_child_properties[child] \o append_object_properties(child)))

fill_properties(e) == append_object_properties(e) \o fill_child_properties[e]
NamesOf(s) == [i \in DOMAIN s |-> s[i].name]

\* gstd_element_fill_signals_and_actions
Lists(e) ==
  [properties |-> NamesOf(fill_properties(e)),
   signals |-> NamesOf(Class[e].signals), actions |-> NamesOf(Class[e].actions)]

\* The property that an entry of the list stands for, and the kind of GstdProperty it is.
Entry(n) == Get(fill_properties(n.elem), n.name)
element_property_get_type(type) == IF type = "array" THEN "array" ELSE "generic"

-----------------------------------------------------------------------------
(* gstd_list.c *)

Inst(w, n) == w.inst[n.id]

\* The names in a list.
List(w, n) ==
  IF n.name = "pipelines" THEN [i \in DOMAIN w.pipes |-> w.inst[w.pipes[i]].name]
  ELSE IF n.name = "elements" THEN Inst(w, n).elements
  ELSE Inst(w, n).lists[n.elem][n.name]

\* gstd_list_find_node: where a name is in a list, 0 if it is not.
find_node(w, n, name) ==
  LET at == {i \in DOMAIN List(w, n) : List(w, n)[i] = name}
  IN IF at = {} THEN 0 ELSE CHOOSE i \in at : \A j \in at : i <= j

\* gstd_list_find_child
find_child(w, n, name) ==
  LET i == find_node(w, n, name) IN
  IF i = 0 THEN NullNode
  ELSE CASE n.name = "pipelines" -> Res("pipeline", w.pipes[i], "", name)
         [] n.name = "elements" -> Res("element", n.id, name, name)
         [] n.name = "properties" -> Res("property", n.id, n.elem, name)
         [] n.name = "signals" -> Res("signal", n.id, n.elem, name)
         [] n.name = "actions" -> Res("action", n.id, n.elem, name)

\* gstd_list_append_child, for the list of pipelines.
append_child(w, name, inst) ==
  IF \E i \in DOMAIN w.pipes : w.inst[w.pipes[i]].name = name
  THEN Done("EXISTING_RESOURCE", w)
  ELSE Done("EOK", [w EXCEPT !.inst = Append(@, inst), !.pipes = Append(@, Len(w.inst) + 1)])

\* The i-th entry leaves the list.
Unlink(w, n, i) ==
  CASE n.name = "pipelines" -> [w EXCEPT !.pipes = RemoveAt(@, i)]
    [] n.name = "elements" -> [w EXCEPT !.inst[n.id].elements = RemoveAt(@, i)]
    [] OTHER -> [w EXCEPT !.inst[n.id].lists[n.elem][n.name] = RemoveAt(@, i)]

-----------------------------------------------------------------------------
(* The GObject properties of gstd's own objects, and their values *)

\* The properties that the class_init functions install, the one of GstdObject last; write is
\* whether a value can be set after the construction.
object_class == Pspec("name", "string", TRUE, FALSE)
session_class ==
  <<Pspec("pipelines", "object", TRUE, TRUE), Pspec("pid", "int", TRUE, FALSE),
    Pspec("debug", "object", TRUE, TRUE), object_class>>
pipeline_class ==
  <<Pspec("description", "string", TRUE, FALSE), Pspec("elements", "object", TRUE, FALSE),
    Pspec("bus", "object", TRUE, FALSE), Pspec("state", "object", TRUE, TRUE),
    Pspec("event", "object", TRUE, FALSE), Pspec("graph", "string", TRUE, FALSE),
    Pspec("position", "int64", TRUE, FALSE), Pspec("duration", "int64", TRUE, FALSE),
    Pspec("verbose", "boolean", TRUE, TRUE), Pspec("refcount", "int", TRUE, FALSE), object_class>>
element_class ==
  <<Pspec("gstelement", "object", TRUE, FALSE), Pspec("event", "object", TRUE, FALSE),
    Pspec("properties", "object", TRUE, FALSE), Pspec("signals", "object", TRUE, FALSE),
    Pspec("actions", "object", TRUE, FALSE), object_class>>
list_class ==
  <<Pspec("count", "uint", TRUE, FALSE), Pspec("node-type", "gtype", TRUE, FALSE),
    Pspec("flags", "flags", TRUE, TRUE), object_class>>
debug_class ==
  <<Pspec("enable", "boolean", TRUE, TRUE), Pspec("color", "boolean", TRUE, TRUE),
    Pspec("threshold", "string", TRUE, TRUE), Pspec("flags", "flags", TRUE, FALSE),
    Pspec("reset", "boolean", TRUE, TRUE), object_class>>
bus_class ==
  <<Pspec("message", "object", TRUE, FALSE), Pspec("timeout", "int64", TRUE, TRUE),
    Pspec("types", "flags", TRUE, TRUE), object_class>>
signal_class ==
  <<Pspec("target", "object", TRUE, FALSE), Pspec("timeout", "int64", TRUE, TRUE),
    Pspec("callback", "object", TRUE, FALSE), Pspec("disconnect", "boolean", TRUE, FALSE), object_class>>

Props(kind) ==
  CASE kind = "session" -> session_class
    [] kind = "pipeline" -> pipeline_class
    [] kind = "element" -> element_class
    [] kind = "list" -> list_class
    [] kind = "debug" -> debug_class
    [] kind = "bus" -> bus_class
    [] kind = "signal" -> signal_class
    [] OTHER -> <<object_class>>

\* A value is a node or a text; an object that is not gstd's prints as "object".
Obj(node) == [node |-> node, text |-> <<"object">>]
Txt(text) == [node |-> NullNode, text |-> text]
Flag(b) == Txt(<<IF b THEN "true" ELSE "false">>)

session_get_property(w, p) ==
  CASE p = "pipelines" -> Obj(Res("list", 0, "", "pipelines"))
    [] p = "debug" -> Obj(Res("debug", 0, "", "Debug"))
    [] OTHER -> Txt(<<"pid">>)

\* gst_element_query_position and _duration answer once the pipeline is prerolled.
Queried(inst) == Txt(<<IF inst.cur \in {"paused", "playing"} THEN "time" ELSE "0">>)

pipeline_get_property(w, n, p) ==
  CASE p = "description" -> Txt(Inst(w, n).desc)
    [] p = "elements" -> Obj(Res("list", n.id, "", "elements"))
    [] p \in {"bus", "state", "event"} -> Obj(Res(p, n.id, "", p))
    [] p = "graph" -> Txt(<<"digraph">>)
    [] p = "refcount" -> Txt(<<"number">>)
    [] p = "verbose" -> Flag(Inst(w, n).verbose)
    [] p \in {"position", "duration"} -> Queried(Inst(w, n))

element_get_property(n, p) ==
  CASE p = "gstelement" -> Txt(<<"object">>)
    [] p = "event" -> Obj(Res("event", n.id, n.elem, p))
    [] OTHER -> Obj(Res("list", n.id, n.elem, p))

debug_get_property(w, p) ==
  CASE p = "threshold" -> Txt(w.debug.threshold)
    [] p = "flags" -> Txt(<<"flags">>)
    [] OTHER -> Flag(w.debug[p])

bus_get_property(w, n, p) ==
  CASE p = "timeout" -> Txt(Inst(w, n).timeout)
    [] p = "types" -> Txt(Inst(w, n).types)
    [] OTHER -> Txt(<<>>)

signal_get_property(w, n, p) ==
  CASE p = "timeout" -> Txt(Inst(w, n).sigtimes[n.elem][n.name])
    [] p = "target" -> Txt(<<"object">>)
    [] OTHER -> Txt(<<>>)

list_get_property(w, n, p) ==
  IF p = "count" THEN Txt(<<ToString(Len(List(w, n)))>>) ELSE Txt(<<p>>)

get_property(w, n, p) ==
  IF p = "name" THEN Txt(<<n.name>>)
  ELSE CASE n.kind = "session" -> session_get_property(w, p)
         [] n.kind = "pipeline" -> pipeline_get_property(w, n, p)
         [] n.kind = "element" -> element_get_property(n, p)
         [] n.kind = "debug" -> debug_get_property(w, p)
         [] n.kind = "bus" -> bus_get_property(w, n, p)
         [] n.kind = "signal" -> signal_get_property(w, n, p)
         [] n.kind = "list" -> list_get_property(w, n, p)

\* With reset the categories are cleared first, otherwise the threshold is added to them.
debug_set_threshold(d) ==
  [d EXCEPT !.level = (IF d.reset THEN {} ELSE @) \cup {d.threshold}]

debug_set_property(d, p, text) ==
  CASE p = "enable" ->
         LET e == [d EXCEPT !.enable = text = <<"true">>]
         IN IF e.enable /\ e.threshold # <<>> THEN debug_set_threshold(e) ELSE e
    [] p = "color" -> [d EXCEPT !.color = text = <<"true">>]
    [] p = "threshold" ->
         LET e == [d EXCEPT !.threshold = text] IN IF e.enable THEN debug_set_threshold(e) ELSE e
    [] p = "reset" -> [d EXCEPT !.reset = text = <<"true">>]

pipeline_set_property(inst, text) == [inst EXCEPT !.verbose = text = <<"true">>]
bus_set_property(inst, p, text) ==
  IF p = "timeout" THEN [inst EXCEPT !.timeout = text] ELSE [inst EXCEPT !.types = text]
signal_set_property(inst, n, text) == [inst EXCEPT !.sigtimes[n.elem][n.name] = text]

\* g_object_set_property: the properties with both a type that has texts and a writer.
set_property(w, n, p, text) ==
  CASE n.kind = "debug" -> [w EXCEPT !.debug = debug_set_property(@, p, text)]
    [] n.kind = "pipeline" -> [w EXCEPT !.inst[n.id] = pipeline_set_property(@, text)]
    [] n.kind = "bus" -> [w EXCEPT !.inst[n.id] = bus_set_property(@, p, text)]
    [] n.kind = "signal" -> [w EXCEPT !.inst[n.id] = signal_set_property(@, n, text)]
    [] OTHER -> w
=============================================================================
