--------------------------- MODULE MCControlPlane ---------------------------
(***************************************************************************)
(* Client a makes any one call; client b creates, deletes, plays and sets  *)
(* on the same pipelines meanwhile.                                        *)
(***************************************************************************)
EXTENDS ControlPlane

CONSTANTS a, b

Prop(name, type, read, write, default) ==
  [name |-> name, type |-> type, read |-> read, write |-> write, default |-> default]
Sig(name, params) == [name |-> name, params |-> params]

\* Element e has a child with properties of its own, f is another element.
MCClass ==
  [e |-> [props |-> <<Prop("rate", "int", TRUE, TRUE, <<"1">>), Prop("ro", "int", TRUE, FALSE, <<"7">>),
                      Prop("key", "int", FALSE, TRUE, <<"0">>), Prop("title", "string", TRUE, TRUE, <<>>),
                      Prop("mix", "array", TRUE, TRUE, <<>>)>>,
          children |-> <<"c">>, signals |-> <<Sig("sig", <<"int">>)>>,
          actions |-> <<Sig("act", <<>>), Sig("add", <<"int">>), Sig("odd", <<"object">>)>>],
   c |-> [props |-> <<Prop("gain", "int", TRUE, TRUE, <<"1">>), Prop("mix", "array", TRUE, TRUE, <<>>)>>,
          children |-> <<>>, signals |-> <<>>, actions |-> <<>>],
   f |-> [props |-> <<>>, children |-> <<>>, signals |-> <<>>, actions |-> <<>>]]

MCLaunch == <<"e", "!", "f">> :> <<"f", "e">> @@ <<"f">> :> <<"f">>
MCNumber == [i \in {"0", "1", "5", "7", "-1"} |-> i] @@ ("0x5" :> "5")
MCUnquotable == {"a\"b"}
MCMsgTypes == {"eos", "error"}
MCFirst == <<[name |-> "p", desc |-> <<"e", "!", "f">>]>>
MCCalls == a :> 1 @@ b :> 2

Env(ok, late, part, msg, scan) == [ok |-> ok, late |-> late, part |-> part, msg |-> msg, scan |-> scan]
MCEnvs ==
  {Calm, Env(TRUE, TRUE, "null", "error", <<"resync", "next", "resync">>),
   Env(FALSE, FALSE, "ready", "qos", <<"next", "resync", "next">>),
   Env(FALSE, FALSE, "same", "element", <<"next", "next">>)}

-----------------------------------------------------------------------------
(* The calls, and the operations they stand for *)

Offer(made, ops) == [call |-> made, ops |-> ops]
One(made, op) == Offer(made, <<op>>)
Op(type, pipe, elem, prop, value) ==
  [type |-> type, pipe |-> pipe, elem |-> elem, prop |-> prop, value |-> value, valid |-> TRUE]
Not(op) == [op EXCEPT !.valid = FALSE]

Desc == <<"e", "!", "f">>
Look(p, e) == Op("look", p, e, "", "")
Ask(p, e) == Op("ask", p, e, "", "")

\* An entry of e's properties: the object and the property it is of, and how its values are shown.
Values == {<<>>, <<"1">>, <<"5">>, <<"7">>, <<"two", "words">>}
Shown == [v \in Values |-> IF v = <<>> THEN <<"">> ELSE IF Len(v) > 1 THEN <<"quoted">> \o v ELSE v]
EntryOf(entry, target, name) == [entry |-> entry, target |-> target, name |-> name, shown |-> Shown]
Rate == EntryOf("rate", "e", "rate")
Gain == EntryOf("c::gain", "c", "gain")
Title == EntryOf("title", "e", "title")
Mix == EntryOf("mix", "e", "mix")
Command(cmd, args) == Call(<<Line(cmd, <<>>, args)>>, "code")

Pipes ==
  {One(gstc_pipeline_create("q", Desc), Op("create", "q", "", "", Desc)),
   One(gstc_pipeline_create("p", <<"f">>), Op("create", "p", "", "", <<"f">>)),
   One(gstc_pipeline_create("q", <<"bogus">>), Not(Op("create", "q", "", "", Desc))),
   One(gstc_pipeline_create("q", <<>>), Not(Op("create", "q", "", "", Desc))),
   One(Command("pipeline_create", <<>>), Not(Op("create", "q", "", "", Desc))),
   One(Command("pipeline_create", <<"q">> \o Desc), Op("create", "q", "", "", Desc)),
   One(gstc_pipeline_delete("p"), Op("delete", "p", "", "", "")),
   One(gstc_pipeline_delete("q"), Op("delete", "q", "", "", "")),
   One(Command("pipeline_delete", <<"p">>), Op("delete", "p", "", "", "")),
   Offer(gstc_pipeline_delete(NULL), <<>>),
   One(gstc_pipeline_play("p"), Op("state", "p", "", "", "playing")),
   One(gstc_pipeline_pause("p"), Op("state", "p", "", "", "paused")),
   One(gstc_pipeline_stop("p"), Op("state", "p", "", "", "null")),
   One(Command("pipeline_play", <<"p">>), Op("state", "p", "", "", "playing")),
   One(Command("pipeline_pause", <<"p">>), Op("state", "p", "", "", "paused")),
   One(Command("pipeline_stop", <<"q">>), Op("state", "q", "", "", "null")),
   One(cmd_update(Pipeline("p", <<"state">>), <<"PAUSED">>), Op("state", "p", "", "", "paused")),
   One(cmd_update(Pipeline("p", <<"state">>), <<"faster">>), Not(Op("state", "p", "", "", "null"))),
   One(cmd_update(Pipeline("p", <<"state">>), <<>>), Not(Op("state", "p", "", "", "null"))),
   One(gst_pipeline_get_state("p"), Op("get_state", "p", "", "", "")),
   One(gstc_pipeline_create_ref("q", Desc), Not(Op("create", "q", "", "", Desc)))}

Props1 ==
  {One(gstc_element_get("p", "e", "rate"), Op("get", "p", "e", Rate, "")),
   One(gstc_element_get("p", "e", "c::gain"), Op("get", "p", "e", Gain, "")),
   One(gstc_element_get("p", "e", "title"), Op("get", "p", "e", Title, "")),
   One(gstc_element_get("p", "e", "key"), Not(Op("get", "p", "e", EntryOf("key", "e", "key"), ""))),
   One(gstc_element_get("p", "e", "none"), Not(Op("get", "p", "e", EntryOf("none", "e", "rate"), ""))),
   One(gstc_element_get("p", "x", "rate"), Op("get", "p", "x", Rate, "")),
   One(Command("element_get", <<"p", "e">>), Not(Ask("p", "e"))),
   One(Command("element_get", <<"p", "e", "mix">>), Look("p", "e")),
   One(Command("element_set", <<"p", "e", "rate", "0x5">>), Op("set", "p", "e", Rate, <<"5">>)),
   One(Command("element_set", <<"p", "e", "rate", "fast">>), Not(Op("set", "p", "e", Rate, <<>>))),
   One(Command("element_set", <<"p", "e", "title", "two", "words">>),
       Op("set", "p", "e", Title, <<"two", "words">>)),
   One(Command("element_set", <<"p", "e", "c::gain", "5">>), Op("set", "p", "e", Gain, <<"5">>)),
   One(Command("element_set", <<"p", "e", "mix", "5", "x">>), Op("set", "p", "e", Mix, <<"5", "0">>)),
   One(Command("element_set", <<"p", "e", "rate">>), Not(Ask("p", "e"))),
   One(gstc_element_set("p", "e", "rate", <<"5">>), Op("try_set", "p", "e", Rate, <<"5">>)),
   One(do_put(Element("p", "e", <<"properties", "rate">>), <<"fast">>),
       Op("try_set", "p", "e", Rate, <<"fast">>)),
   One(cmd_delete(Element("p", "e", <<"properties">>), <<"rate">>), Op("drop", "p", "e", "properties", "rate")),
   One(cmd_delete(Pipeline("p", <<"elements">>), <<"e">>), Op("drop_element", "p", "", "", "e")),
   One(cmd_delete(Pipeline("p", <<"state">>), <<"x">>), Look("p", "")),
   One(do_get(Element("p", "e", <<>>)), Look("p", "e")),
   One(gstc_element_properties_list("p", "e"), Op("names", "p", "e", "properties", "")),
   One(gstc_pipeline_list_signals("p", "e"), Op("names", "p", "e", "signals", "")),
   One(gstc_pipeline_list_elements("p"), Op("elements", "p", "", "", "")),
   One(gstc_pipeline_list_elements("q"), Op("elements", "q", "", "", "")),
   One(gstc_pipeline_list, Op("list", "", "", "", "")),
   One(Command("list_pipelines", <<>>), Op("look_session", "", "", "", "")),
   One(Command("list_elements", <<"p">>), Look("p", "")),
   One(Command("list_properties", <<"p", "e">>), Look("p", "e")),
   One(Command("list_signals", <<"p", "e">>), Look("p", "e")),
   One(cmd_read(Pipeline("p", <<"elements", "count">>), "code"), Look("p", "")),
   One(cmd_update(<<"pipelines", "count">>, <<"many">>), Op("look_session", "", "", "", "")),
   One(cmd_read(Element("p", "e", <<"actions", "add">>), "code"), Look("p", "e")),
   One(cmd_read(Element("p", "e", <<"gstelement">>), "code"), Look("p", "e"))}

Others ==
  {One(gstc_pipeline_get_graph("p"), Look("p", "")),
   One(Command("pipeline_get_graph", <<"p">>), Look("p", "")),
   One(gstc_pipeline_verbose("p", 1), Op("field", "p", "", "verbose", TRUE)),
   One(Command("pipeline_verbose", <<"p", "loud">>), Not(Op("field", "p", "", "verbose", TRUE))),
   One(gstc_client_ping, Op("look_session", "", "", "", "")),
   Offer(gstc_client_debug(<<"5">>, 0, 0),
         <<Op("debug", "", "", "enable", TRUE), Op("debug", "", "", "threshold", <<"5">>),
           Op("debug", "", "", "color", FALSE), Op("debug", "", "", "reset", FALSE)>>),
   One(Command("debug_enable", <<"true">>), Op("debug", "", "", "enable", TRUE)),
   One(Command("debug_threshold", <<"7">>), Op("debug", "", "", "threshold", <<"7">>)),
   One(Command("debug_color", <<"dark">>), Not(Op("debug", "", "", "color", TRUE))),
   One(Command("debug_reset", <<"false">>), Op("debug", "", "", "reset", FALSE)),
   One(Command("bus_filter", <<"p", "eos">>), Op("field", "p", "", "types", <<"eos">>)),
   One(Command("bus_filter", <<"p", "bogus">>), Not(Op("field", "p", "", "types", <<"eos">>))),
   One(Command("bus_timeout", <<"p", "5">>), Op("field", "p", "", "timeout", <<"5">>)),
   One(Command("bus_read", <<"p">>), Ask("p", "")),
   One(cmd_read(Pipeline("p", <<"bus">>), "code"), Look("p", "")),
   One(gstc_pipeline_inject_eos("p"), Ask("p", "")),
   One(Command("event_eos", <<"p">>), Ask("p", "")),
   One(gstc_pipeline_seek("p", <<"1", "5">>), Ask("p", "")),
   One(gstc_pipeline_seek("p", <<"0">>), Not(Ask("p", ""))),
   One(Command("event_seek", <<"p", "1">>), Ask("p", "")),
   One(gstc_pipeline_flush_start("p"), Ask("p", "")),
   One(Command("event_flush_start", <<"p">>), Ask("p", "")),
   One(gstc_pipeline_flush_stop("p", 1), Ask("p", "")),
   One(Command("event_flush_stop", <<"p", "false">>), Ask("p", "")),
   One(cmd_create(Element("p", "e", <<"event">>), <<"bogus">>), Not(Ask("p", "e"))),
   One(gstc_pipeline_emit_action("p", "e", "act"), Ask("p", "e")),
   One(gstc_pipeline_emit_action("p", "e", "add"), Not(Ask("p", "e"))),
   One(Command("action_emit", <<"p", "e", "add", "5">>), Ask("p", "e")),
   One(Command("action_emit", <<"p", "e", "odd", "5">>), Not(Ask("p", "e"))),
   Offer(gstc_pipeline_signal_connect("p", "e", "sig", "5"),
         <<Op("signal_timeout", "p", "e", "sig", <<"5">>), Ask("p", "e")>>),
   Offer(gstc_pipeline_signal_connect("p", "e", "sig", "soon"),
         <<Not(Op("signal_timeout", "p", "e", "sig", <<>>)), Ask("p", "e")>>),
   One(gstc_pipeline_signal_disconnect("p", "e", "sig"), Ask("p", "e")),
   One(Command("signal_connect", <<"p", "e", "sig">>), Ask("p", "e")),
   One(Command("signal_disconnect", <<"p", "e", "sig">>), Ask("p", "e")),
   One(Command("signal_timeout", <<"p", "e", "sig", "7">>), Op("signal_timeout", "p", "e", "sig", <<"7">>)),
   One(cmd_create(<<"">>, <<"x">>), Not(Op("look_session", "", "", "", ""))),
   One(cmd_update(Pipelines, <<"x">>), Not(Op("look_session", "", "", "", ""))),
   One(cmd_read(<<"pipelines", "p", "state", "more">>, "code"), Not(Ask("p", ""))),
   One(Command("bogus", <<>>), Not(Ask("p", ""))),
   One(do_get(<<"">>), Op("look_session", "", "", "", "")),
   One(do_get(Pipeline("p", <<>>)), Look("p", "")),
   One(do_post(Pipelines, <<"q">>, Desc), Op("create", "q", "", "", Desc)),
   One(do_put(Pipeline("p", <<"state">>), <<"playing">>), Op("state", "p", "", "", "playing")),
   One(do_delete(Pipelines, <<"p">>), Op("delete", "p", "", "", "")),
   Offer(do_delete(Pipelines, <<>>), <<>>)}

\* What the other client does meanwhile.
Interfering ==
  {One(gstc_pipeline_create("p", <<"f">>), Op("create", "p", "", "", <<"f">>)),
   One(gstc_pipeline_create("q", <<"f">>), Op("create", "q", "", "", <<"f">>)),
   One(gstc_pipeline_delete("p"), Op("delete", "p", "", "", "")),
   One(gstc_pipeline_play("p"), Op("state", "p", "", "", "playing")),
   One(gstc_pipeline_create("a\"b", <<"f">>), Op("create", "a\"b", "", "", <<"f">>)),
   One(Command("element_set", <<"p", "e", "rate", "7">>), Op("set", "p", "e", Rate, <<"7">>))}

\* One client lists the pipelines while the other makes one whose name has a quote.
ListOffers == a :> {One(gstc_pipeline_list, Op("list", "", "", "", ""))}
              @@ b :> {One(gstc_pipeline_create("a\"b", <<"f">>), Op("create", "a\"b", "", "", <<"f">>))}

\* A value is set on an element that may be gone by then.
SetOffers == a :> {One(gstc_element_set("p", "e", "rate", <<"5">>), Op("set", "p", "e", Rate, <<"5">>))}
             @@ b :> {One(gstc_pipeline_delete("p"), Op("delete", "p", "", "", ""))}

MCOffers == a :> (Pipes \cup Props1 \cup Others) @@ b :> Interfering
=============================================================================
