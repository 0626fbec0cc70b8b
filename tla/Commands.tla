------------------------------ MODULE Commands ------------------------------
(***************************************************************************)
(* How a call becomes a request: the C client's functions (libgstc.c), the *)
(* methods of the HTTP server (gstd_http.c) and the commands that the      *)
(* daemon's parser rewrites into create, read, update and delete           *)
(* (gstd_parser.c).                                                        *)
(*                                                                         *)
(* A line is [cmd, uri, args]: the command; the URI's segments, for the    *)
(* four commands that have one; and the words after it.  <<>> is a NULL    *)
(* string and <<"">> the empty one.  A name has neither blank nor slash.   *)
(***************************************************************************)
EXTENDS Naturals, Sequences, SequencesExt

Line(cmd, uri, args) == [cmd |-> cmd, uri |-> uri, args |-> args]

\* g_strsplit gives no token for the empty string.
Tokens(args) == IF args = <<"">> THEN <<>> ELSE args

\* The words after the n-th, NULL if there is none.
After(args, n) == IF n >= Len(args) THEN <<>> ELSE SubSeq(args, n + 1, Len(args))

Pipelines == <<"pipelines">>
Pipeline(p, rest) == <<"pipelines", p>> \o rest
Element(p, e, rest) == <<"pipelines", p, "elements", e>> \o rest

-----------------------------------------------------------------------------
(* gstd_parser.c: what parse_raw_cmd is called with, or a code *)

Raw(verb, uri, rest) == [code |-> "EOK", verb |-> verb, uri |-> uri, rest |-> rest]
Refuse(code) == [code |-> code, verb |-> "none", uri |-> <<>>, rest |-> <<>>]

\* g_return_val_if_fail (args, GSTD_NULL_ARGUMENT)
NotNull(args, raw) == IF args = <<>> THEN Refuse("NULL_ARGUMENT") ELSE raw

\* The same, and check_argument for the first n tokens.
check_argument(args, n, raw) ==
  NotNull(args, IF Len(Tokens(args)) < n THEN Refuse("BAD_COMMAND") ELSE raw)

parser_pipeline_create(args) == Raw("create", Pipelines, IF args = <<>> THEN <<"">> ELSE args)
parser_pipeline_delete(args) == NotNull(args, Raw("delete", Pipelines, args))
parser_pipeline_play(args) ==
  NotNull(args, Raw("update", Pipeline(args[1], <<"state">>), <<"playing">>))
parser_pipeline_pause(args) ==
  NotNull(args, Raw("update", Pipeline(args[1], <<"state">>), <<"paused">>))
parser_pipeline_stop(args) ==
  NotNull(args, Raw("update", Pipeline(args[1], <<"state">>), <<"null">>))
parser_pipeline_graph(args) ==
  NotNull(args, Raw("read", Pipeline(args[1], <<"graph">>), <<>>))
parser_pipeline_verbose(args) ==
  check_argument(args, 2, Raw("update", Pipeline(args[1], <<"verbose">>), After(args, 1)))

parser_element_set(args) ==
  check_argument(args, 4,
    Raw("update", Element(args[1], args[2], <<"properties", args[3]>>), After(args, 3)))
parser_element_get(args) ==
  check_argument(args, 3,
    Raw("read", Element(args[1], args[2], <<"properties", args[3]>>), <<>>))

parser_list_pipelines(args) == Raw("read", Pipelines, <<>>)
parser_list_elements(args) ==
  NotNull(args, Raw("read", Pipeline(args[1], <<"elements", "">>), <<>>))
parser_list_properties(args) ==
  check_argument(args, 2, Raw("read", Element(args[1], args[2], <<"properties">>), <<>>))
parser_list_signals(args) ==
  check_argument(args, 2, Raw("read", Element(args[1], args[2], <<"signals">>), <<>>))

parser_bus_read(args) ==
  NotNull(args, Raw("read", Pipeline(args[1], <<"bus", "message">>), <<>>))
parser_bus_filter(args) ==
  check_argument(args, 2, Raw("update", Pipeline(args[1], <<"bus", "types">>), After(args, 1)))
parser_bus_timeout(args) ==
  check_argument(args, 2, Raw("update", Pipeline(args[1], <<"bus", "timeout">>), After(args, 1)))

\* printf's %s of a NULL string.
Printed(words) == IF words = <<>> THEN <<"(null)">> ELSE words

parser_event_eos(args) ==
  NotNull(args, Raw("create", Pipeline(args[1], <<"event">>), <<"eos">>))
parser_event_seek(args) ==
  check_argument(args, 1,
    Raw("create", Pipeline(args[1], <<"event">>), <<"seek">> \o Printed(After(args, 1))))
parser_event_flush_start(args) ==
  NotNull(args, Raw("create", Pipeline(args[1], <<"event">>), <<"flush_start">>))
parser_event_flush_stop(args) ==
  check_argument(args, 1,
    Raw("create", Pipeline(args[1], <<"event">>), <<"flush_stop">> \o Printed(After(args, 1))))

\* check_argument without the NULL check before it.
Given(args, raw) == IF args = <<>> THEN Refuse("BAD_COMMAND") ELSE raw
parser_debug_enable(args) == Given(args, Raw("update", <<"debug", "enable">>, args))
parser_debug_threshold(args) == Given(args, Raw("update", <<"debug", "threshold">>, args))
parser_debug_color(args) == Given(args, Raw("update", <<"debug", "color">>, args))
parser_debug_reset(args) == Given(args, Raw("update", <<"debug", "reset">>, args))

parser_signal_connect(args) ==
  check_argument(args, 3,
    Raw("read", Element(args[1], args[2], <<"signals", args[3], "callback">>), <<>>))
parser_signal_disconnect(args) ==
  check_argument(args, 3,
    Raw("read", Element(args[1], args[2], <<"signals", args[3], "disconnect">>), <<>>))
parser_signal_timeout(args) ==
  check_argument(args, 4,
    Raw("update", Element(args[1], args[2], <<"signals", args[3], "timeout">>), After(args, 3)))

\* The action's name is the name of what is created, and the parameters its description.
parser_action_emit(args) ==
  check_argument(args, 3,
    Raw("create", Element(args[1], args[2], <<"actions", args[3]>>),
        <<args[3]>> \o Tokens(After(args, 3))))

\* The commands with a counter do steps of their own under locks of their own; they are
\* PipelineRegistry's.
Counted == {"pipeline_create_ref", "pipeline_delete_ref", "pipeline_play_ref", "pipeline_stop_ref"}

\* The table of the others.
cmds(cmd, args) ==
  CASE cmd = "pipeline_create" -> parser_pipeline_create(args)
    [] cmd = "pipeline_delete" -> parser_pipeline_delete(args)
    [] cmd = "pipeline_play" -> parser_pipeline_play(args)
    [] cmd = "pipeline_pause" -> parser_pipeline_pause(args)
    [] cmd = "pipeline_stop" -> parser_pipeline_stop(args)
    [] cmd = "pipeline_get_graph" -> parser_pipeline_graph(args)
    [] cmd = "pipeline_verbose" -> parser_pipeline_verbose(args)
    [] cmd = "element_set" -> parser_element_set(args)
    [] cmd = "element_get" -> parser_element_get(args)
    [] cmd = "list_pipelines" -> parser_list_pipelines(args)
    [] cmd = "list_elements" -> parser_list_elements(args)
    [] cmd = "list_properties" -> parser_list_properties(args)
    [] cmd = "list_signals" -> parser_list_signals(args)
    [] cmd = "bus_read" -> parser_bus_read(args)
    [] cmd = "bus_filter" -> parser_bus_filter(args)
    [] cmd = "bus_timeout" -> parser_bus_timeout(args)
    [] cmd = "event_eos" -> parser_event_eos(args)
    [] cmd = "event_seek" -> parser_event_seek(args)
    [] cmd = "event_flush_start" -> parser_event_flush_start(args)
    [] cmd = "event_flush_stop" -> parser_event_flush_stop(args)
    [] cmd = "signal_connect" -> parser_signal_connect(args)
    [] cmd = "signal_timeout" -> parser_signal_timeout(args)
    [] cmd = "signal_disconnect" -> parser_signal_disconnect(args)
    [] cmd = "action_emit" -> parser_action_emit(args)
    [] cmd = "debug_enable" -> parser_debug_enable(args)
    [] cmd = "debug_threshold" -> parser_debug_threshold(args)
    [] cmd = "debug_color" -> parser_debug_color(args)
    [] cmd = "debug_reset" -> parser_debug_reset(args)
    [] OTHER -> Refuse("BAD_COMMAND")

\* create, read, update and delete go to parse_raw_cmd as they are.
parse_cmd(line) ==
  IF line.cmd \in {"create", "read", "update", "delete"}
  THEN Raw(line.cmd, line.uri, line.args)
  ELSE cmds(line.cmd, line.args)

-----------------------------------------------------------------------------
(* libgstc.c: a call is the requests it sends, one after the other until one fails, and  *)
(* what it makes of the last answer: its code; with code 0, a value or a list of names;  *)
(* or nothing at all.                                                                     *)

Call(lines, decode) == [lines |-> lines, decode |-> decode]

\* gstc_assert_and_ret_val: a NULL argument is refused before anything is sent.
NULL == "(null)"
gstc_assert(names, call) == IF NULL \in names THEN Call(<<>>, "NULL_ARGUMENT") ELSE call

cmd_create(where, what) == Call(<<Line("create", where, what)>>, "code")
cmd_read(what, decode) == Call(<<Line("read", what, <<>>)>>, decode)
cmd_update(what, how) == Call(<<Line("update", what, how)>>, "code")
cmd_delete(where, what) == Call(<<Line("delete", where, what)>>, "code")

gstc_pipeline_create(p, desc) == gstc_assert({p}, cmd_create(Pipelines, <<p>> \o desc))
gstc_pipeline_delete(p) == gstc_assert({p}, cmd_delete(Pipelines, <<p>>))

\* The command's name is spelt so in PIPELINE_CREATE_REF_FORMAT, and is in no table.
gstc_pipeline_create_ref(p, desc) ==
  gstc_assert({p}, Call(<<Line("pipeline_crete_ref", <<>>, <<p>> \o desc)>>, "code"))

cmd_change_state(p, state) == cmd_update(Pipeline(p, <<"state">>), <<state>>)
gstc_pipeline_play(p) == gstc_assert({p}, cmd_change_state(p, "playing"))
gstc_pipeline_pause(p) == gstc_assert({p}, cmd_change_state(p, "paused"))
gstc_pipeline_stop(p) == gstc_assert({p}, cmd_change_state(p, "null"))

gstc_pipeline_get_graph(p) == gstc_assert({p}, cmd_read(Pipeline(p, <<"graph">>), "code"))
gst_pipeline_get_state(p) == gstc_assert({p}, cmd_read(Pipeline(p, <<"state">>), "value"))
gstc_pipeline_verbose(p, value) ==
  gstc_assert({p}, cmd_update(Pipeline(p, <<"verbose">>), <<IF value = 0 THEN "false" ELSE "true">>))

gstc_client_ping == cmd_read(<<"">>, "code")
gstc_client_debug(threshold, colors, reset) ==
  Call(<<Line("update", <<"debug", "enable">>, <<"true">>),
         Line("update", <<"debug", "threshold">>, threshold),
         Line("update", <<"debug", "color">>, <<IF colors = 0 THEN "false" ELSE "true">>),
         Line("update", <<"debug", "reset">>, <<IF reset = 0 THEN "false" ELSE "true">>)>>,
       "code")

gstc_element_get(p, e, property) ==
  gstc_assert({p, e, property}, cmd_read(Element(p, e, <<"properties", property>>), "value"))

\* The answer is not looked at.
gstc_element_set(p, e, parameter, how) ==
  [cmd_update(Element(p, e, <<"properties", parameter>>), how) EXCEPT !.decode = "ignored"]

gstc_pipeline_flush_start(p) ==
  gstc_assert({p}, cmd_create(Pipeline(p, <<"event">>), <<"flush_start">>))
gstc_pipeline_flush_stop(p, reset) ==
  gstc_assert({p}, cmd_create(Pipeline(p, <<"event">>),
                              <<"flush_stop", IF reset # 0 THEN "true" ELSE "false">>))
gstc_pipeline_inject_eos(p) == cmd_create(Pipeline(p, <<"event">>), <<"eos">>)
gstc_pipeline_seek(p, how) ==
  gstc_assert({p}, cmd_create(Pipeline(p, <<"event">>), <<"seek">> \o how))

gstc_pipeline_list == cmd_read(Pipelines, "names")
gstc_pipeline_list_elements(p) ==
  gstc_assert({p}, cmd_read(Pipeline(p, <<"elements", "">>), "names"))
gstc_element_properties_list(p, e) ==
  gstc_assert({p, e}, cmd_read(Element(p, e, <<"properties">>), "names"))
gstc_pipeline_list_signals(p, e) ==
  gstc_assert({p, e}, cmd_read(Element(p, e, <<"signals">>), "names"))

gstc_pipeline_emit_action(p, e, action) ==
  cmd_create(Element(p, e, <<"actions", action>>), <<action>>)

\* The second request only if the first was accepted.
gstc_pipeline_signal_connect(p, e, signal, timeout) ==
  gstc_assert({p, e, signal},
    Call(<<Line("update", Element(p, e, <<"signals", signal, "timeout">>), <<timeout>>),
           Line("read", Element(p, e, <<"signals", signal, "callback">>), <<>>)>>, "code"))
gstc_pipeline_signal_disconnect(p, e, signal) ==
  gstc_assert({p, e, signal}, cmd_read(Element(p, e, <<"signals", signal, "disconnect">>), "code"))

-----------------------------------------------------------------------------
(* gstd_http.c *)

\* What the client of the HTTP server is told of a code.
get_status_code(ret) ==
  IF ret = "EOK" THEN 200
  ELSE IF ret \in {"BAD_COMMAND", "NO_RESOURCE"} THEN 404
  ELSE IF ret = "EXISTING_RESOURCE" THEN 409
  ELSE IF ret = "BAD_VALUE" THEN 204
  ELSE 400

\* Without a name in the query or the body there is no line to parse.
Named(name, line) == Call(IF name = <<>> THEN <<>> ELSE <<line>>, "http")
do_get(path) == Call(<<Line("read", path, <<>>)>>, "http")
do_post(path, name, description) == Named(name, Line("create", path, name \o description))
do_put(path, name) == Named(name, Line("update", path, name))
do_delete(path, name) == Named(name, Line("delete", path, name))
=============================================================================
