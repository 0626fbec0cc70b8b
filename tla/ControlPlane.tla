---------------------------- MODULE ControlPlane ----------------------------
(***************************************************************************)
(* The client library, the command parser and the daemon's resources       *)
(* together: every call of libgstc (and a method of the HTTP server) from  *)
(* the request it sends to the status it returns, while other clients'     *)
(* requests are served at the same time.                                   *)
(*                                                                         *)
(* A request takes three steps, between which others run: the URI is       *)
(* resolved to a node, which the request then holds; the operation is done *)
(* on that node; and the answer is made from what is there by then.  The   *)
(* transport is GstcConnection's and HttpServer's; the four commands with  *)
(* a counter, which look up more than once, are PipelineRegistry's and are *)
(* not among the calls here.                                               *)
(***************************************************************************)
EXTENDS Documents, Commands

CONSTANTS
  Clients,
  Offers,     \* the calls each client makes, with the operations they stand for
  Calls,      \* how many calls each client makes
  Envs,       \* what GStreamer may answer
  First       \* the pipelines there are at first, each a name and a description

\* The words of a line are strings and its command is not one of those with a counter, a
\* refused change of state stops in a state, and the first pipelines were accepted under names
\* of their own.
ASSUME ControlAssumption ==
  /\ Calls \in [Clients -> Nat]
  /\ \A c \in Clients : \A o \in Offers[c] :
       /\ o.call.lines \in Seq([cmd : STRING, uri : Seq(STRING), args : Seq(STRING)])
       /\ \A i \in DOMAIN o.call.lines : o.call.lines[i].cmd \notin Counted
  /\ \A env \in Envs : env.part \in States \cup {"same"} /\ env.scan \in Seq(STRING)
  /\ First \in Seq([name : STRING, desc : DOMAIN Launch])
  /\ \A i, j \in DOMAIN First : First[i].name = First[j].name => i = j

VARIABLES
  world,      \* the session's content
  cl,         \* what each client, and the daemon's thread that serves it, is doing
  left        \* how many calls each client still makes

vars == <<world, cl, left>>

Free == [phase |-> "idle", lines |-> <<>>, decode |-> "code", ops |-> <<>>, at |-> 0,
         node |-> NullNode, code |-> "EOK", resp |-> <<>>, got |-> Read("OK", <<>>)]

\* gstd_debug_init, gstd_session_init and the pipelines made before.
Calm == [ok |-> TRUE, late |-> FALSE, part |-> "null", msg |-> "none", scan |-> <<>>]
Init ==
  /\ world = [pipes |-> [i \in DOMAIN First |-> i],
              inst |-> [i \in DOMAIN First |->
                          pipeline_init(First[i].name, First[i].desc, Launch[First[i].desc])],
              debug |-> [enable |-> FALSE, color |-> TRUE, threshold |-> <<"0">>, reset |-> TRUE,
                         level |-> {}]]
  /\ cl = [c \in Clients |-> Free]
  /\ left = Calls

Line1(c) == cl[c].lines[cl[c].at]
Parsed(c) == parse_cmd(Line1(c))

-----------------------------------------------------------------------------
(* The client sends *)

\* A call that is refused before anything is sent returns at once.
call(c) ==
  /\ cl[c].phase \in {"idle", "end"}
  /\ left[c] > 0
  /\ left' = [left EXCEPT ![c] = @ - 1]
  /\ \E o \in Offers[c] :
       cl' = [cl EXCEPT ![c] =
                IF o.call.lines = <<>> THEN [Free EXCEPT !.phase = "end", !.got = Read("NULL_ARGUMENT", <<>>)]
                ELSE [Free EXCEPT !.phase = "sent", !.lines = o.call.lines, !.at = 1,
                                  !.decode = o.call.decode, !.ops = o.ops]]
  /\ UNCHANGED world

-----------------------------------------------------------------------------
(* What the client makes of an answer *)

\* gstc_cmd_send_get_response: the answer's code is the call's status.
cmd_send_get_response(reply) ==
  LET code == gstc_json_get_int(reply, "code") IN
  IF code.ret # "OK" THEN code.ret ELSE IF code.out = <<"EOK">> THEN "OK" ELSE code.out[1]

\* The status that the caller sees, and what was read.
Received(decode, code, reply) ==
  LET status == cmd_send_get_response(reply)
      value == gstc_json_child_string(reply, "response", "value")
      names == gstc_json_get_child_char_array(reply, "response", "nodes", "name")
  IN CASE decode = "ignored" -> Read("OK", <<>>)
       [] decode = "http" ->
            Read(IF get_status_code(code) \in 200 .. 299 THEN "OK" ELSE code, <<>>)
       [] decode = "value" /\ status = "OK" -> value
       [] decode = "names" /\ status = "OK" -> names
       [] OTHER -> Read(status, <<>>)

-----------------------------------------------------------------------------
(* The daemon's thread *)

\* got is what the client will make of the answer as it is by now.
Goto(c, phase, code, node, resp) ==
  cl' = [cl EXCEPT ![c].phase = phase, ![c].code = code, ![c].node = node, ![c].resp = resp,
                   ![c].got = IF phase = "found" THEN @
                              ELSE Received(cl[c].decode, code, Reply(code, resp))]

\* gstd_parser_parse_cmd, and gstd_parser_parse_raw_cmd up to the node.
resolve(c) ==
  /\ cl[c].phase = "sent"
  /\ LET raw == Parsed(c) IN
     \/ raw.code # "EOK" /\ Goto(c, "done", raw.code, NullNode, <<>>)
     \/ /\ raw.code = "EOK"
        /\ \E got \in {get_by_uri(world, raw.uri, env) : env \in Envs} :
             Goto(c, IF got.code = "EOK" THEN "found" ELSE "done", got.code, got.node, <<>>)
  /\ UNCHANGED <<world, left>>

\* The name, and the description after it, of a create.
NameOf(rest) == IF Tokens(rest) = <<>> THEN <<>> ELSE <<rest[1]>>
DescOf(rest) == After(rest, 1)

parser_create(n, rest, env) == object_create(world, n, NameOf(rest), DescOf(rest), env)
parser_update(n, rest, env) ==
  IF rest = <<>> THEN Done("BAD_VALUE", world) ELSE object_update(world, n, rest, env)
parser_delete(n, rest, env) ==
  IF rest = <<>> THEN Done("NULL_ARGUMENT", world) ELSE object_delete(world, n, rest[1], env)

\* The operation on the node that the request holds.  There is nothing to do on a null node,
\* which is answered with success and null, and a read only makes its answer.
Operated(c, raw, env) ==
  IF cl[c].node = NullNode THEN Done("EOK", world) ELSE
  CASE raw.verb = "create" -> parser_create(cl[c].node, raw.rest, env)
    [] raw.verb = "read" -> Done("EOK", world)
    [] raw.verb = "update" -> parser_update(cl[c].node, raw.rest, env)
    [] raw.verb = "delete" -> parser_delete(cl[c].node, raw.rest, env)

operate(c) ==
  /\ cl[c].phase = "found"
  /\ LET raw == Parsed(c)
         text == IF raw.verb = "read" /\ cl[c].node # NullNode THEN to_string(world, cl[c].node) ELSE <<>>
     IN \E done \in {Operated(c, raw, env) : env \in Envs} :
          /\ world' = done.w
          /\ Goto(c, IF done.code = "EOK" THEN "acted" ELSE "done", done.code, cl[c].node, text)
  /\ UNCHANGED left

\* What is written after a success: of a create the child it made, if it can be read and is
\* still there, of an update the node.
Answer(c, raw) ==
  CASE raw.verb = "create" ->
         LET child == object_read(world, cl[c].node, NameOf(raw.rest)[1], Calm)
         IN IF child.node = NullNode THEN <<>> ELSE to_string(world, child.node)
    [] raw.verb = "update" -> to_string(world, cl[c].node)
    [] OTHER -> cl[c].resp

answer(c) ==
  /\ cl[c].phase = "acted"
  /\ Goto(c, "done", "EOK", cl[c].node, IF cl[c].node = NullNode THEN <<>> ELSE Answer(c, Parsed(c)))
  /\ UNCHANGED <<world, left>>

-----------------------------------------------------------------------------
(* The client receives *)

\* The next request only if this one succeeded.
receive(c) ==
  /\ cl[c].phase = "done"
  /\ IF cl[c].got.ret = "OK" /\ cl[c].at < Len(cl[c].lines)
     THEN cl' = [cl EXCEPT ![c].phase = "sent", ![c].at = @ + 1, ![c].node = NullNode, ![c].code = "EOK",
                           ![c].resp = <<>>, ![c].got = Free.got]
     ELSE cl' = [cl EXCEPT ![c] = [Free EXCEPT !.phase = "end", !.got = cl[c].got]]
  /\ UNCHANGED <<world, left>>

-----------------------------------------------------------------------------

\* GStreamer completes a change of state, or gives it up.
settle(id) ==
  /\ world.inst[id].goal # world.inst[id].cur
  /\ \/ world' = [world EXCEPT !.inst[id].cur = world.inst[id].goal]
     \/ world' = [world EXCEPT !.inst[id].goal = world.inst[id].cur]
  /\ UNCHANGED <<cl, left>>

Next ==
  \/ \E c \in Clients : call(c) \/ resolve(c) \/ operate(c) \/ answer(c) \/ receive(c)
  \/ \E id \in DOMAIN world.inst : settle(id)

Spec == Init /\ [][Next]_vars

-----------------------------------------------------------------------------
(* Correctness *)

Codes == {"EOK", "BAD_COMMAND", "NULL_ARGUMENT", "NO_CREATE", "NO_UPDATE", "BAD_VALUE",
          "NO_RESOURCE", "EXISTING_RESOURCE", "EXISTING_NAME", "MISSING_NAME", "MISSING_ARGUMENT",
          "BAD_DESCRIPTION", "STATE_ERROR", "EVENT_ERROR", "NO_PIPELINE", "MISSING_INITIALIZATION"}

\* A listed id is a pipeline's and is listed once; a request that holds a node has a line to
\* serve; and what the daemon answers is one of its codes.
TypeOK ==
  /\ \A i \in DOMAIN world.pipes : world.pipes[i] \in DOMAIN world.inst
  /\ \A i, j \in DOMAIN world.pipes : world.pipes[i] = world.pipes[j] => i = j
  /\ \A id \in DOMAIN world.inst : {world.inst[id].goal, world.inst[id].cur} \subseteq States
  /\ \A c \in Clients :
       /\ left[c] \in 0 .. Calls[c]
       /\ cl[c].phase \in {"idle", "sent", "found", "acted", "done", "end"}
       /\ cl[c].phase \in {"sent", "found", "acted", "done"} => cl[c].at \in DOMAIN cl[c].lines
       /\ cl[c].code \in Codes

\* The text of an element lacks a bracket (gstd_element_to_string).
ReadsElement(c) == Parsed(c).verb = "read" /\ cl[c].node.kind = "element"

\* A name that has to be escaped was printed into the text as it is (gstd_list_to_string).
PrintsRaw(tokens) == \E text \in Texts(tokens) : HasRaw(text)

\* Every answer is a JSON document (the lists' texts, cut and pasted together, included),
\* whatever other requests changed since the operation it is about; but not the text of an
\* element, nor that of a list with a name in it that would have to be escaped.
RepliesWellFormed ==
  \A c \in Clients :
    LET reply == Reply(cl[c].code, cl[c].resp)
    IN cl[c].phase = "done" /\ ~ReadsElement(c) /\ ~PrintsRaw(reply) => IsDocument(reply)

\* libgstc_json.c takes every answer for a JSON document.
AnswersParse ==
  \A c \in Clients :
    cl[c].phase = "done" /\ ~ReadsElement(c) => IsDocument(Reply(cl[c].code, cl[c].resp))

\* A call whose request the daemon refused does not return success, as libgstc.h says of each
\* of its functions.
FailureTold ==
  \A c \in Clients :
    cl[c].phase = "done" /\ cl[c].code # "EOK" => cl[c].got.ret # "OK"

\* The pipeline that a request holds.
Target(c) ==
  IF cl[c].ops[cl[c].at].type \in {"create", "delete", "list", "debug", "look_session", "look", "ask"}
  THEN 0
  ELSE IF cl[c].node.kind = "value" THEN cl[c].node.of.id ELSE cl[c].node.id

Unseen == [phase |-> "idle", ops |-> <<>>, at |-> 0, target |-> 0, ok |-> TRUE, out |-> <<>>]

\* What the store's specification sees of a client: an operation has taken effect, or was
\* refused, as soon as the daemon has done it, and its result is what the client makes of
\* the answer.
Seen(c) ==
  LET called == [Unseen EXCEPT !.phase = "called", !.ops = cl[c].ops, !.at = cl[c].at]
  IN CASE cl[c].phase = "idle" -> Unseen
       [] cl[c].phase = "sent" -> called
       [] cl[c].phase = "found" -> [called EXCEPT !.phase = "bound", !.target = Target(c)]
       [] cl[c].phase \in {"acted", "done"} ->
            [called EXCEPT !.phase = "applied", !.ok = cl[c].got.ret = "OK", !.out = cl[c].got.out]
       [] cl[c].phase = "end" ->
            [Unseen EXCEPT !.phase = "returned", !.ok = cl[c].got.ret = "OK", !.out = cl[c].got.out]

Store == INSTANCE ResourceStore WITH store <- world, pend <- [c \in Clients |-> Seen(c)]

\* The client library, the parser, the resources and their documents implement the store:
\* every call is told of a success exactly if each of its operations took effect on the
\* pipeline that had the name when the request was resolved, reads return what was there when
\* the operation was done, and a failure has a cause and leaves nothing behind.  The calls are
\* all but the four with a counter.
Implements == Store!Spec
=============================================================================
