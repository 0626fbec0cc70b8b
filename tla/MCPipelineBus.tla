---------------------------- MODULE MCPipelineBus ----------------------------
(* Instances of PipelineBus. *)
EXTENDS PipelineBus, TLC
CONSTANTS w1, w2, c1

Eos == [types |-> {"eos"}, timeout |-> "forever"]
ErrorTimed == [types |-> {"error"}, timeout |-> "timed"]
Flush == [types |-> {}, timeout |-> "forever"]

\* A program that waits for the end of the stream, and one that waits for an error for a
\* while, or flushes the bus.
TwoPrograms == (w1 :> {Eos}) @@ (w2 :> {ErrorTimed, Flush})
=============================================================================
