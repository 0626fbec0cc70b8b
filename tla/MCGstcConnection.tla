--------------------------- MODULE MCGstcConnection ---------------------------
(* GstcConnection for TLC: its callers as model values, and the clients the   *)
(* runs are about.                                                            *)
EXTENDS GstcConnection, TLC

CONSTANTS app, bus

\* A client with a wait time that opens a connection per call, and one without
\* a wait time that keeps its connection and whose requests arrive whole.
Sound == {[keep |-> FALSE, patient |-> {}, pieces |-> 2],
          [keep |-> TRUE, patient |-> {app}, pieces |-> 1]}

\* A client with a wait time whose bus thread waits without a limit.
WithBus == {[keep |-> FALSE, patient |-> {bus}, pieces |-> 1]}

\* A client with a wait time, per call or kept.
Timed == {[keep |-> k, patient |-> {}, pieces |-> 1] : k \in BOOLEAN}

\* A client without a wait time that keeps its connection.
Split == {[keep |-> TRUE, patient |-> {app}, pieces |-> 2]}
=============================================================================
