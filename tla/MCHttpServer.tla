----------------------------- MODULE MCHttpServer -----------------------------
(* HttpServer for TLC: the threads of its pool as model values.              *)
EXTENDS HttpServer, TLC

CONSTANTS w1, w2
=============================================================================
