-------------------------- MODULE MCPipelineRegistry --------------------------
(* Instances of PipelineRegistry for TLC. *)
EXTENDS PipelineRegistry, TLC

CONSTANTS t1, t2, t3, a1, a2, a3

\* Threads differ in nothing but identity, and so do addresses.
Symmetry == Permutations(Thread) \cup Permutations(Pipe)
=============================================================================
