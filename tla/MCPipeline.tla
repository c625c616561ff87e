------------------------------ MODULE MCPipeline ------------------------------
(* Pipeline for TLC: handlers are interchangeable.                         *)
EXTENDS Pipeline, TLC

Symmetry == Permutations(Request)

=============================================================================
