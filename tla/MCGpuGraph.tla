----------------------------- MODULE MCGpuGraph -----------------------------
(* The graph for TLC: interchangeable tokens. *)
EXTENDS GpuGraph, TLC

Tokens == Permutations(Token)
=============================================================================
