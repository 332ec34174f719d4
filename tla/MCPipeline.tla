----------------------------- MODULE MCPipeline -----------------------------
(* Small instances of Pipeline for TLC. *)
EXTENDS Pipeline, TLC

ClientSymmetry == Permutations(Clients)
=============================================================================
