----------------------------- MODULE MCPipeline -----------------------------
(* The pipeline on small instances.  The workers run the same code and the *)
(* specification never picks one by name, so they may be permuted in a run *)
(* that checks no liveness.                                                *)
EXTENDS Pipeline, TLC

Symmetry == Permutations(Workers)
=============================================================================
