----------------------------- MODULE MCPipeline -----------------------------
(***************************************************************************)
(* Small instances of Pipeline for TLC.                                    *)
(***************************************************************************)
EXTENDS Pipeline, TLC

\* Runs and instances are interchangeable names.
Symmetry == Permutations(Runs) \cup Permutations(Instances)
=============================================================================
