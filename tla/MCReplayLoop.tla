---------------------------- MODULE MCReplayLoop ----------------------------
(***************************************************************************)
(* An instance of ReplayLoop for TLC, with its symmetry.                   *)
(***************************************************************************)
EXTENDS ReplayLoop, TLC

Symmetry == Permutations(Targets) \cup Permutations(Replays)
=============================================================================
