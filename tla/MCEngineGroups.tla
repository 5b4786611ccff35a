--------------------------- MODULE MCEngineGroups ---------------------------
(* EngineGroups for TLC.  A cfg chooses the PPBs, the commands, the bounds. *)
EXTENDS EngineGroups, TLC

Symmetry == Permutations(Addr)
=============================================================================
