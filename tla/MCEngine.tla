------------------------------ MODULE MCEngine ------------------------------
(* Engine for TLC.  A cfg chooses the PPBs, the commands and the bounds.    *)
EXTENDS Engine, TLC

(* The PPBs are interchangeable; only the safety runs reduce by it. *)
Symmetry == Permutations(Addr)
=============================================================================
