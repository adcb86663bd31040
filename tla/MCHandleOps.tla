----------------------------- MODULE MCHandleOps -----------------------------
(* Instances of HandleOps for TLC. *)
EXTENDS HandleOps, TLC

Symmetry == Permutations(Fid)
==============================================================================
