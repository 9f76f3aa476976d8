----------------------------- MODULE MCPersist -----------------------------
(* Model values and symmetry for checking Persist with TLC.               *)
EXTENDS Persist, TLC

Symmetry == Permutations(Ctx)
=============================================================================
