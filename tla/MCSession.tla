----------------------------- MODULE MCSession -----------------------------
(* Model values and symmetry for checking Session with TLC.               *)
EXTENDS Session, TLC

Symmetry == Permutations(Conn) \cup Permutations(Ctx) \cup Permutations(ClientId) \cup Permutations(Topic)
=============================================================================
