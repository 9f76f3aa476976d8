----------------------------- MODULE MCReactor ------------------------------
(* Reactor for TLC: the handlers are interchangeable.                       *)
EXTENDS Reactor, TLC

Symmetry == Permutations(Handler)
=============================================================================
