------------------------------- MODULE Lists --------------------------------
(***************************************************************************)
(* Filtering of a list by a set, as a recursive function over its prefixes *)
(* about which facts can be proved (SessionLemmas).                        *)
(***************************************************************************)
EXTENDS Integers, Sequences

(* The elements of s that are in keep, in their order.                     *)
Filter(s, keep) ==
    LET F[i \in 0 .. Len(s)] ==
          IF i = 0 THEN <<>>
          ELSE IF s[i] \in keep THEN Append(F[i - 1], s[i]) ELSE F[i - 1]
    IN  F[Len(s)]
=============================================================================
