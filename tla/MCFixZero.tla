------------------------------- MODULE MCFixZero -------------------------------
(* A caller of the fixpoint library that adds numbers into a variable that is  *)
(* neither of them, as the tests of the library do, and negates what it got.   *)
EXTENDS FixPoint

AddsNext == \/ \E r, a, b \in Pointers : r \notin {a, b} /\ Add(r, a, b)
            \/ \E r \in Pointers : Negate(r)
            \/ GoesOn

AddsSpec == FixInit /\ [][AddsNext]_fixVars
===============================================================================
