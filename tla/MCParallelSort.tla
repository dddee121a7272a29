---------------------------- MODULE MCParallelSort ----------------------------
(* Small instances of the parallel sort.                                     *)
EXTENDS SortProperties

TwoValues == 0..1
ThreeValues == 0..2
FourValues == 0..3
===============================================================================
