------------------------- MODULE MCPopulationLedger -------------------------
(* Two arms of a branch, over one block of the heap.                        *)
EXTENDS PopulationLedger

Arms == Permutations(Arm)
=============================================================================
