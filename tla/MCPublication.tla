---------------------------- MODULE MCPublication ----------------------------
(* Two workers beside the main thread; workers are interchangeable.        *)
EXTENDS Publication, TLC

CONSTANTS w1, w2

mcThread == {Main, w1, w2}

Workers == Permutations({w1, w2})
=============================================================================
