-------------------------- MODULE MCExclusiveCalls --------------------------
(* A small instance of the exclusive calls: a root owner and two others.    *)
EXTENDS ExclusiveCalls, TLC

CONSTANTS root, mid, leaf
mcParticipant == {root, mid, leaf}
sym == Permutations({mid, leaf})
=============================================================================
