---------------------------- MODULE StableViews -----------------------------
(***************************************************************************)
(* What the loan ledger promises about one owned resource, seen from the   *)
(* outside: either somebody owns it and nobody reads it through a loan, or *)
(* it is lent and a set of readers is stable, or its readers have all gone *)
(* and its lender may take it back.  Nothing is said about scopes, shares, *)
(* pins or holds.                                                          *)
(***************************************************************************)
CONSTANTS Participant, Owned, None

VARIABLES
    owner,      \* who owns the occurrence and may write it, or None
    lender,     \* who lent it and may recover it, or None
    readers     \* who can read it through a loan

views == <<owner, lender, readers>>

Init ==
    /\ owner \in [Owned -> Participant]
    /\ lender = [o \in Owned |-> None]
    /\ readers = [o \in Owned |-> {}]

Lend(o, p, b) ==
    /\ owner[o] = p
    /\ owner' = [owner EXCEPT ![o] = None]
    /\ lender' = [lender EXCEPT ![o] = p]
    /\ readers' = [readers EXCEPT ![o] = {b}]

\* A reader keeps its view, or passes it on; every other reader keeps its own
\* and somebody is left to read.
Pass(o, p, R) ==
    /\ p \in readers[o]
    /\ R # {} /\ readers[o] \ {p} \subseteq R
    /\ readers' = [readers EXCEPT ![o] = R]
    /\ UNCHANGED <<owner, lender>>

\* Only the lender, as the last reader, closes the views.
Close(o, p) ==
    /\ lender[o] = p /\ readers[o] = {p}
    /\ readers' = [readers EXCEPT ![o] = {}]
    /\ UNCHANGED <<owner, lender>>

Recover(o, p) ==
    /\ lender[o] = p /\ readers[o] = {}
    /\ owner' = [owner EXCEPT ![o] = p]
    /\ lender' = [lender EXCEPT ![o] = None]
    /\ UNCHANGED readers

Next == \E o \in Owned, p \in Participant :
    \/ \E b \in Participant : Lend(o, p, b)
    \/ \E R \in SUBSET Participant : Pass(o, p, R)
    \/ Close(o, p)
    \/ Recover(o, p)

Spec == Init /\ [][Next]_views
=============================================================================
