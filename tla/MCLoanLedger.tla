---------------------------- MODULE MCLoanLedger ----------------------------
(* A small instance of the loan ledger.                                     *)
EXTENDS LoanInstance

\* One participant owns everything at first.  Ledgers in which the token, the
\* owned mutex or the received buffer is lent are explored while small; the
\* list, the received mutex and the local view up to all bounds.
Small ==
    /\ next.loan = 0 => \A o \in Owned : owner[o] = ana
    /\ \/ \A l \in DOMAIN loans : loans[l].support \in {"ownList", "inMutex", "stack"}
       \/ next.loan <= 2 /\ next.share <= 3
=============================================================================
