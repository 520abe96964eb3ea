--------------------------- MODULE MCLoanWindDown ---------------------------
(* A small instance of the ledger that is wound down.                       *)
EXTENDS LoanInstance, LoanWindDown
=============================================================================
