--------------------------- MODULE MCMutexLedger ---------------------------
(* A mutex in automatic storage and one in owned storage; the declarations  *)
(* of all instances name the one in owned storage.                          *)
EXTENDS MutexLedger

mcProtects == [i \in Instance |-> "heap"]

\* What the rest of a path can read.  The chain of steps since the loop head,
\* the head and the value of the condition are compared at the back edge, and
\* a visit that changed a loan has none: of its head only the clause is read.
Readable ==
    LET compared == phase = "closed" \/ (phase = "body" /\ ~st.loanSteps) IN
    <<IF compared THEN st ELSE [AtHead(st) EXCEPT !.loanSteps = (phase = "body")],
      IF compared THEN top ELSE HasClause,
      compared /\ flag, phase, sameAsHead, headKnown, real, spoiled, ended,
      nextInit, nextEpoch>>
=============================================================================
