----------------------------- MODULE MCTactics -----------------------------
(* Two functions, the first calling the second, and two versions of their    *)
(* sidecar that differ in a tactic.                                          *)
EXTENDS IncrementalVerification

mcPathHash == [s \in Sidecar |-> "a"]
mcCallsIn == [b \in {"f", "g"} |-> IF b = "f" THEN {"g"} ELSE {}]

mcBase == [shared |-> 0, target |-> 0, tactics |-> 0, header |-> 0,
           block |-> [fn \in Fn |-> 0], body |-> [fn \in Fn |-> fn]]
mcEdits == {mcBase, [mcBase EXCEPT !.tactics = 1]}
=============================================================================
