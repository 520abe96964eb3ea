--------------------------- MODULE MCThreadLedger ---------------------------
(* Two tasks: one takes a cell and uses the mutex, the other views a local  *)
(* and uses the mutex.                                                      *)
EXTENDS ThreadLedger

mcTakes == [t \in Task |-> IF t = "writer" THEN {"c"} ELSE {}]
mcViews == [t \in Task |-> IF t = "reader" THEN {"l"} ELSE {}]
mcPayload == [m \in Mutex |-> "shared"]
mcUses == [t \in Task |-> {"m"}]
=============================================================================
