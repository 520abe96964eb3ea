------------------------- MODULE MCLocalReferences --------------------------
(* Two invocations: one owns two scalars, the other owns one.               *)
EXTENDS LocalReferences

mcOwnerOf == [s \in Support |-> IF s = "z" THEN "callee" ELSE "caller"]
=============================================================================
