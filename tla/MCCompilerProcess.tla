------------------------- MODULE MCCompilerProcess -------------------------
(* Three process numbers: the compiler and two descendants.                 *)
EXTENDS CompilerProcess
=============================================================================
