---------------------------- MODULE LoanInstance ----------------------------
(* The participants, resources and occurrences of the small instances.      *)
EXTENDS LoanLedger

CONSTANTS ana, bo

mcParticipant == {ana, bo}

\* A composite list whose frontier is a concrete cell and a nested composite
\* of a symbolic buffer; a part of that buffer; a range of local storage; a
\* token and a mutex.
mcResource == {"list", "cell", "rest", "buf", "half", "local", "token", "mutex"}
mcMemory == {"cell", "buf", "half", "local"}
mcKind == [r \in mcResource |->
    CASE r \in mcMemory -> "memory"
      [] r \in {"list", "rest"} -> "composite"
      [] r = "token" -> "token"
      [] r = "mutex" -> "mutex"]
mcFrontier == [r \in mcResource |->
    CASE r = "list" -> {"cell", "rest"} [] r = "rest" -> {"buf"} [] OTHER -> {}]
mcCovers == {<<r, r>> : r \in mcResource} \cup {<<"buf", "half">>}
mcOverlaps == {<<r, r>> : r \in mcMemory}
              \cup {<<"buf", "half">>, <<"half", "buf">>}
mcConcrete == {"cell", "local"}
mcIndexed == {"cell", "local"}
mcLocalBlock == {"local"}

\* One occurrence of each shape that can be owned, received or lent locally.
mcHead == [o \in Owned \cup Input \cup LocalView |->
    CASE o = "ownList" -> "list"
      [] o = "ownToken" -> "token"
      [] o \in {"ownMutex", "inMutex"} -> "mutex"
      [] o = "inBuf" -> "buf"
      [] o = "stack" -> "local"]
=============================================================================
