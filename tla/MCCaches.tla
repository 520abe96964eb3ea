----------------------------- MODULE MCCaches -----------------------------
(* What a verification keeps to use again: the markers of commits, the cells *)
(* in which branches share a graph, and the graph itself.  The three share   *)
(* no state; a behaviour is of the one that active names.                    *)
EXTENDS IncrementalVerification, FactContexts, WordTerms

CONSTANTS EdgeLimit, MaxFacts, None
VARIABLES active, orderFacts, orderGraph

(* Facts and questions about sums, sign flips, casts and conversions of two *)
(* 32-bit words and one 64-bit word, in both readings.                      *)
x == Variable("x")
y == Variable("y")
u == Variable("u")
C(v) == Constant(v)
Lt(a, b) == Less("Int32", a, b)
Le(a, b) == LessEqual("Int32", a, b)

OrderFacts ==
    <<Le(C(0), x), Lt(x, C(1)), Le(Add("Int32", x, 1), y),
      Bitvector32Equal(Flip("Int32", x), y), Bitvector32Equal(Cast(x, "Int32", "UInt8"), y),
      Overflows("add", "Int32", x, C(1)),
      LessEqual("Int64", Int64Constant(0), u), Less("UInt64", u, UInt64Constant(6)),
      Bitvector64Equal(u, Convert("UInt64FromInt32", x)),
      Less("Int64", Convert("Int64From32", x), u),
      Bitvector32Equal(y, Add("Int32", x, -1)), Lt(y, C(0)),
      LessEqual("UInt64", Convert("UInt64From32", x), u)>>

Questions ==
    {Le(x, y), Lt(y, Add("Int32", x, 1)), Le(Flip("Int32", x), y), Le(C(1), x),
     Bitvector32Equal(x, y), Bitvector32Equal(Cast(x, "Int32", "UInt8"), Add("Int32", y, -1)),
     Overflows("add", "Int32", C(1), x), Overflows("subtract", "Int32", x, y),
     Overflows("multiply", "Int32", x, y), Overflows("divide", "Int32", x, y),
     Less("UInt64", u, UInt64Constant(4)), Less("Int64", u, Convert("Int64From32", x)),
     LessEqual("UInt64", Convert("UInt64FromInt32", x), Convert("UInt64FromInt64", u)),
     LessEqual("Int64", Convert("Int64FromUInt32", x), Int64Constant(1)),
     Bitvector64Equal(u, Convert("UInt64From32", x)),
     Bitvector64Equal(Add("UInt64", u, 1), UInt64Constant(0)),
     Overflows("add", "Int64", u, Convert("Int64From32", x)),
     Overflows("subtract", "Int64", u, Convert("Int64FromUInt32", x)),
     Overflows("divide", "Int64", Convert("Int64From32", x), u)}

Graph == INSTANCE DifferenceGraph WITH
    facts <- orderFacts, graph <- orderGraph, Conditions <- OrderFacts, Asked <- Questions

(* f, whose source imports the header, calls g; an edited g calls f back.   *)
(* The third version changes the header, so that f has to be checked again, *)
(* and the tactics, with which g is reused.                                 *)
mcPathHash == [s \in Sidecar |-> "a"]
mcCallsIn == [b \in {"f", "g", "g2"} |->
    CASE b = "f" -> {"g"} [] b = "g" -> {} [] b = "g2" -> {"f"}]

mcBase == [shared |-> 0, target |-> 0, tactics |-> 0, header |-> 0,
           block |-> [fn \in Fn |-> 0], body |-> [fn \in Fn |-> fn]]

mcBody == [mcBase EXCEPT !.body["g"] = "g2"]
mcHeader == [mcBase EXCEPT !.header = 1, !.tactics = 1]
mcEdits == {mcBase, mcBody, mcHeader}

graphVars == <<orderFacts, orderGraph>>
cacheVars == <<active, incrementalVars, contextVars, graphVars>>

Init ==
    /\ active \in {"markers", "cells", "graph"}
    /\ IncrementalInit /\ ContextsInit /\ Graph!Init
    /\ active # "markers" =>
          installed = (CHOOSE e \in Exe : TRUE) /\ \A s \in Sidecar : work[s] = mcBase
    /\ active # "cells" =>
          live = {CHOOSE c \in Contexts : TRUE}
          /\ cell = [c \in Contexts |-> CHOOSE k \in Cells : TRUE]

Next ==
    /\ UNCHANGED active
    /\ \/ active = "markers" /\ IncrementalNext /\ UNCHANGED <<contextVars, graphVars>>
       \/ active = "cells" /\ ContextsNext /\ UNCHANGED <<incrementalVars, graphVars>>
       \/ active = "graph" /\ Graph!Next /\ UNCHANGED <<incrementalVars, contextVars>>

Spec == Init /\ [][Next]_cacheVars

GraphAnswersFollow == active = "graph" => Graph!AnswersFollow
=============================================================================
