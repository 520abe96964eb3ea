-------------------------- MODULE MCConvertedSums --------------------------
(* A conversion that keeps only non-negative values, of a sum that may be    *)
(* negative although its variable is not.                                    *)
EXTENDS DifferenceGraph

x == Variable("x")
u == Variable("u")

OrderFacts ==
    <<LessEqual("Int32", Constant(0), x),
      Bitvector64Equal(u, Convert("UInt64From32", Add("Int32", x, -1)))>>
Questions == {LessEqual("Int32", Constant(1), x)}
=============================================================================
