----------------------------- MODULE WordTerms -----------------------------
(***************************************************************************)
(* The integer terms and conditions of src/kernel/primitives.rs that the   *)
(* difference graph reads, and what they mean: the value of a term under   *)
(* an assignment of the variables.  This is the reference against which    *)
(* the graph's answers are judged.  The widths are parameters, so that     *)
(* every assignment can be tried.                                          *)
(***************************************************************************)
EXTENDS Integers, TLC

CONSTANTS
    Bits8, Bits32, Bits64,  \* widths of the machine types
    Variables32, Variables64

ASSUME WidthAssumption ==
    /\ Bits8 \in Nat \ {0} /\ Bits32 \in Nat /\ Bits64 \in Nat
    /\ Bits8 < Bits32 /\ Bits32 < Bits64
    /\ Variables32 \cap Variables64 = {}

(***************************************************************************)
(* Domains: the readings of a word as a mathematical integer.              *)
(***************************************************************************)
Signed(bits) == [low |-> -(2 ^ (bits - 1)), high |-> 2 ^ (bits - 1) - 1]
Unsigned(bits) == [low |-> 0, high |-> 2 ^ bits - 1]

DomainRange(domain) ==
    CASE domain = "Int32" -> Signed(Bits32)
      [] domain = "Int64" -> Signed(Bits64)
      [] domain = "UInt64" -> Unsigned(Bits64)

(* narrow_range: the types held as int32 values.                            *)
NarrowRange(type) ==
    CASE type = "Int8" -> Signed(Bits8)
      [] type = "UInt8" -> Unsigned(Bits8)
      [] type = "Int32" -> Signed(Bits32)

Size(range) == range.high - range.low + 1
(* The number congruent to v in a range of a power of two.                  *)
Into(range, v) == range.low + ((v - range.low) % Size(range))

(***************************************************************************)
(* Terms.                                                                  *)
(***************************************************************************)
Variable(x) == [op |-> "variable", name |-> x]
Constant(v) == [op |-> "constant", domain |-> "Int32", value |-> v]
Int64Constant(v) == [op |-> "constant", domain |-> "Int64", value |-> v]
UInt64Constant(v) == [op |-> "constant", domain |-> "UInt64", value |-> v]
(* Add or Subtract of a constant, in the operations of one domain.          *)
Add(domain, term, k) == [op |-> "add", domain |-> domain, arg |-> term, by |-> k]
(* BitwiseXor with the least value of a signed domain.                      *)
Flip(domain, term) == [op |-> "flip", domain |-> domain, arg |-> term]
(* Int64From32, UInt64From32, Int64FromUInt32, UInt64FromInt32 and          *)
(* UInt64FromInt64.                                                         *)
Convert(kind, term) == [op |-> "convert", kind |-> kind, arg |-> term]
(* MachineIntegerCast between types held as int32 values.                   *)
Cast(term, source, destination) ==
    [op |-> "cast", arg |-> term, source |-> source, destination |-> destination]

(* The domain whose operations make the term: one reading of its bits.      *)
HomeDomain(term) ==
    CASE term.op = "variable" -> IF term.name \in Variables32 THEN "Int32" ELSE "Int64"
      [] term.op \in {"constant", "add", "flip"} -> term.domain
      [] term.op = "convert" ->
            IF term.kind \in {"Int64From32", "Int64FromUInt32"} THEN "Int64" ELSE "UInt64"
      [] term.op = "cast" -> "Int32"

(* The value of a term under the assignment `at`, as `domain` reads its     *)
(* bits.                                                                    *)
RECURSIVE Value(_, _, _)
Value(term, domain, at) ==
    LET home == HomeDomain(term)
        math ==
          CASE term.op = "variable" -> at[term.name]
            [] term.op = "constant" -> term.value
            [] term.op = "add" -> Value(term.arg, home, at) + term.by
            [] term.op = "flip" -> Value(term.arg, home, at) + DomainRange(home).low
            [] term.op = "cast" ->
                  Into(NarrowRange(term.destination),
                       Into(NarrowRange(term.source), Value(term.arg, "Int32", at)))
            [] term.op = "convert" ->
                  CASE term.kind \in {"Int64From32", "UInt64FromInt32"} ->
                          Value(term.arg, "Int32", at)
                    [] term.kind \in {"UInt64From32", "Int64FromUInt32"} ->
                          Into(Unsigned(Bits32), Value(term.arg, "Int32", at))
                    [] term.kind = "UInt64FromInt64" -> Value(term.arg, "Int64", at)
    IN  Into(DomainRange(domain), math)

(***************************************************************************)
(* Conditions.                                                             *)
(***************************************************************************)
Less(domain, a, b) ==
    [op |-> "order", domain |-> domain, left |-> a, right |-> b, strict |-> TRUE]
LessEqual(domain, a, b) ==
    [op |-> "order", domain |-> domain, left |-> a, right |-> b, strict |-> FALSE]
Bitvector32Equal(a, b) ==
    [op |-> "equal", domains |-> <<"Int32">>, left |-> a, right |-> b]
Bitvector64Equal(a, b) ==
    [op |-> "equal", domains |-> <<"Int64", "UInt64">>, left |-> a, right |-> b]
Overflows(operation, domain, a, b) ==
    [op |-> "overflows", operation |-> operation, domain |-> domain, left |-> a, right |-> b]

Holds(condition, at) ==
    LET Of(domain, term) == Value(term, domain, at)
    IN  CASE condition.op = "order" ->
                LET a == Of(condition.domain, condition.left)
                    b == Of(condition.domain, condition.right)
                IN  IF condition.strict THEN a < b ELSE a <= b
          [] condition.op = "equal" ->
                Of(condition.domains[1], condition.left) = Of(condition.domains[1], condition.right)
          [] condition.op = "overflows" ->
                LET a == Of(condition.domain, condition.left)
                    b == Of(condition.domain, condition.right)
                    range == DomainRange(condition.domain)
                IN  CASE condition.operation = "add" -> a + b \notin range.low .. range.high
                      [] condition.operation = "subtract" -> a - b \notin range.low .. range.high
                      [] condition.operation = "multiply" -> a * b \notin range.low .. range.high
                      [] condition.operation = "divide" ->
                            \/ a = range.low /\ b = -1
                            \/ condition.domain = "Int64" /\ b = 0

Values(range) == range.low .. range.high
Assignment ==
    {narrow @@ wide : narrow \in [Variables32 -> Values(Signed(Bits32))],
                      wide \in [Variables64 -> Values(Signed(Bits64))]}
=============================================================================
