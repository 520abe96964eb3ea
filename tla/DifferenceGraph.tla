-------------------------- MODULE DifferenceGraph --------------------------
(***************************************************************************)
(* The difference graph of a fact context (src/kernel/difference_graph.rs) *)
(* and the answers it gives.  Every node is a term read in a domain; edges *)
(* bound differences, every node has an interval, and links that are true  *)
(* only while nothing wraps wait until the intervals show it.  All of the  *)
(* kernel's order reasoning goes through these answers, so each of them    *)
(* must hold for every value of the variables that satisfies the facts.    *)
(*                                                                         *)
(* The code is sequential: assuming a fact is one step here, computed with *)
(* the code's own order of work and its limits.  Numbers are i128 in the   *)
(* code and never near its ends.                                           *)
(***************************************************************************)
EXTENDS WordTerms, FiniteSets, Sequences, SequencesExt, FiniteSetsExt, Functions, TLC

CONSTANTS
    EdgeLimit,      \* EDGE_LIMIT
    Conditions,     \* the conditions facts are about, in the order of the context
    Asked,          \* the conditions that are asked
    MaxFacts,       \* bound: facts of a context
    None

VARIABLES
    facts,          \* condition -> its truth: PureFactContext::condition_facts
    graph           \* the graph, or None while it is cleared

vars == <<facts, graph>>

(***************************************************************************)
(* A graph.  Nodes are numbered from 1; edge[<<n, m>>] = w says m - n <= w. *)
(***************************************************************************)
NoMap == [x \in {} |-> 0]
EmptyGraph ==
    [nodes |-> NoMap, domains |-> <<>>, low |-> <<>>, high |-> <<>>, edge |-> NoMap,
     pending |-> NoMap, excluded |-> <<>>, flips |-> NoMap, truncated |-> {},
     casts |-> NoMap, noOverflow |-> {}, contradictory |-> FALSE]

Interval(g, n) == [low |-> g.low[n], high |-> g.high[n]]
InOrder(nodes) == SetToSortSeq(nodes, <)
After(g, n) == InOrder({m \in DOMAIN g.domains : <<n, m>> \in DOMAIN g.edge})
Before(g, n) == InOrder({m \in DOMAIN g.domains : <<m, n>> \in DOMAIN g.edge})
First(k, s) == SubSeq(s, 1, IF k < Len(s) THEN k ELSE Len(s))
Without(f, S) == Restrict(f, DOMAIN f \ S)

(* read_interval: one hop from nodes whose bound was not pushed.            *)
ReadInterval(g, n) ==
    LET above == {m \in ToSet(First(EdgeLimit, Before(g, n))) : m \in g.truncated}
        below == {m \in ToSet(First(EdgeLimit, After(g, n))) : m \in g.truncated}
    IN  [low |-> Max({g.low[n]} \cup {g.low[m] - g.edge[<<n, m>>] : m \in below}),
         high |-> Min({g.high[n]} \cup {g.high[m] + g.edge[<<m, n>>] : m \in above})]

(* A value: a node plus an offset, or a number (node 0).                    *)
Affine(n, k) == [node |-> n, offset |-> k]
AffineInterval(g, v) ==
    IF v.node = 0 THEN [low |-> v.offset, high |-> v.offset]
    ELSE LET i == ReadInterval(g, v.node)
         IN  [low |-> i.low + v.offset, high |-> i.high + v.offset]

(***************************************************************************)
(* What a term is to the graph.                                            *)
(***************************************************************************)
IsConstant(domain, term) ==
    /\ term.op = "constant"
    /\ \/ term.domain = domain
       \/ domain = "UInt64" /\ term.domain = "Int64" /\ term.value >= 0

(* link_parts: a base plus a constant, or a conversion that keeps values.   *)
HasLink(domain, term) ==
    \/ term.op = "add" /\ term.domain = domain
    \/ term.op = "convert" /\ HomeDomain(term) = domain
LinkParts(term) ==
    IF term.op = "add"
    THEN [domain |-> term.domain, offset |-> term.by, nonnegative |-> FALSE]
    ELSE [domain |-> IF term.kind = "UInt64FromInt64" THEN "Int64" ELSE "Int32",
          offset |-> 0, nonnegative |-> term.kind # "Int64From32"]

IsFlip(domain, term) == term.op = "flip" /\ term.domain = domain
IsCast(domain, term) == term.op = "cast" /\ domain = "Int32"
FlipSign(domain, v) ==
    IF v >= 0 THEN v + DomainRange(domain).low ELSE v - DomainRange(domain).low

\* Mistake: a sum is not checked at the upper end.
LinkFitsBelow(i, offset, domain, nonnegative) ==
    LET range == DomainRange(domain)
    IN  IF nonnegative THEN i.low >= 0 /\ i.high <= range.high ELSE i.low + offset >= range.low
LinkFits(i, offset, domain, nonnegative) ==
    LET range == DomainRange(domain)
    IN  IF nonnegative THEN i.low >= 0 /\ i.high <= range.high
        ELSE i.low + offset >= range.low /\ i.high + offset <= range.high

(* known_flip: x ^ MIN when the sign of x is known, or None.                *)
KnownFlip(g, domain, v) ==
    LET i == AffineInterval(g, v)
        min == DomainRange(domain).low
    IN  IF v.node = 0 THEN Affine(0, FlipSign(domain, v.offset))
        ELSE IF i.low >= 0 THEN Affine(v.node, v.offset + min)
        ELSE IF i.high < 0 THEN Affine(v.node, v.offset - min)
        ELSE None

(***************************************************************************)
(* shortest_from: distances over at most EdgeLimit edges, in rounds.       *)
(***************************************************************************)
Relax(g, n, base, found, m) ==
    LET candidate == base + g.edge[<<n, m>>]
    IN  IF m \in DOMAIN found.distance /\ found.distance[m] <= candidate THEN found
        ELSE [distance |-> (m :> candidate) @@ found.distance,
              queue |-> Append(found.queue, m)]

RECURSIVE Walk(_, _, _)
Walk(g, found, budget) ==
    IF found.queue = <<>> THEN found.distance
    ELSE LET n == Head(found.queue)
             edges == After(g, n)
             followed == First(budget, edges)
             next == FoldLeft(LAMBDA acc, m : Relax(g, n, found.distance[n], acc, m),
                              [found EXCEPT !.queue = Tail(@)], followed)
         IN  IF Len(edges) > budget THEN next.distance
             ELSE Walk(g, next, budget - Len(followed))

ShortestFrom(g, n) == Walk(g, [distance |-> n :> 0, queue |-> <<n>>], EdgeLimit)

(***************************************************************************)
(* Extending the graph.                                                    *)
(***************************************************************************)
RECURSIVE Propagate(_, _, _), TightenAll(_, _), ConstrainAll(_, _)

Contradict(g) == [g EXCEPT !.contradictory = TRUE]
AnyValue(g, n) == DomainRange(g.domains[n])
AtMost(g, n, v) == [node |-> n, low |-> AnyValue(g, n).low, high |-> v]
AtLeast(g, n, v) == [node |-> n, low |-> v, high |-> AnyValue(g, n).high]
Tighten(g, bound) == Propagate(g, <<bound>>, EdgeLimit)
TightenAll(g, bounds) ==
    IF bounds = <<>> THEN g ELSE TightenAll(Tighten(g, bounds[1]), Tail(bounds))

AddEdge(g, n, m, w) ==
    LET back == ShortestFrom(g, m)
        added == [g EXCEPT !.edge = (<<n, m>> :> w) @@ @]
    IN  IF <<n, m>> \in DOMAIN g.edge /\ g.edge[<<n, m>>] <= w THEN g
        ELSE IF n \in DOMAIN back /\ back[n] + w < 0 THEN Contradict(g)
        ELSE TightenAll(added, <<AtMost(g, m, g.high[n] + w), AtLeast(g, n, g.low[m] - w)>>)

(* to - from <= weight.                                                     *)
Constraint(from, to, weight) == [from |-> from, to |-> to, weight |-> weight]
Constrain(g, c) ==
    LET n == c.from.node
        m == c.to.node
        w == c.weight - c.to.offset + c.from.offset
    IN  CASE g.contradictory -> g
          [] ~g.contradictory /\ n = m -> IF w < 0 THEN Contradict(g) ELSE g
          [] ~g.contradictory /\ n # m /\ n # 0 /\ m # 0 -> AddEdge(g, n, m, w)
          [] OTHER -> Tighten(g, IF n = 0 THEN AtMost(g, m, w) ELSE AtLeast(g, n, -w))
ConstrainAll(g, constraints) ==
    IF constraints = <<>> THEN g
    ELSE ConstrainAll(Constrain(g, constraints[1]), Tail(constraints))

(* node = base + offset.                                                    *)
Link(base, node, offset) ==
    <<Constraint(Affine(base, 0), Affine(node, 0), offset),
      Constraint(Affine(node, 0), Affine(base, 0), -offset)>>

ResolvePending(g, base) ==
    LET waiting == First(EdgeLimit, InOrder({n \in DOMAIN g.domains : <<base, n>> \in DOMAIN g.pending}))
        Fits(n) == LET link == g.pending[<<base, n>>]
                   IN  LinkFits(Interval(g, base), link.offset, link.domain, link.nonnegative)
        linked == SelectSeq(waiting, Fits)
        remaining == [g EXCEPT !.pending = Without(@, {<<base, n>> : n \in ToSet(linked)})]
    IN  ConstrainAll(remaining, FlattenSeq([i \in DOMAIN linked |->
            Link(base, linked[i], g.pending[<<base, linked[i]>>].offset)]))

ResolveFlip(g, node) ==
    IF node \notin DOMAIN g.flips THEN g
    ELSE LET base == g.flips[node].base
             flipped == g.flips[node].flipped
             min == DomainRange(g.domains[flipped]).low
             settled == [g EXCEPT !.flips = Without(@, {base, flipped})]
         IN  IF g.low[base] >= 0 \/ g.high[base] < 0
             THEN ConstrainAll(settled, Link(base, flipped, IF g.low[base] >= 0 THEN min ELSE -min))
             ELSE IF g.high[flipped] < 0 \/ g.low[flipped] >= 0
             THEN Tighten(g, IF g.high[flipped] < 0 THEN AtLeast(g, base, 0) ELSE AtMost(g, base, -1))
             ELSE g

(* v - t = k * modulus with both in their intervals: the only k, or None.   *)
OnlyMultiple(v, t, modulus) ==
    LET first == -((t.high - v.low) \div modulus)
        last == (v.high - t.low) \div modulus
    IN  IF first = last THEN first ELSE None

ResolveCast(g, cast) ==
    IF cast \notin DOMAIN g.casts THEN g
    ELSE LET link == g.casts[cast]
             v == Interval(g, link.base)
             k == OnlyMultiple(v, Interval(g, cast), link.modulus)
         IN  IF v.low < link.source.low \/ v.high > link.source.high \/ k = None THEN g
             ELSE ConstrainAll([g EXCEPT !.casts = Without(@, {cast})],
                               Link(link.base, cast, -k * link.modulus))

RECURSIVE ResolveEach(_, _)
ResolveEach(g, casts) ==
    IF casts = <<>> THEN g ELSE ResolveEach(ResolveCast(g, casts[1]), Tail(casts))
ResolveCasts(g, node) ==
    LET waiting == First(EdgeLimit, InOrder({c \in DOMAIN g.casts : g.casts[c].base = node}))
    IN  ResolveEach(g, Append(waiting, node))

(* The values a bound leaves a node: its interval ends off excluded ones.   *)
Narrowed(g, bound) ==
    (Max({bound.low, g.low[bound.node]}) .. Min({bound.high, g.high[bound.node]}))
        \ g.excluded[bound.node]

(* tighten: the work list of one bound, last in first out.                  *)
Propagate(g, work, budget) ==
    IF work = <<>> \/ g.contradictory THEN g
    ELSE LET bound == Last(work)
             n == bound.node
             free == Narrowed(g, bound)
             low == Min(free)
             high == Max(free)
             up == IF high < g.high[n] THEN After(g, n) ELSE <<>>
             pushedUp == First(budget, up)
             down == IF low > g.low[n] THEN Before(g, n) ELSE <<>>
             left == budget - Len(pushedUp)
             pushedDown == First(left, down)
             narrowed == [g EXCEPT
                 !.low[n] = low, !.high[n] = high,
                 !.truncated = IF Len(up) > budget \/ Len(down) > left THEN @ \cup {n} ELSE @]
             bounds == [i \in DOMAIN pushedUp |->
                            AtMost(g, pushedUp[i], high + g.edge[<<n, pushedUp[i]>>])]
                       \o [i \in DOMAIN pushedDown |->
                            AtLeast(g, pushedDown[i], low - g.edge[<<pushedDown[i], n>>])]
         IN  CASE free = {} -> Contradict(g)
               [] free # {} /\ low = g.low[n] /\ high = g.high[n] ->
                     Propagate(g, Front(work), budget)
               [] OTHER ->
                     Propagate(ResolveCasts(ResolveFlip(ResolvePending(narrowed, n), n), n),
                               Front(work) \o bounds, left - Len(pushedDown))

(***************************************************************************)
(* affine and node: the value of a term, with the nodes it needs added.    *)
(***************************************************************************)
RECURSIVE AffineOf(_, _, _)
Result(g, v) == [graph |-> g, value |-> v]

WithNode(g, domain, term) ==
    [g EXCEPT !.nodes = (<<domain, term>> :> Len(g.domains) + 1) @@ @,
              !.domains = Append(@, domain),
              !.low = Append(@, DomainRange(domain).low),
              !.high = Append(@, DomainRange(domain).high),
              !.excluded = Append(@, {})]

(* The term's operand has been given a value, base.                         *)
FileCast(base, n, term) ==
    LET link == [base |-> base.value.node, source |-> NarrowRange(term.source),
                 modulus |-> Size(NarrowRange(term.destination))]
    IN  IF base.value.node = 0 \/ base.value.offset # 0 THEN base.graph
        ELSE ResolveCasts([base.graph EXCEPT !.casts = (n :> link) @@ @], n)

FileFlip(base, n, domain, term) ==
    LET b == base.value.node
        flip == [base |-> b, flipped |-> n]
        v == FlipSign(domain, base.value.offset)
    IN  CASE b = 0 -> Tighten(base.graph, [node |-> n, low |-> v, high |-> v])
          [] b # 0 /\ base.value.offset = 0 ->
                ResolveFlip([base.graph EXCEPT !.flips = (b :> flip) @@ (n :> flip) @@ @], n)
          [] OTHER -> base.graph

FileLink(base, n, domain, term) ==
    LET parts == LinkParts(term)
        b == base.value.node
        v == base.value.offset + parts.offset
        range == DomainRange(domain)
        waiting == [offset |-> v, domain |-> domain, nonnegative |-> parts.nonnegative]
    IN  IF b # 0
        THEN ResolvePending([base.graph EXCEPT !.pending = (<<b, n>> :> waiting) @@ @], b)
        ELSE IF v \in range.low .. range.high /\ (parts.nonnegative => base.value.offset >= 0)
        THEN Tighten(base.graph, [node |-> n, low |-> v, high |-> v])
        ELSE base.graph

(* A cast is in its destination's range before its operand is looked at.    *)
NodeOf(g, domain, term) ==
    LET n == Len(g.domains) + 1
        new == WithNode(g, domain, term)
        range == NarrowRange(term.destination)
        ranged == Tighten(new, [node |-> n, low |-> range.low, high |-> range.high])
    IN  Result(CASE IsCast(domain, term) ->
                      FileCast(AffineOf(ranged, "Int32", term.arg), n, term)
                 [] IsFlip(domain, term) ->
                      FileFlip(AffineOf(new, domain, term.arg), n, domain, term)
                 [] HasLink(domain, term) ->
                      FileLink(AffineOf(new, LinkParts(term).domain, term.arg), n, domain, term)
                 [] OTHER -> new,
               Affine(n, 0))

(* A flip of known sign or a link that fits is a value of the operand's     *)
(* node; everything else gets a node.                                       *)
AffineFrom(base, domain, term) ==
    LET parts == LinkParts(term)
        fits == /\ base.value.node # 0
                /\ LinkFits(AffineInterval(base.graph, base.value), parts.offset, domain,
                            parts.nonnegative)
        v == CASE base.value = None -> None
               [] base.value # None /\ IsFlip(domain, term) ->
                     KnownFlip(base.graph, domain, base.value)
               [] OTHER -> IF fits THEN Affine(base.value.node, base.value.offset + parts.offset)
                           ELSE None
    IN  IF v # None THEN Result(base.graph, v) ELSE NodeOf(base.graph, domain, term)
AffineOf(g, domain, term) ==
    CASE IsConstant(domain, term) -> Result(g, Affine(0, term.value))
      [] <<domain, term>> \in DOMAIN g.nodes -> Result(g, Affine(g.nodes[<<domain, term>>], 0))
      [] OTHER ->
            AffineFrom(IF IsFlip(domain, term) THEN AffineOf(g, domain, term.arg)
                       ELSE IF HasLink(domain, term)
                       THEN AffineOf(g, LinkParts(term).domain, term.arg)
                       ELSE Result(g, None), domain, term)

(* Several terms, each as its domain reads it, one after the other.         *)
Found(g, values) == [graph |-> g, values |-> values]
WithFound(found, v) == Found(v.graph, Append(found.values, v.value))
RECURSIVE AffinesOf(_, _)
AffinesOf(found, reads) ==
    IF reads = <<>> THEN found
    ELSE AffinesOf(WithFound(found, AffineOf(found.graph, reads[1][1], reads[1][2])), Tail(reads))

(* resolve: the value of a term without adding to the graph, or None.       *)
RECURSIVE Resolve(_, _, _)
Resolve(g, domain, term) ==
    CASE IsConstant(domain, term) -> Affine(0, term.value)
      [] <<domain, term>> \in DOMAIN g.nodes -> Affine(g.nodes[<<domain, term>>], 0)
      [] IsFlip(domain, term) ->
            LET base == Resolve(g, domain, term.arg)
            IN  IF base = None THEN None ELSE KnownFlip(g, domain, base)
      [] HasLink(domain, term) ->
            LET parts == LinkParts(term)
                base == Resolve(g, parts.domain, term.arg)
            IN  IF base = None THEN None
                ELSE IF LinkFits(AffineInterval(g, base), parts.offset, domain, parts.nonnegative)
                THEN Affine(base.node, base.offset + parts.offset) ELSE None
      [] OTHER -> None

(***************************************************************************)
(* assume_condition.                                                       *)
(***************************************************************************)
(* modular_affine: an operand of an overflow, modulo the domain's width;    *)
(* v is the value of the term that constants are added to.                  *)
Wrapped(domain, v) == Affine(v.node, v.offset % Size(DomainRange(domain)))
RECURSIVE SumBase(_, _), SumOffset(_, _)
SumBase(domain, term) ==
    IF term.op = "add" /\ term.domain = domain THEN SumBase(domain, term.arg) ELSE term
SumOffset(domain, term) ==
    IF term.op = "add" /\ term.domain = domain THEN SumOffset(domain, term.arg) + term.by ELSE 0
ModularAffine(domain, term, v) ==
    Wrapped(domain, Affine(v.node, v.offset + SumOffset(domain, term)))
ModularResolve(g, domain, term) ==
    LET v == Resolve(g, domain, SumBase(domain, term))
    IN  IF v = None THEN None ELSE ModularAffine(domain, term, v)

(* overflow_key: the operands of a commutative operation in either order.   *)
OverflowKey(condition, a, b) ==
    [operation |-> condition.operation, domain |-> condition.domain,
     operands |-> IF condition.operation \in {"add", "multiply"} THEN {<<1, a>>, <<1, b>>}
                  ELSE {<<1, a>>, <<2, b>>}]

(***************************************************************************)
(* A condition is assumed in steps that are conditions themselves: an       *)
(* absent overflow, an order, an equality that may make one side another    *)
(* name of the other's node, a term that differs from a constant.  A step   *)
(* first has the graph give values to the terms it reads.                   *)
(***************************************************************************)
(* condition_orders                                                         *)
Order(domain, lower, upper, strict) ==
    [op |-> "order", domain |-> domain, left |-> lower, right |-> upper, strict |-> strict]
EqualityOrders(condition) ==
    FlattenSeq([i \in DOMAIN condition.domains |->
        <<Order(condition.domains[i], condition.left, condition.right, FALSE),
          Order(condition.domains[i], condition.right, condition.left, FALSE)>>])
Exclusions(condition) ==
    [i \in DOMAIN condition.domains |->
        [op |-> "differ", domain |-> condition.domains[i],
         left |-> condition.left, right |-> condition.right]]
Steps(condition, value) ==
    CASE condition.op = "overflows" -> IF value THEN <<>> ELSE <<condition>>
      [] condition.op = "equal" ->
            IF value THEN <<condition>> \o EqualityOrders(condition) ELSE Exclusions(condition)
      [] condition.op = "order" ->
            <<IF value THEN condition
              ELSE Order(condition.domain, condition.right, condition.left, ~condition.strict)>>

(* A term the graph does not know in any reading of an equality.            *)
IsFresh(g, condition, term) ==
    \A domain \in ToSet(condition.domains) :
        ~IsConstant(domain, term) /\ ~HasLink(domain, term) /\ <<domain, term>> \notin DOMAIN g.nodes
FreshSide(g, step) == IF IsFresh(g, step, step.left) THEN step.left ELSE step.right
KnownSide(g, step) == IF IsFresh(g, step, step.left) THEN step.right ELSE step.left

(* exclude: one side is a constant, and only one.                           *)
ConstantSide(step) == IF IsConstant(step.domain, step.left) THEN step.left ELSE step.right
OtherSide(step) == IF IsConstant(step.domain, step.left) THEN step.right ELSE step.left
Excludable(step) == IsConstant(step.domain, step.left) # IsConstant(step.domain, step.right)

Reads(g, step) ==
    CASE step.op = "overflows" ->
            <<<<step.domain, SumBase(step.domain, step.left)>>,
              <<step.domain, SumBase(step.domain, step.right)>>>>
      [] step.op = "order" ->
            IF g.contradictory THEN <<>>
            ELSE <<<<step.domain, step.left>>, <<step.domain, step.right>>>>
      [] step.op = "differ" ->
            IF Excludable(step) THEN <<<<step.domain, OtherSide(step)>>>> ELSE <<>>
      [] step.op = "equal" ->
            IF IsFresh(g, step, FreshSide(g, step))
            THEN [i \in DOMAIN step.domains |-> <<step.domains[i], KnownSide(g, step)>>]
            ELSE <<>>

WithoutOverflow(found, step) ==
    LET a == ModularAffine(step.domain, step.left, found.values[1])
        b == ModularAffine(step.domain, step.right, found.values[2])
    IN  [found.graph EXCEPT !.noOverflow = @ \cup {OverflowKey(step, a, b)}]

WithOrder(found, step) ==
    IF found.graph.contradictory THEN found.graph
    ELSE Constrain(found.graph, Constraint(found.values[2], found.values[1],
                                           IF step.strict THEN -1 ELSE 0))

WithExcluded(found, step) ==
    LET v == found.values[1]
        recorded == [found.graph EXCEPT !.excluded[v.node] = @ \cup {ConstantSide(step).value - v.offset}]
        range == DomainRange(recorded.domains[v.node])
    IN  IF ~Excludable(step) \/ v.node = 0 THEN found.graph
        ELSE Tighten(recorded, [node |-> v.node, low |-> range.low, high |-> range.high])

(* alias_equality: the fresh side becomes another name of the other side's  *)
(* nodes, where these stand for it without an offset.                       *)
IsAlias(found, step) ==
    /\ step.op = "equal" /\ found.values # <<>>
    /\ \A i \in DOMAIN found.values : found.values[i].node # 0 /\ found.values[i].offset = 0
AliasEquality(g, found, step) ==
    LET new == FreshSide(g, step)
        names == [name \in {<<domain, new>> : domain \in ToSet(step.domains)} |->
                     found.values[CHOOSE i \in DOMAIN step.domains : step.domains[i] = name[1]].node]
    IN  IF IsAlias(found, step) THEN [found.graph EXCEPT !.nodes = names @@ @] ELSE found.graph

Perform(g, found, step) ==
    CASE step.op = "overflows" -> WithoutOverflow(found, step)
      [] step.op = "order" -> WithOrder(found, step)
      [] step.op = "differ" -> WithExcluded(found, step)
      [] step.op = "equal" -> AliasEquality(g, found, step)

(* The orders of an equality are left out when it is an alias.              *)
RECURSIVE Assume(_, _)
Performed(g, found, steps) ==
    Assume(Perform(g, found, steps[1]), IF IsAlias(found, steps[1]) THEN <<>> ELSE Tail(steps))
Assume(g, steps) ==
    IF steps = <<>> THEN g
    ELSE Performed(g, AffinesOf(Found(g, <<>>), Reads(g, steps[1])), steps)

AssumeCondition(g, condition, value) == Assume(g, Steps(condition, value))

(***************************************************************************)
(* Answers.                                                                *)
(***************************************************************************)
(* difference_bound: the least known bound of to - from.                    *)
DifferenceBound(g, from, to) ==
    LET byIntervals == AffineInterval(g, to).high - AffineInterval(g, from).low
        path == ShortestFrom(g, from.node)
    IN  IF from.node # 0 /\ to.node # 0 /\ to.node \in DOMAIN path
        THEN Min({byIntervals, path[to.node] + to.offset - from.offset})
        ELSE byIntervals

(* direct_difference_bound: a stated edge, past the limit of the search.    *)
HasDirectBound(g, from, to) ==
    /\ from.node # 0 /\ to.node # 0
    /\ from.node = to.node \/ <<from.node, to.node>> \in DOMAIN g.edge
DirectBound(g, from, to) ==
    (IF from.node = to.node THEN 0 ELSE g.edge[<<from.node, to.node>>]) + to.offset - from.offset

Meet(i, j) == [low |-> Max({i.low, j.low}), high |-> Min({i.high, j.high})]
InRange(i, range) == i.low >= range.low /\ i.high <= range.high

(* wrap_interval: an interval moved by a multiple of the domain's size.     *)
WrapInterval(domain, i) ==
    LET range == DomainRange(domain)
        moved == Into(range, i.low)
    IN  IF moved + (i.high - i.low) <= range.high
        THEN [low |-> moved, high |-> moved + (i.high - i.low)] ELSE range

(* An interval of one sign, flipped and zero-extended.                      *)
Offset(i, k) == [low |-> i.low + k, high |-> i.high + k]
FlippedInterval(i, range) ==
    IF i.low >= 0 THEN Offset(i, range.low)
    ELSE IF i.high < 0 THEN Offset(i, -range.low) ELSE range
ZeroExtended(i) ==
    IF i.low >= 0 THEN i
    ELSE IF i.high < 0 THEN Offset(i, 2 ^ Bits32) ELSE Unsigned(Bits32)

(* structural_interval: from the operands of a term.                        *)
RECURSIVE TermInterval(_, _, _)
OperandsInterval(g, domain, term) ==
    LET Of(of) == TermInterval(g, of, term.arg)
        range == DomainRange(domain)
        Converts(kind) == term.op = "convert" /\ term.kind = kind
        i == CASE term.op = "add" /\ term.domain = domain -> Offset(Of(domain), term.by)
               [] IsFlip(domain, term) -> FlippedInterval(Of(domain), range)
               [] domain = "Int64" /\ Converts("Int64From32") -> Of("Int32")
               [] domain = "Int64" /\ Converts("Int64FromUInt32") -> ZeroExtended(Of("Int32"))
               [] domain = "UInt64" /\ Converts("UInt64FromInt64") -> WrapInterval(domain, Of("Int64"))
               [] OTHER -> range
    IN  IF InRange(i, range) THEN i ELSE range

(* term_interval: its node, its operands, and its other 64-bit reading.     *)
TermInterval(g, domain, term) ==
    LET range == DomainRange(domain)
        known == Resolve(g, domain, term)
        other == IF domain = "Int64" THEN "UInt64" ELSE "Int64"
        read == Resolve(g, other, term)
    IN  Meet(Meet(IF known = None THEN range ELSE AffineInterval(g, known),
                  OperandsInterval(g, domain, term)),
             IF domain = "Int32" THEN range
             ELSE IF read = None THEN range ELSE WrapInterval(domain, AffineInterval(g, read)))

DifferenceInterval(g, a, b, i, j, from, to) ==
    LET byTerms == [low |-> i.low - j.high, high |-> i.high - j.low]
    IN  CASE a = b -> [low |-> 0, high |-> 0]
          [] a # b /\ (from = None \/ to = None) -> byTerms
          [] OTHER -> Meet(byTerms, [low |-> -DifferenceBound(g, from, to),
                                     high |-> DifferenceBound(g, to, from)])

Products(i, j) == {i.low * j.low, i.low * j.high, i.high * j.low, i.high * j.high}
Excludes(g, known, v) ==
    known # None /\ known.node # 0 /\ v - known.offset \in g.excluded[known.node]

(* decide_overflow, and the division: only the absence is ever answered.    *)
(* i and j are the intervals of the operands, left and right their values.  *)
NeverOverflows(g, condition, i, j, left, right) ==
    LET range == DomainRange(condition.domain)
        Not(v) == j.low > v \/ j.high < v \/ Excludes(g, right, v)
    IN  CASE condition.operation = "add" ->
                InRange([low |-> i.low + j.low, high |-> i.high + j.high], range)
          [] condition.operation = "subtract" ->
                InRange(DifferenceInterval(g, condition.left, condition.right, i, j, left, right), range)
          [] condition.operation = "multiply" ->
                InRange([low |-> Min(Products(i, j)), high |-> Max(Products(i, j))], range)
          [] condition.operation = "divide" ->
                (i.low > range.low \/ Not(-1)) /\ (condition.domain = "Int64" => Not(0))

RecordedAbsent(g, condition) ==
    LET a == ModularResolve(g, condition.domain, condition.left)
        b == ModularResolve(g, condition.domain, condition.right)
    IN  a # None /\ b # None /\ OverflowKey(condition, a, b) \in g.noOverflow

DecideOverflow(g, condition, i, j, left, right) ==
    IF RecordedAbsent(g, condition) \/ NeverOverflows(g, condition, i, j, left, right)
    THEN FALSE ELSE None

(* The equality of two terms in one of the readings.                        *)
DecideEqualIn(g, i, j, left, right) ==
    LET known == left # None /\ right # None
        forth == DifferenceBound(g, left, right)
        back == DifferenceBound(g, right, left)
    IN  CASE known /\ right.node = 0 /\ Excludes(g, left, right.offset) -> FALSE
          [] known /\ left.node = 0 /\ Excludes(g, right, left.offset) -> FALSE
          [] known /\ forth <= 0 /\ back <= 0 -> TRUE
          [] known /\ (forth < 0 \/ back < 0) -> FALSE
          [] i.low = i.high /\ i = j -> TRUE
          [] i.high < j.low \/ j.high < i.low -> FALSE
          [] OTHER -> None

DecideOrder(g, strict, i, j, lower, upper) ==
    LET known == lower # None /\ upper # None
        holds == IF known THEN DifferenceBound(g, upper, lower) ELSE i.high - j.low
        fails == IF known THEN DifferenceBound(g, lower, upper) ELSE j.high - i.low
        enough == IF strict THEN -1 ELSE 0
        Stated(from, to, w) ==
            known /\ HasDirectBound(g, from, to) /\ DirectBound(g, from, to) <= w
    IN  CASE Stated(upper, lower, enough) -> TRUE
          [] Stated(lower, upper, -1 - enough) -> FALSE
          [] holds <= enough -> TRUE
          [] fails <= -1 - enough -> FALSE
          [] OTHER -> None

(* A condition about two terms with their intervals and values in a domain. *)
DecideIn(g, condition, i, j, left, right) ==
    CASE condition.op = "overflows" -> DecideOverflow(g, condition, i, j, left, right)
      [] condition.op = "equal" -> DecideEqualIn(g, i, j, left, right)
      [] condition.op = "order" -> DecideOrder(g, condition.strict, i, j, left, right)

(* An equality of 64-bit words is answered by the first reading that can.   *)
FirstAnswer(answers) ==
    LET given == SelectSeq(answers, LAMBDA answer : answer # None)
    IN  IF given = <<>> THEN None ELSE given[1]

Decide(g, condition) ==
    LET domains == IF condition.op = "equal" THEN condition.domains ELSE <<condition.domain>>
    IN  IF g.contradictory THEN IF condition.op = "overflows" THEN FALSE ELSE None
        ELSE FirstAnswer([n \in DOMAIN domains |->
                DecideIn(g, condition,
                         TermInterval(g, domains[n], condition.left),
                         TermInterval(g, domains[n], condition.right),
                         Resolve(g, domains[n], condition.left),
                         Resolve(g, domains[n], condition.right))])

(***************************************************************************)
(* The context's graph: extended with each fact, cleared when a fact is    *)
(* withdrawn, rebuilt from the facts by the next question.                 *)
(***************************************************************************)
RECURSIVE Build(_, _, _)
Build(g, conditions, f) ==
    IF conditions = <<>> THEN g
    ELSE Build(AssumeCondition(g, conditions[1], f[conditions[1]]), Tail(conditions), f)

Init == facts = NoMap /\ graph = EmptyGraph

AssumeFact(condition, value) ==
    /\ condition \notin DOMAIN facts
    /\ Cardinality(DOMAIN facts) < MaxFacts
    /\ facts' = (condition :> value) @@ facts
    /\ graph' = IF graph = None THEN None ELSE AssumeCondition(graph, condition, value)

(* A second truth for a condition replaces the first, which is withdrawn;   *)
(* a cleared graph is not extended.                                         *)
ReplaceFact(condition) ==
    /\ condition \in DOMAIN facts
    /\ facts' = [facts EXCEPT ![condition] = ~@]
    /\ graph' = None

ForgetFact(condition) ==
    /\ condition \in DOMAIN facts
    /\ facts' = Without(facts, {condition})
    /\ graph' = None

Rebuild ==
    /\ graph = None
    /\ graph' = Build(EmptyGraph, SelectSeq(Conditions, LAMBDA condition : condition \in DOMAIN facts),
                      facts)
    /\ UNCHANGED facts

Next ==
    \/ \E condition \in ToSet(Conditions), value \in BOOLEAN : AssumeFact(condition, value)
    \/ \E condition \in ToSet(Conditions) : ReplaceFact(condition) \/ ForgetFact(condition)
    \/ Rebuild

Spec == Init /\ [][Next]_vars

(***************************************************************************)
(* Properties.                                                             *)
(***************************************************************************)
Models == {at \in Assignment : \A c \in DOMAIN facts : Holds(c, at) = facts[c]}

(* Whatever the graph answers is true of every value of the variables that  *)
(* satisfies the facts of the context, and it is contradictory only where   *)
(* no value does: the answers of decide follow from the facts.              *)
AnswersFollow ==
    graph # None =>
        LET models == Models
            Follows(c, answer) == answer # None => \A at \in models : Holds(c, at) = answer
        IN  /\ graph.contradictory => models = {}
            /\ \A c \in Asked : Follows(c, Decide(graph, c))
=============================================================================
