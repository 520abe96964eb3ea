----------------------- MODULE PopulationLedgerProofs -----------------------
(***************************************************************************)
(* The theorems about counted populations, for any arms, blocks, families  *)
(* and bounds.                                                             *)
(*                                                                         *)
(* PopulationInv has two levels.  AuthInv is about one abstract ledger:    *)
(* its counters (obligations, totals, registrations) are the sizes of the  *)
(* sets they stand for, whatever operation it went through.  RootOk ties   *)
(* the records of C storage to it: distinct live blocks have distinct      *)
(* anchors, members made outside an authority are remembered as taint, and *)
(* evidence of an empty family is of one that was established and retired. *)
(***************************************************************************)
EXTENDS PopulationLedger, FiniteSetTheorems, SequenceTheorems, TLAPS

\* The identities issued when n is the next one.
Id(n) == 0..(n - 1)

Anchor == [owner : Nat, creator : Nat, established : SUBSET Family, registrations : Nat]
Population == [anchor : Nat, family : Family, owner : Nat, total : Nat]

\* The fields of the three kinds of records.
AuthShape(S) ==
    S = [x \in {"anchors", "registrations", "populations", "members", "obligations"} |-> S[x]]
RootShape(r) ==
    r = [x \in {"invocation", "pending", "creators", "anchors", "authority", "tainted",
                "empty"} |-> r[x]]
PathShape(x) == x = [y \in {"root", "frames", "workers", "loose"} |-> x[y]]

AuthTypes(S, n) ==
    /\ AuthShape(S)
    /\ S.anchors \in [DOMAIN S.anchors -> Anchor]
    /\ DOMAIN S.anchors \subseteq Id(n)
    /\ S.registrations \in [DOMAIN S.registrations -> DOMAIN S.populations]
    /\ S.populations \in [DOMAIN S.populations -> Population]
    /\ DOMAIN S.populations \subseteq Id(n)
    /\ S.members \in [DOMAIN S.members -> Nat \ {0}]
    /\ DOMAIN S.members \subseteq Id(n) \X DOMAIN S.populations

KeyOf(S, p) == <<S.populations[p].anchor, S.populations[p].family>>

\* A population is registered under its key, at a live anchor that remembers
\* that the family was established.
Registered(S) ==
    /\ \A k \in DOMAIN S.registrations : k = KeyOf(S, S.registrations[k])
    /\ \A p \in DOMAIN S.populations :
          /\ KeyOf(S, p) \in DOMAIN S.registrations
          /\ S.registrations[KeyOf(S, p)] = p
          /\ S.populations[p].anchor \in DOMAIN S.anchors
          /\ S.populations[p].family \in S.anchors[S.populations[p].anchor].established

PopulationsAt(S, x) == {p \in DOMAIN S.populations : S.populations[p].anchor = x}

RegistrationsCounted(S) ==
    \A x \in DOMAIN S.anchors : S.anchors[x].registrations = Cardinality(PopulationsAt(S, x))

\* What h holds of each population, and what each holder has of p.
HeldOf(S, h) == [p \in DOMAIN S.populations |-> Count(S.members, <<h, p>>)]
MembersOf(S, p, n) == [h \in Id(n) |-> Count(S.members, <<h, p>>)]

TotalsCounted(S, n) ==
    \A p \in DOMAIN S.populations : S.populations[p].total = Total(MembersOf(S, p, n))

ObligationsCounted(S) ==
    \A h \in Nat :
        Count(S.obligations, h) =
            Cardinality(OwnedBy(S.anchors, h)) + Cardinality(OwnedBy(S.populations, h))
              + Total(HeldOf(S, h))

AuthInv(S, n) ==
    /\ AuthTypes(S, n)
    /\ Registered(S)
    /\ RegistrationsCounted(S)
    /\ TotalsCounted(S, n)
    /\ ObligationsCounted(S)

\* Live blocks and their anchors.
Storage(r) ==
    /\ DOMAIN r.creators = DOMAIN r.anchors
    /\ DOMAIN r.anchors \subseteq Block
    /\ r.pending \in [DOMAIN r.pending -> Nat] /\ DOMAIN r.pending \subseteq Request
    /\ r.anchors \in [DOMAIN r.anchors -> DOMAIN r.authority.anchors]
    /\ \A b, c \in DOMAIN r.anchors : r.anchors[b] = r.anchors[c] => b = c

\* A member made without an authority is remembered where it can still be
\* found, and no authority was established over it.
Remembered(r, loose) ==
    \A x \in loose :
        /\ x = <<x[1], x[2]>>
        /\ x[1] \in DOMAIN r.creators \cup DOMAIN r.pending
        /\ x[2] \in Tainted(r, x[1])
        /\ ~ TracksPopulation(r, x[1], x[2])

\* A family that is answered with zero was established before, so that it is
\* not established again.
ZerosRetired(r) ==
    \A b \in DOMAIN r.anchors : \A f \in Family :
        CheckedEmpty(r, b, f) =>
            /\ f \in r.authority.anchors[r.anchors[b]].established
            /\ ~ TracksPopulation(r, b, f)

RootOk(r, loose, n) ==
    /\ RootShape(r)
    /\ AuthInv(r.authority, n)
    /\ Storage(r)
    /\ Remembered(r, loose)
    /\ ZerosRetired(r)

\* The current invocation, the suspended ones and the workers are different
\* holders, and callers are older than what they call.
Holders(current, frames, workers, n) ==
    /\ current \in Id(n)
    /\ workers \subseteq Id(n) \ {current}
    /\ frames \in Seq(Nat)
    /\ \A i \in 1..Len(frames) : frames[i] < current /\ frames[i] \notin workers
    /\ \A i, j \in 1..Len(frames) : i < j => frames[i] < frames[j]

PathOk(x, n) ==
    /\ PathShape(x)
    /\ RootOk(x.root, x.loose, n)
    /\ Holders(x.root.invocation, x.frames, x.workers, n)

PopulationInv ==
    /\ nextId \in Nat \ {0}
    /\ path = [a \in Arm |-> path[a]]
    /\ \A a \in Arm : PathOk(path[a], nextId)

----------------------------------------------------------------------------
(* Sums                                                                    *)

\* The units of f that stand for k.
UnitsAt(f, k) == {k} \X (1..f[k])

\* The sum over a finite domain is a number of units.
LEMMA UnitsFinite ==
    ASSUME NEW D, IsFiniteSet(D), NEW f \in [D -> Nat]
    PROVE  IsFiniteSet(Units(f)) /\ Total(f) \in Nat
PROOF
  <1> DEFINE at == [k \in D |-> UnitsAt(f, k)]
             parts == {at[k] : k \in D}
  <1>1. at \in Surjection(D, parts)
    BY DEF Surjection
  <1>2. IsFiniteSet(parts)
    BY <1>1, FS_Surjection
  <1>3. ASSUME NEW k \in D PROVE IsFiniteSet(at[k])
    <2>1. IsFiniteSet({k})
      BY FS_Singleton
    <2>2. IsFiniteSet(1..f[k])
      BY FS_Interval
    <2> QED
      BY <2>1, <2>2, FS_Product DEF UnitsAt
  <1>4. IsFiniteSet(UNION parts)
    BY <1>2, <1>3, FS_UNION
  <1>5. UNION parts = Units(f)
    BY DEF Units, UnitsAt
  <1> QED
    BY <1>4, <1>5, FS_CardinalityType DEF Total

\* Which pairs are units.
LEMMA UnitsMember ==
    ASSUME NEW D, NEW f \in [D -> Nat]
    PROVE  /\ \A k, i : <<k, i>> \in Units(f) <=> k \in D /\ i \in 1..f[k]
           /\ \A u \in Units(f) : u = <<u[1], u[2]>> /\ u[1] \in D /\ u[2] \in 1..f[u[1]]
BY DEF Units

\* The units of one key are as many as its count.
LEMMA UnitsAtCount ==
    ASSUME NEW D, NEW f \in [D -> Nat], NEW k \in D
    PROVE  IsFiniteSet(UnitsAt(f, k)) /\ Cardinality(UnitsAt(f, k)) = f[k]
PROOF
  <1>1. IsFiniteSet({k}) /\ Cardinality({k}) = 1
    BY FS_Singleton
  <1>2. IsFiniteSet(1..f[k]) /\ Cardinality(1..f[k]) = f[k]
    BY FS_Interval
  <1>3. /\ IsFiniteSet({k} \X (1..f[k]))
        /\ Cardinality({k} \X (1..f[k])) = Cardinality({k}) * Cardinality(1..f[k])
    BY <1>1, <1>2, FS_Product
  <1> QED
    BY <1>1, <1>2, <1>3 DEF UnitsAt

\* Counts that are zero do not matter.
LEMMA TotalSame ==
    ASSUME NEW D, NEW E, NEW f \in [D -> Nat], NEW g \in [E -> Nat],
           \A k \in D \cap E : f[k] = g[k],
           \A k \in D \ E : f[k] = 0,
           \A k \in E \ D : g[k] = 0
    PROVE  Total(f) = Total(g)
PROOF
  <1>1. ASSUME NEW u \in Units(f) PROVE u \in Units(g)
    <2>1. u = <<u[1], u[2]>> /\ u[1] \in D /\ u[2] \in 1..f[u[1]]
      BY UnitsMember
    <2>2. u[1] \in E /\ u[2] \in 1..g[u[1]]
      BY <2>1
    <2>3. <<u[1], u[2]>> \in Units(g)
      BY <2>2, UnitsMember
    <2> QED
      BY <2>1, <2>3
  <1>2. ASSUME NEW u \in Units(g) PROVE u \in Units(f)
    <2>1. u = <<u[1], u[2]>> /\ u[1] \in E /\ u[2] \in 1..g[u[1]]
      BY UnitsMember
    <2>2. u[1] \in D /\ u[2] \in 1..f[u[1]]
      BY <2>1
    <2>3. <<u[1], u[2]>> \in Units(f)
      BY <2>2, UnitsMember
    <2> QED
      BY <2>1, <2>3
  <1>3. Units(f) = Units(g)
    BY <1>1, <1>2
  <1> QED
    BY <1>3 DEF Total

\* A sum of nothing is zero, and only a sum of zeros is.
LEMMA TotalZero ==
    ASSUME NEW D, IsFiniteSet(D), NEW f \in [D -> Nat]
    PROVE  Total(f) = 0 <=> \A k \in D : f[k] = 0
PROOF
  <1>1. IsFiniteSet(Units(f))
    BY UnitsFinite
  <1>2. Total(f) = 0 <=> Units(f) = {}
    BY <1>1, FS_EmptySet DEF Total
  <1>3. ASSUME Units(f) = {}, NEW k \in D PROVE f[k] = 0
    <2>1. <<k, 1>> \notin Units(f)
      BY <1>3
    <2>2. 1 \notin 1..f[k]
      BY <2>1, UnitsMember
    <2> QED
      BY <2>2
  <1>4. ASSUME \A k \in D : f[k] = 0 PROVE Units(f) = {}
    <2>1. ASSUME NEW u \in Units(f) PROVE FALSE
      <3>1. u[1] \in D /\ u[2] \in 1..f[u[1]]
        BY UnitsMember
      <3> QED
        BY <3>1, <1>4
    <2> QED
      BY <2>1
  <1> QED
    BY <1>2, <1>3, <1>4

\* The sum after one count was changed.
LEMMA TotalChanged ==
    ASSUME NEW D, IsFiniteSet(D), NEW c \in D,
           NEW f \in [D -> Nat], NEW g \in [D -> Nat],
           \A k \in D : k # c => g[k] = f[k]
    PROVE  Total(g) = Total(f) - f[c] + g[c]
PROOF
  <1> DEFINE rest == Units(f) \ UnitsAt(f, c)
  <1>1. IsFiniteSet(Units(f)) /\ Total(f) = Cardinality(Units(f)) /\ Total(f) \in Nat
    BY UnitsFinite DEF Total
  <1>2. IsFiniteSet(UnitsAt(f, c)) /\ Cardinality(UnitsAt(f, c)) = f[c]
    BY UnitsAtCount
  <1>3. IsFiniteSet(UnitsAt(g, c)) /\ Cardinality(UnitsAt(g, c)) = g[c]
    BY UnitsAtCount
  <1>4. Units(f) \cap UnitsAt(f, c) = UnitsAt(f, c)
    BY DEF Units, UnitsAt
  <1>5. IsFiniteSet(rest) /\ Cardinality(rest) = Cardinality(Units(f)) - f[c]
    <2>1. /\ IsFiniteSet(Units(f) \ UnitsAt(f, c))
          /\ Cardinality(Units(f) \ UnitsAt(f, c))
               = Cardinality(Units(f)) - Cardinality(Units(f) \cap UnitsAt(f, c))
      BY <1>1, FS_Difference
    <2>2. Cardinality(Units(f) \cap UnitsAt(f, c)) = f[c]
      BY <1>2, <1>4
    <2> QED
      BY <2>1, <2>2
  <1>6. \A u : u \in UnitsAt(g, c) <=> u = <<u[1], u[2]>> /\ u[1] = c /\ u[2] \in 1..g[c]
    BY DEF UnitsAt
  <1>7. \A u : u \in UnitsAt(f, c) <=> u = <<u[1], u[2]>> /\ u[1] = c /\ u[2] \in 1..f[c]
    BY DEF UnitsAt
  <1>8. ASSUME NEW u \in Units(f), u[1] # c PROVE u \in Units(g)
    <2>1. u = <<u[1], u[2]>> /\ u[1] \in D /\ u[2] \in 1..f[u[1]]
      BY UnitsMember
    <2>2. <<u[1], u[2]>> \in Units(g)
      BY <2>1, <1>8, UnitsMember
    <2> QED
      BY <2>1, <2>2
  <1>9. ASSUME NEW u \in Units(g), u[1] # c PROVE u \in Units(f)
    <2>1. u = <<u[1], u[2]>> /\ u[1] \in D /\ u[2] \in 1..g[u[1]]
      BY UnitsMember
    <2>2. <<u[1], u[2]>> \in Units(f)
      BY <2>1, <1>9, UnitsMember
    <2> QED
      BY <2>1, <2>2
  <1>10. ASSUME NEW u \in Units(f) PROVE u \in UnitsAt(f, c) <=> u[1] = c
    <2>1. u = <<u[1], u[2]>> /\ u[1] \in D /\ u[2] \in 1..f[u[1]]
      BY UnitsMember
    <2> QED
      BY <2>1, <1>7
  <1>11. ASSUME NEW u \in Units(g) PROVE u \in UnitsAt(g, c) <=> u[1] = c
    <2>1. u = <<u[1], u[2]>> /\ u[1] \in D /\ u[2] \in 1..g[u[1]]
      BY UnitsMember
    <2> QED
      BY <2>1, <1>6
  <1>12. UnitsAt(g, c) \subseteq Units(g)
    BY DEF Units, UnitsAt
  <1>13. Units(g) = rest \cup UnitsAt(g, c)
    BY <1>8, <1>9, <1>10, <1>11, <1>12
  <1>14. rest \cap UnitsAt(g, c) = {}
    BY <1>6, <1>10
  <1>15. Cardinality(rest \cap UnitsAt(g, c)) = 0
    BY <1>14, FS_EmptySet
  <1>16. Cardinality(Units(g)) = Cardinality(rest) + g[c] - 0
    BY <1>3, <1>5, <1>13, <1>15, FS_Union
  <1> QED
    BY <1>1, <1>5, <1>16 DEF Total

\* Sums add.
LEMMA TotalAdds ==
    ASSUME NEW D, IsFiniteSet(D),
           NEW f \in [D -> Nat], NEW g \in [D -> Nat], NEW s \in [D -> Nat],
           \A k \in D : s[k] = f[k] + g[k]
    PROVE  Total(s) = Total(f) + Total(g)
PROOF
  <1> DEFINE shift == [u \in Units(g) |-> <<u[1], f[u[1]] + u[2]>>]
             above == {shift[u] : u \in Units(g)}
  <1>1. IsFiniteSet(Units(f)) /\ Total(f) = Cardinality(Units(f)) /\ Total(f) \in Nat
    BY UnitsFinite DEF Total
  <1>2. IsFiniteSet(Units(g)) /\ Total(g) = Cardinality(Units(g)) /\ Total(g) \in Nat
    BY UnitsFinite DEF Total
  <1>3. \A u \in Units(g) : u = <<u[1], u[2]>> /\ u[1] \in D /\ u[2] \in 1..g[u[1]]
    BY UnitsMember
  <1>4. \A u, v \in Units(g) : shift[u] = shift[v] => u = v
    <2> SUFFICES ASSUME NEW u \in Units(g), NEW v \in Units(g), shift[u] = shift[v]
                 PROVE  u = v
      OBVIOUS
    <2>1. u[1] = v[1] /\ f[u[1]] + u[2] = f[v[1]] + v[2]
      OBVIOUS
    <2>2. u[2] \in Nat /\ v[2] \in Nat /\ f[u[1]] \in Nat
      BY <1>3
    <2>3. \A x, y, z \in Nat : z + x = z + y => x = y
      OBVIOUS
    <2>4. f[u[1]] + u[2] = f[u[1]] + v[2]
      BY <2>1
    <2>5. u[2] = v[2]
      BY <2>2, <2>3, <2>4
    <2> QED
      BY <1>3, <2>1, <2>5
  <1>5. shift \in Bijection(Units(g), above)
    BY <1>4 DEF Bijection, Injection, Surjection, IsInjective
  <1>6. IsFiniteSet(above) /\ Cardinality(above) = Total(g)
    BY <1>2, <1>5, FS_Bijection DEF ExistsBijection
  <1>7. ASSUME NEW k \in D, NEW i \in Nat
        PROVE  <<k, i>> \in above <=> i \in (f[k] + 1)..(f[k] + g[k])
    <2>1. ASSUME <<k, i>> \in above PROVE i \in (f[k] + 1)..(f[k] + g[k])
      <3>1. PICK u \in Units(g) : <<k, i>> = <<u[1], f[u[1]] + u[2]>>
        BY <2>1
      <3>2. u[1] = k /\ i = f[k] + u[2] /\ u[2] \in 1..g[k]
        BY <3>1, <1>3
      <3> QED
        BY <3>2
    <2>2. ASSUME i \in (f[k] + 1)..(f[k] + g[k]) PROVE <<k, i>> \in above
      <3>1. i - f[k] \in 1..g[k]
        BY <2>2
      <3>2. <<k, i - f[k]>> \in Units(g)
        BY <3>1, UnitsMember
      <3>3. shift[<<k, i - f[k]>>] = <<k, f[k] + (i - f[k])>>
        BY <3>2
      <3>4. f[k] + (i - f[k]) = i
        OBVIOUS
      <3> QED
        BY <3>2, <3>3, <3>4
    <2> QED
      BY <2>1, <2>2
  <1>8. \A u \in above : u = <<u[1], u[2]>> /\ u[1] \in D /\ u[2] \in Nat
    BY <1>3
  <1>9. Units(s) = Units(f) \cup above
    <2>1. ASSUME NEW u \in Units(s) PROVE u \in Units(f) \cup above
      <3>1. u = <<u[1], u[2]>> /\ u[1] \in D /\ u[2] \in 1..s[u[1]]
        BY UnitsMember
      <3>2. s[u[1]] = f[u[1]] + g[u[1]] /\ f[u[1]] \in Nat /\ g[u[1]] \in Nat
        BY <3>1
      <3>3. u[2] \in Nat
        BY <3>1, <3>2
      <3>4. CASE u[2] \in 1..f[u[1]]
        BY <3>1, <3>4, UnitsMember
      <3>5. CASE u[2] \notin 1..f[u[1]]
        <4>1. u[2] \in (f[u[1]] + 1)..(f[u[1]] + g[u[1]])
          BY <3>1, <3>2, <3>3, <3>5
        <4>2. <<u[1], u[2]>> \in above
          BY <4>1, <3>1, <3>3, <1>7
        <4> QED
          BY <3>1, <4>2
      <3> QED
        BY <3>4, <3>5
    <2>2. ASSUME NEW u \in Units(f) PROVE u \in Units(s)
      <3>1. u = <<u[1], u[2]>> /\ u[1] \in D /\ u[2] \in 1..f[u[1]]
        BY UnitsMember
      <3>2. s[u[1]] = f[u[1]] + g[u[1]] /\ f[u[1]] \in Nat /\ g[u[1]] \in Nat
        BY <3>1
      <3>3. u[2] \in 1..s[u[1]]
        BY <3>1, <3>2
      <3>4. <<u[1], u[2]>> \in Units(s)
        BY <3>1, <3>3, UnitsMember
      <3> QED
        BY <3>1, <3>4
    <2>3. ASSUME NEW u \in above PROVE u \in Units(s)
      <3>1. u = <<u[1], u[2]>> /\ u[1] \in D /\ u[2] \in Nat
        BY <1>8
      <3>2. u[2] \in (f[u[1]] + 1)..(f[u[1]] + g[u[1]])
        BY <3>1, <1>7
      <3>3. s[u[1]] = f[u[1]] + g[u[1]] /\ f[u[1]] \in Nat /\ g[u[1]] \in Nat
        BY <3>1
      <3>4. u[2] \in 1..s[u[1]]
        BY <3>2, <3>3
      <3>5. <<u[1], u[2]>> \in Units(s)
        BY <3>1, <3>4, UnitsMember
      <3> QED
        BY <3>1, <3>5
    <2> QED
      BY <2>1, <2>2, <2>3
  <1>10. Units(f) \cap above = {}
    <2> SUFFICES ASSUME NEW u \in Units(f), u \in above PROVE FALSE
      OBVIOUS
    <2>1. u = <<u[1], u[2]>> /\ u[1] \in D /\ u[2] \in 1..f[u[1]]
      BY UnitsMember
    <2>2. u[2] \in (f[u[1]] + 1)..(f[u[1]] + g[u[1]])
      BY <2>1, <1>7, <1>8
    <2>3. f[u[1]] \in Nat
      BY <2>1
    <2> QED
      BY <2>1, <2>2, <2>3
  <1>11. Cardinality(Units(f) \cap above) = 0
    BY <1>10, FS_EmptySet
  <1>12. Cardinality(Units(s)) = Cardinality(Units(f)) + Cardinality(above) - 0
    BY <1>1, <1>6, <1>9, <1>11, FS_Union
  <1> QED
    BY <1>1, <1>2, <1>6, <1>12 DEF Total

----------------------------------------------------------------------------
(* The helpers of the ledger                                               *)

\* What Put, WithoutKeys and WithCount leave.
LEMMA PutFields ==
    ASSUME NEW f, NEW k, NEW v
    PROVE  /\ Put(f, k, v) = [x \in DOMAIN Put(f, k, v) |-> Put(f, k, v)[x]]
           /\ DOMAIN Put(f, k, v) = DOMAIN f \cup {k}
           /\ Put(f, k, v)[k] = v
           /\ \A x \in DOMAIN f : x # k => Put(f, k, v)[x] = f[x]
BY DEF Put

\* A map without some of its keys.
LEMMA WithoutKeysFields ==
    ASSUME NEW f, NEW keys
    PROVE  /\ WithoutKeys(f, keys) =
                [x \in DOMAIN WithoutKeys(f, keys) |-> WithoutKeys(f, keys)[x]]
           /\ DOMAIN WithoutKeys(f, keys) = DOMAIN f \ keys
           /\ \A x \in DOMAIN f \ keys : WithoutKeys(f, keys)[x] = f[x]
BY DEF WithoutKeys

\* set_members sets one count and leaves the others.
LEMMA CountOfWithCount ==
    ASSUME NEW f, NEW k, NEW n
    PROVE  \A x : Count(WithCount(f, k, n), x) = IF x = k THEN n ELSE Count(f, x)
PROOF
  <1> SUFFICES ASSUME NEW x
               PROVE  Count(WithCount(f, k, n), x) = IF x = k THEN n ELSE Count(f, x)
    OBVIOUS
  <1>1. CASE n = 0
    <2>1. WithCount(f, k, n) = WithoutKeys(f, {k})
      BY <1>1 DEF WithCount
    <2> QED
      BY <1>1, <2>1 DEF Count, WithoutKeys
  <1>2. CASE n # 0
    <2>1. WithCount(f, k, n) = Put(f, k, n)
      BY <1>2 DEF WithCount
    <2> QED
      BY <2>1 DEF Count, Put
  <1> QED
    BY <1>1, <1>2

\* The counts a map keeps are positive: set_members drops a count of zero.
LEMMA WithCountFields ==
    ASSUME NEW f, f \in [DOMAIN f -> Nat \ {0}], NEW k, NEW n \in Nat
    PROVE  /\ WithCount(f, k, n) \in [DOMAIN WithCount(f, k, n) -> Nat \ {0}]
           /\ DOMAIN WithCount(f, k, n) \subseteq DOMAIN f \cup {k}
BY DEF WithCount, Put, WithoutKeys

\* The obligations after a change of those of one holder.
LEMMA ChangedObligations ==
    ASSUME NEW o, NEW h, NEW m, NEW k
    PROVE  \A g : Count(ChangeObligations(o, h, m, k), g) =
                     IF g = h THEN Count(o, h) - m + k ELSE Count(o, g)
BY CountOfWithCount DEF ChangeObligations

\* What the types of a ledger say of its sets and sums.
LEMMA AuthFacts ==
    ASSUME NEW S, NEW n \in Nat, AuthTypes(S, n)
    PROVE  /\ IsFiniteSet(Id(n))
           /\ IsFiniteSet(DOMAIN S.anchors) /\ IsFiniteSet(DOMAIN S.populations)
           /\ \A k : Count(S.members, k) \in Nat
           /\ \A h, p : Count(S.members, <<h, p>>) # 0 => h \in Id(n) /\ p \in DOMAIN S.populations
           /\ \A h : HeldOf(S, h) \in [DOMAIN S.populations -> Nat]
           /\ \A p : MembersOf(S, p, n) \in [Id(n) -> Nat]
           /\ \A h : Total(HeldOf(S, h)) \in Nat
           /\ \A p : Total(MembersOf(S, p, n)) \in Nat
PROOF
  <1>1. IsFiniteSet(Id(n))
    BY FS_Interval DEF Id
  <1>2. IsFiniteSet(DOMAIN S.anchors) /\ IsFiniteSet(DOMAIN S.populations)
    BY <1>1, FS_Subset DEF AuthTypes
  <1>3. \A k : Count(S.members, k) \in Nat
    BY DEF AuthTypes, Count
  <1>4. \A h, p : Count(S.members, <<h, p>>) # 0 => h \in Id(n) /\ p \in DOMAIN S.populations
    BY DEF AuthTypes, Count
  <1>5. \A h : HeldOf(S, h) \in [DOMAIN S.populations -> Nat]
    BY <1>3 DEF HeldOf
  <1>6. \A p : MembersOf(S, p, n) \in [Id(n) -> Nat]
    BY <1>3 DEF MembersOf
  <1>7. ASSUME NEW h PROVE Total(HeldOf(S, h)) \in Nat
    BY <1>2, <1>5, UnitsFinite
  <1>8. ASSUME NEW p PROVE Total(MembersOf(S, p, n)) \in Nat
    BY <1>1, <1>6, UnitsFinite
  <1> QED
    BY <1>1, <1>2, <1>3, <1>4, <1>5, <1>6, <1>7, <1>8

\* What a holder owns is finite, so that its obligations can be compared with it.
LEMMA OwnedFinite ==
    ASSUME NEW S, NEW n \in Nat, AuthTypes(S, n), NEW h
    PROVE  /\ IsFiniteSet(OwnedBy(S.anchors, h)) /\ Cardinality(OwnedBy(S.anchors, h)) \in Nat
           /\ IsFiniteSet(OwnedBy(S.populations, h))
           /\ Cardinality(OwnedBy(S.populations, h)) \in Nat
PROOF
  <1>1. IsFiniteSet(DOMAIN S.anchors) /\ IsFiniteSet(DOMAIN S.populations)
    BY AuthFacts
  <1>2. OwnedBy(S.anchors, h) \subseteq DOMAIN S.anchors
    BY DEF OwnedBy
  <1>3. OwnedBy(S.populations, h) \subseteq DOMAIN S.populations
    BY DEF OwnedBy
  <1> QED
    BY <1>1, <1>2, <1>3, FS_Subset, FS_CardinalityType

\* The members of p are those of any later moment's holders.
LEMMA LaterTotals ==
    ASSUME NEW S, NEW n \in Nat, NEW m \in Nat, n <= m, AuthTypes(S, n), NEW p
    PROVE  Total(MembersOf(S, p, m)) = Total(MembersOf(S, p, n))
PROOF
  <1>1. Id(n) \subseteq Id(m)
    BY DEF Id
  <1>2. MembersOf(S, p, n) \in [Id(n) -> Nat] /\ MembersOf(S, p, m) \in [Id(m) -> Nat]
    BY AuthFacts DEF MembersOf
  <1>3. \A h \in Id(m) \cap Id(n) : MembersOf(S, p, m)[h] = MembersOf(S, p, n)[h]
    BY DEF MembersOf
  <1>4. \A h \in Id(m) \ Id(n) : MembersOf(S, p, m)[h] = 0
    BY AuthFacts DEF MembersOf
  <1>5. \A h \in Id(n) \ Id(m) : MembersOf(S, p, n)[h] = 0
    BY <1>1
  <1> QED
    BY <1>2, <1>3, <1>4, <1>5, TotalSame

\* The invariant of a ledger does not depend on later identities.
LEMMA AuthLater ==
    ASSUME NEW S, NEW n \in Nat, NEW m \in Nat, n <= m, AuthInv(S, n)
    PROVE  AuthInv(S, m)
PROOF
  <1>1. Id(n) \subseteq Id(m)
    BY DEF Id
  <1>2. AuthTypes(S, m)
    BY <1>1 DEF AuthInv, AuthTypes
  <1>3. TotalsCounted(S, m)
    BY LaterTotals DEF AuthInv, TotalsCounted
  <1> QED
    BY <1>2, <1>3 DEF AuthInv

----------------------------------------------------------------------------
(* One lemma per operation of the abstract ledger: what it changes, and     *)
(* that the counters stay exact.                                           *)

NewAnchor(holder) ==
    [owner |-> holder, creator |-> holder, established |-> {}, registrations |-> 0]

\* What each operation makes of the ledger, field by field: allocate_anchor.
LEMMA AllocateFields ==
    ASSUME NEW S, NEW n \in Nat, NEW h, AuthTypes(S, n)
    PROVE  LET T == AllocateAnchor(S, h, n) IN
           /\ AuthShape(T)
           /\ T.anchors = Put(S.anchors, n, NewAnchor(h))
           /\ T.registrations = S.registrations
           /\ T.populations = S.populations
           /\ T.members = S.members
           /\ T.obligations = ChangeObligations(S.obligations, h, 0, 1)
BY DEF AllocateAnchor, AuthTypes, AuthShape, NewAnchor

\* A new anchor is one more obligation of the invocation that allocates it.
LEMMA AllocateKeeps ==
    ASSUME NEW S, NEW n \in Nat, NEW h \in Nat, AuthInv(S, n)
    PROVE  AuthInv(AllocateAnchor(S, h, n), n + 1)
PROOF
  <1> DEFINE T == AllocateAnchor(S, h, n)
  <1>1. AuthTypes(S, n) /\ n \notin DOMAIN S.anchors
    BY DEF AuthInv, AuthTypes, Id
  <1>2. /\ AuthShape(T)
        /\ T.anchors = Put(S.anchors, n, NewAnchor(h))
        /\ T.registrations = S.registrations
        /\ T.populations = S.populations
        /\ T.members = S.members
        /\ T.obligations = ChangeObligations(S.obligations, h, 0, 1)
    BY <1>1, AllocateFields
  <1> HIDE DEF T
  <1>3. /\ DOMAIN T.anchors = DOMAIN S.anchors \cup {n}
        /\ T.anchors[n] = NewAnchor(h)
        /\ \A x \in DOMAIN S.anchors : T.anchors[x] = S.anchors[x]
    BY <1>1, <1>2 DEF Put
  <1>4. AuthTypes(T, n + 1)
    <2>1. Id(n) \cup {n} \subseteq Id(n + 1)
      BY DEF Id
    <2>2. NewAnchor(h) \in Anchor
      BY DEF NewAnchor, Anchor
    <2>3. T.anchors \in [DOMAIN T.anchors -> Anchor]
      BY <1>1, <1>2, <2>2 DEF AuthTypes, Put
    <2> QED
      BY <1>1, <1>2, <1>3, <2>1, <2>3 DEF AuthTypes
  <1>5. Registered(T)
    BY <1>1, <1>2, <1>3 DEF AuthInv, Registered, KeyOf
  <1>6. RegistrationsCounted(T)
    <2>1. \A x : PopulationsAt(T, x) = PopulationsAt(S, x)
      BY <1>2 DEF PopulationsAt
    <2>2. PopulationsAt(S, n) = {}
      BY <1>1 DEF AuthInv, Registered, PopulationsAt
    <2>3. Cardinality(PopulationsAt(T, n)) = 0
      BY <2>1, <2>2, FS_EmptySet
    <2> QED
      BY <1>3, <2>1, <2>3 DEF AuthInv, RegistrationsCounted, NewAnchor
  <1>7. TotalsCounted(T, n + 1)
    <2>1. \A p : MembersOf(T, p, n + 1) = MembersOf(S, p, n + 1)
      BY <1>2 DEF MembersOf
    <2> QED
      BY <1>1, <1>2, <2>1, LaterTotals DEF AuthInv, TotalsCounted
  <1>8. ObligationsCounted(T)
    <2> SUFFICES ASSUME NEW g \in Nat
                 PROVE  Count(T.obligations, g) =
                          Cardinality(OwnedBy(T.anchors, g))
                            + Cardinality(OwnedBy(T.populations, g)) + Total(HeldOf(T, g))
      BY DEF ObligationsCounted
    <2>1. HeldOf(T, g) = HeldOf(S, g) /\ OwnedBy(T.populations, g) = OwnedBy(S.populations, g)
      BY <1>2 DEF HeldOf, OwnedBy
    <2>2. Count(S.obligations, g) =
             Cardinality(OwnedBy(S.anchors, g))
               + Cardinality(OwnedBy(S.populations, g)) + Total(HeldOf(S, g))
      BY DEF AuthInv, ObligationsCounted
    <2>3. /\ IsFiniteSet(OwnedBy(S.anchors, g))
          /\ Cardinality(OwnedBy(S.anchors, g)) \in Nat
          /\ Cardinality(OwnedBy(S.populations, g)) \in Nat
          /\ Total(HeldOf(S, g)) \in Nat
      BY <1>1, OwnedFinite, AuthFacts
    <2>4. Count(T.obligations, g) =
             IF g = h THEN Count(S.obligations, h) - 0 + 1 ELSE Count(S.obligations, g)
      BY <1>2, ChangedObligations
    <2>5. CASE g = h
      <3>1. OwnedBy(T.anchors, g) = OwnedBy(S.anchors, g) \cup {n}
        BY <1>1, <1>3, <2>5 DEF OwnedBy, NewAnchor
      <3>2. n \notin OwnedBy(S.anchors, g)
        BY <1>1 DEF OwnedBy
      <3>3. Cardinality(OwnedBy(T.anchors, g)) = Cardinality(OwnedBy(S.anchors, g)) + 1
        BY <2>3, <3>1, <3>2, FS_AddElement
      <3> QED
        BY <2>1, <2>2, <2>3, <2>4, <2>5, <3>3
    <2>6. CASE g # h
      <3>1. OwnedBy(T.anchors, g) = OwnedBy(S.anchors, g)
        BY <1>1, <1>3, <2>6 DEF OwnedBy, NewAnchor
      <3> QED
        BY <2>1, <2>2, <2>4, <2>6, <3>1
    <2> QED
      BY <2>5, <2>6
  <1> QED
    BY <1>4, <1>5, <1>6, <1>7, <1>8 DEF AuthInv, T

NewPopulation(a, family, holder) ==
    [anchor |-> a, family |-> family, owner |-> holder, total |-> 0]

\* What establish makes of the ledger.
LEMMA EstablishFields ==
    ASSUME NEW S, NEW n \in Nat, NEW h, NEW a, NEW family \in Family, NEW id,
           AuthTypes(S, n), MayEstablish(S, h, a, family)
    PROVE  LET T == Established(S, h, a, family, id) IN
           /\ AuthShape(T)
           /\ T.anchors \in [DOMAIN S.anchors -> Anchor]
           /\ \A x \in DOMAIN S.anchors :
                 /\ x # a => T.anchors[x] = S.anchors[x]
                 /\ T.anchors[x].owner = S.anchors[x].owner
           /\ T.anchors[a].established = S.anchors[a].established \cup {family}
           /\ T.anchors[a].registrations = S.anchors[a].registrations + 1
           /\ T.registrations = Put(S.registrations, <<a, family>>, id)
           /\ T.populations = Put(S.populations, id, NewPopulation(a, family, h))
           /\ T.members = S.members
           /\ T.obligations = ChangeObligations(S.obligations, h, 0, 1)
PROOF
  <1> DEFINE T == Established(S, h, a, family, id)
             x1 == [S.anchors EXCEPT ![a].established = @ \cup {family}]
             x2 == [x1 EXCEPT ![a].registrations = @ + 1]
  <1>1. a \in DOMAIN S.anchors /\ S.anchors \in [DOMAIN S.anchors -> Anchor]
    BY DEF AuthTypes, MayEstablish, AnchorOwned
  <1>2. /\ x1 \in [DOMAIN S.anchors -> Anchor]
        /\ \A x \in DOMAIN S.anchors :
              /\ x # a => x1[x] = S.anchors[x]
              /\ x1[x].owner = S.anchors[x].owner
              /\ x1[x].registrations = S.anchors[x].registrations
        /\ x1[a].established = S.anchors[a].established \cup {family}
    BY <1>1 DEF Anchor
  <1>3. /\ x2 \in [DOMAIN S.anchors -> Anchor]
        /\ \A x \in DOMAIN S.anchors :
              /\ x # a => x2[x] = x1[x]
              /\ x2[x].owner = x1[x].owner
              /\ x2[x].established = x1[x].established
        /\ x2[a].registrations = x1[a].registrations + 1
    <2> HIDE DEF x1
    <2> QED
      BY <1>1, <1>2 DEF Anchor
  <1>4. /\ AuthShape(T)
        /\ T.anchors = x2
        /\ T.registrations = Put(S.registrations, <<a, family>>, id)
        /\ T.populations = Put(S.populations, id, NewPopulation(a, family, h))
        /\ T.members = S.members
        /\ T.obligations = ChangeObligations(S.obligations, h, 0, 1)
    BY <1>1 DEF Established, AuthTypes, AuthShape, NewPopulation
  <1> HIDE DEF T, x1, x2
  <1>5. /\ T.anchors \in [DOMAIN S.anchors -> Anchor]
        /\ \A x \in DOMAIN S.anchors :
              /\ x # a => T.anchors[x] = S.anchors[x]
              /\ T.anchors[x].owner = S.anchors[x].owner
        /\ T.anchors[a].established = S.anchors[a].established \cup {family}
        /\ T.anchors[a].registrations = S.anchors[a].registrations + 1
    BY <1>1, <1>2, <1>3, <1>4
  <1> QED
    BY <1>4, <1>5 DEF T

\* An established population is registered once, counted at its anchor and
\* one more obligation of its owner.
LEMMA EstablishKeeps ==
    ASSUME NEW S, NEW n \in Nat, NEW h \in Nat, NEW a, NEW family \in Family,
           AuthInv(S, n), MayEstablish(S, h, a, family)
    PROVE  AuthInv(Established(S, h, a, family, n), n + 1)
PROOF
  <1> DEFINE T == Established(S, h, a, family, n)
  <1>1. /\ AuthTypes(S, n) /\ n \notin DOMAIN S.populations
        /\ a \in DOMAIN S.anchors /\ family \notin S.anchors[a].established
        /\ Id(n) \cup {n} \subseteq Id(n + 1) /\ a \in Nat
    BY DEF AuthInv, AuthTypes, Id, MayEstablish, AnchorOwned
  <1>2. /\ AuthShape(T)
        /\ T.anchors \in [DOMAIN S.anchors -> Anchor]
        /\ \A x \in DOMAIN S.anchors :
              /\ x # a => T.anchors[x] = S.anchors[x]
              /\ T.anchors[x].owner = S.anchors[x].owner
        /\ T.anchors[a].established = S.anchors[a].established \cup {family}
        /\ T.anchors[a].registrations = S.anchors[a].registrations + 1
        /\ T.registrations = Put(S.registrations, <<a, family>>, n)
        /\ T.populations = Put(S.populations, n, NewPopulation(a, family, h))
        /\ T.members = S.members
        /\ T.obligations = ChangeObligations(S.obligations, h, 0, 1)
    BY <1>1, EstablishFields
  <1> HIDE DEF T
  <1>3. /\ DOMAIN T.populations = DOMAIN S.populations \cup {n}
        /\ T.populations[n] = NewPopulation(a, family, h)
        /\ \A p \in DOMAIN S.populations : T.populations[p] = S.populations[p]
    BY <1>1, <1>2 DEF Put
  <1>4. <<a, family>> \notin DOMAIN S.registrations
    BY <1>1 DEF AuthInv, AuthTypes, Registered, KeyOf
  <1>5. /\ DOMAIN T.registrations = DOMAIN S.registrations \cup {<<a, family>>}
        /\ T.registrations[<<a, family>>] = n
        /\ \A k \in DOMAIN S.registrations : T.registrations[k] = S.registrations[k]
    BY <1>2, <1>4 DEF Put
  <1>6. AuthTypes(T, n + 1)
    <2>1. NewPopulation(a, family, h) \in Population
      BY <1>1 DEF NewPopulation, Population
    <2>2. T.populations \in [DOMAIN T.populations -> Population]
      BY <1>1, <1>2, <2>1 DEF AuthTypes, Put
    <2>3. T.registrations \in [DOMAIN T.registrations -> DOMAIN T.populations]
      BY <1>1, <1>2, <1>3 DEF AuthTypes, Put
    <2> QED
      BY <1>1, <1>2, <1>3, <2>2, <2>3 DEF AuthTypes
  <1>7. Registered(T)
    <2>1. KeyOf(T, n) = <<a, family>>
      BY <1>3 DEF KeyOf, NewPopulation
    <2>2. \A p \in DOMAIN S.populations : KeyOf(T, p) = KeyOf(S, p)
      BY <1>3 DEF KeyOf
    <2>3. ASSUME NEW k \in DOMAIN T.registrations PROVE k = KeyOf(T, T.registrations[k])
      <3>1. CASE k \in DOMAIN S.registrations
        BY <1>1, <1>5, <2>2, <3>1 DEF AuthInv, AuthTypes, Registered
      <3>2. CASE k = <<a, family>>
        BY <1>5, <2>1, <3>2
      <3> QED
        BY <1>5, <3>1, <3>2
    <2>4. ASSUME NEW p \in DOMAIN S.populations
          PROVE  /\ KeyOf(T, p) \in DOMAIN T.registrations
                 /\ T.registrations[KeyOf(T, p)] = p
                 /\ T.populations[p].anchor \in DOMAIN T.anchors
                 /\ T.populations[p].family \in T.anchors[T.populations[p].anchor].established
      <3>1. /\ KeyOf(S, p) \in DOMAIN S.registrations /\ S.registrations[KeyOf(S, p)] = p
            /\ S.populations[p].anchor \in DOMAIN S.anchors
            /\ S.populations[p].family \in S.anchors[S.populations[p].anchor].established
        BY DEF AuthInv, Registered
      <3>2. \A x \in DOMAIN S.anchors : S.anchors[x].established \subseteq T.anchors[x].established
        BY <1>2
      <3> QED
        BY <1>2, <1>3, <1>5, <2>2, <3>1, <3>2
    <2>5. /\ KeyOf(T, n) \in DOMAIN T.registrations
          /\ T.registrations[KeyOf(T, n)] = n
          /\ T.populations[n].anchor \in DOMAIN T.anchors
          /\ T.populations[n].family \in T.anchors[T.populations[n].anchor].established
      BY <1>1, <1>2, <1>3, <1>5, <2>1 DEF NewPopulation
    <2> QED
      BY <1>3, <2>3, <2>4, <2>5 DEF Registered
  <1>8. RegistrationsCounted(T)
    <2> SUFFICES ASSUME NEW x \in DOMAIN S.anchors
                 PROVE  T.anchors[x].registrations = Cardinality(PopulationsAt(T, x))
      BY <1>2 DEF RegistrationsCounted
    <2>1. S.anchors[x].registrations = Cardinality(PopulationsAt(S, x))
      BY DEF AuthInv, RegistrationsCounted
    <2>2. CASE x = a
      <3>1. PopulationsAt(T, x) = PopulationsAt(S, x) \cup {n}
        BY <1>3, <2>2 DEF PopulationsAt, NewPopulation
      <3>2. n \notin PopulationsAt(S, x)
        BY <1>1 DEF PopulationsAt
      <3>3. PopulationsAt(S, x) \subseteq DOMAIN S.populations
        BY DEF PopulationsAt
      <3>4. IsFiniteSet(PopulationsAt(S, x))
        BY <1>1, <3>3, AuthFacts, FS_Subset
      <3>5. Cardinality(PopulationsAt(T, x)) = Cardinality(PopulationsAt(S, x)) + 1
        BY <3>1, <3>2, <3>4, FS_AddElement
      <3> QED
        BY <1>2, <2>1, <2>2, <3>5
    <2>3. CASE x # a
      <3>1. PopulationsAt(T, x) = PopulationsAt(S, x)
        BY <1>3, <2>3 DEF PopulationsAt, NewPopulation
      <3> QED
        BY <1>2, <2>1, <2>3, <3>1
    <2> QED
      BY <2>2, <2>3
  <1>9. TotalsCounted(T, n + 1)
    <2>1. \A p : MembersOf(T, p, n + 1) = MembersOf(S, p, n + 1)
      BY <1>2 DEF MembersOf
    <2>2. ASSUME NEW p \in DOMAIN S.populations
          PROVE  T.populations[p].total = Total(MembersOf(T, p, n + 1))
      <3>1. S.populations[p].total = Total(MembersOf(S, p, n))
        BY DEF AuthInv, TotalsCounted
      <3>2. Total(MembersOf(S, p, n + 1)) = Total(MembersOf(S, p, n))
        BY <1>1, LaterTotals
      <3> QED
        BY <1>3, <2>1, <3>1, <3>2
    <2>3. T.populations[n].total = Total(MembersOf(T, n, n + 1))
      <3>1. \A g \in Id(n) : MembersOf(S, n, n)[g] = 0
        BY <1>1, AuthFacts DEF MembersOf
      <3>2. IsFiniteSet(Id(n)) /\ MembersOf(S, n, n) \in [Id(n) -> Nat]
        BY <1>1, AuthFacts
      <3>3. Total(MembersOf(S, n, n)) = 0
        BY <3>1, <3>2, TotalZero
      <3>4. Total(MembersOf(S, n, n + 1)) = Total(MembersOf(S, n, n))
        BY <1>1, LaterTotals
      <3> QED
        BY <1>3, <2>1, <3>3, <3>4 DEF NewPopulation
    <2> QED
      BY <1>3, <2>2, <2>3 DEF TotalsCounted
  <1>10. ObligationsCounted(T)
    <2> SUFFICES ASSUME NEW g \in Nat
                 PROVE  Count(T.obligations, g) =
                          Cardinality(OwnedBy(T.anchors, g))
                            + Cardinality(OwnedBy(T.populations, g)) + Total(HeldOf(T, g))
      BY DEF ObligationsCounted
    <2>1. OwnedBy(T.anchors, g) = OwnedBy(S.anchors, g)
      BY <1>2 DEF OwnedBy
    <2>2. Count(S.obligations, g) =
             Cardinality(OwnedBy(S.anchors, g))
               + Cardinality(OwnedBy(S.populations, g)) + Total(HeldOf(S, g))
      BY DEF AuthInv, ObligationsCounted
    <2>3. /\ IsFiniteSet(OwnedBy(S.populations, g))
          /\ Cardinality(OwnedBy(S.anchors, g)) \in Nat
          /\ Cardinality(OwnedBy(S.populations, g)) \in Nat
          /\ Total(HeldOf(S, g)) \in Nat
      BY <1>1, OwnedFinite, AuthFacts
    <2>4. Count(T.obligations, g) =
             IF g = h THEN Count(S.obligations, h) - 0 + 1 ELSE Count(S.obligations, g)
      BY <1>2, ChangedObligations
    <2>5. Total(HeldOf(T, g)) = Total(HeldOf(S, g))
      <3>1. HeldOf(T, g) \in [DOMAIN T.populations -> Nat]
        BY <1>6, AuthFacts
      <3>2. HeldOf(S, g) \in [DOMAIN S.populations -> Nat]
        BY <1>1, AuthFacts
      <3>3. \A p \in DOMAIN T.populations \cap DOMAIN S.populations :
               HeldOf(T, g)[p] = HeldOf(S, g)[p]
        BY <1>2 DEF HeldOf
      <3>4. \A p \in DOMAIN T.populations \ DOMAIN S.populations : HeldOf(T, g)[p] = 0
        BY <1>1, <1>2, AuthFacts DEF HeldOf
      <3>5. \A p \in DOMAIN S.populations \ DOMAIN T.populations : HeldOf(S, g)[p] = 0
        BY <1>3
      <3> QED
        BY <3>1, <3>2, <3>3, <3>4, <3>5, TotalSame
    <2>6. CASE g = h
      <3>1. OwnedBy(T.populations, g) = OwnedBy(S.populations, g) \cup {n}
        BY <1>1, <1>3, <2>6 DEF OwnedBy, NewPopulation
      <3>2. n \notin OwnedBy(S.populations, g)
        BY <1>1 DEF OwnedBy
      <3>3. Cardinality(OwnedBy(T.populations, g)) = Cardinality(OwnedBy(S.populations, g)) + 1
        BY <2>3, <3>1, <3>2, FS_AddElement
      <3> QED
        BY <2>1, <2>2, <2>3, <2>4, <2>5, <2>6, <3>3
    <2>7. CASE g # h
      <3>1. OwnedBy(T.populations, g) = OwnedBy(S.populations, g)
        BY <1>1, <1>3, <2>7 DEF OwnedBy, NewPopulation
      <3> QED
        BY <2>1, <2>2, <2>4, <2>5, <2>7, <3>1
    <2> QED
      BY <2>6, <2>7
  <1> QED
    BY <1>6, <1>7, <1>8, <1>9, <1>10 DEF AuthInv, T

\* What producing and consuming d members of p by h share: d is negative when
\* they are consumed.
Exchanged(S, T, h, p, d) ==
    /\ AuthShape(T)
    /\ T.anchors = S.anchors
    /\ T.registrations = S.registrations
    /\ DOMAIN T.populations = DOMAIN S.populations
    /\ T.populations = [q \in DOMAIN S.populations |-> T.populations[q]]
    /\ \A q \in DOMAIN S.populations :
          /\ q # p => T.populations[q] = S.populations[q]
          /\ T.populations[q].anchor = S.populations[q].anchor
          /\ T.populations[q].family = S.populations[q].family
          /\ T.populations[q].owner = S.populations[q].owner
    /\ T.populations[p] = [anchor |-> S.populations[p].anchor, family |-> S.populations[p].family,
                           owner |-> S.populations[p].owner,
                           total |-> S.populations[p].total + d]
    /\ T.members = WithCount(S.members, <<h, p>>, Count(S.members, <<h, p>>) + d)
    /\ \A g \in Nat : Count(T.obligations, g) =
          IF g = h THEN Count(S.obligations, h) + d ELSE Count(S.obligations, g)

\* A change of one holder's members by d, with the total changed by d, keeps
\* the ledger true.
LEMMA ExchangeKeeps ==
    ASSUME NEW S, NEW T, NEW n \in Nat, NEW h \in Id(n), NEW p \in DOMAIN S.populations,
           NEW d \in Int, AuthInv(S, n), Exchanged(S, T, h, p, d),
           Count(S.members, <<h, p>>) + d \in Nat
    PROVE  AuthInv(T, n)
PROOF
  <1>1. /\ AuthTypes(S, n) /\ h \in Nat
        /\ S.populations[p] \in Population
    BY DEF AuthInv, AuthTypes, Id
  <1>2. \A k : Count(T.members, k) =
               IF k = <<h, p>> THEN Count(S.members, <<h, p>>) + d ELSE Count(S.members, k)
    BY CountOfWithCount DEF Exchanged
  <1>3. T.members \in [DOMAIN T.members -> Nat \ {0}]
    <2>1. S.members \in [DOMAIN S.members -> Nat \ {0}]
      BY <1>1 DEF AuthTypes
    <2> QED
      BY <2>1, WithCountFields DEF Exchanged
  <1>4. DOMAIN T.members \subseteq Id(n) \X DOMAIN T.populations
    <2>1. S.members \in [DOMAIN S.members -> Nat \ {0}]
      BY <1>1 DEF AuthTypes
    <2>2. DOMAIN T.members \subseteq DOMAIN S.members \cup {<<h, p>>}
      BY <2>1, WithCountFields DEF Exchanged
    <2> QED
      BY <1>1, <2>2 DEF AuthTypes, Exchanged
  <1>5. /\ IsFiniteSet(Id(n)) /\ IsFiniteSet(DOMAIN S.populations)
        /\ \A q : MembersOf(S, q, n) \in [Id(n) -> Nat]
        /\ \A g : HeldOf(S, g) \in [DOMAIN S.populations -> Nat]
        /\ \A k : Count(S.members, k) \in Nat
    BY <1>1, AuthFacts
  <1>6. \A k : Count(T.members, k) \in Nat
    BY <1>2, <1>5
  <1>7. S.populations[p].total + d = Total(MembersOf(T, p, n))
    <2>1. MembersOf(T, p, n) \in [Id(n) -> Nat]
      BY <1>6 DEF MembersOf
    <2>2. \A g \in Id(n) : g # h => MembersOf(T, p, n)[g] = MembersOf(S, p, n)[g]
      BY <1>2 DEF MembersOf
    <2>3. MembersOf(T, p, n)[h] = MembersOf(S, p, n)[h] + d /\ MembersOf(S, p, n)[h] \in Nat
      BY <1>2, <1>5 DEF MembersOf
    <2>4. Total(MembersOf(T, p, n)) =
             Total(MembersOf(S, p, n)) - MembersOf(S, p, n)[h] + MembersOf(T, p, n)[h]
      BY <1>5, <2>1, <2>2, TotalChanged
    <2>5. S.populations[p].total = Total(MembersOf(S, p, n)) /\ S.populations[p].total \in Nat
      BY <1>1 DEF AuthInv, TotalsCounted, Population
    <2> QED
      BY <2>3, <2>4, <2>5
  <1>8. S.populations[p].total + d \in Nat
    <2>1. MembersOf(T, p, n) \in [Id(n) -> Nat]
      BY <1>6 DEF MembersOf
    <2> QED
      BY <1>5, <1>7, <2>1, UnitsFinite
  <1>9. AuthTypes(T, n)
    <2>1. T.populations[p] \in Population
      BY <1>1, <1>8 DEF Exchanged, Population
    <2>2. T.populations \in [DOMAIN S.populations -> Population]
      <3>1. \A q \in DOMAIN S.populations : q # p => T.populations[q] = S.populations[q]
        BY DEF Exchanged
      <3>2. \A q \in DOMAIN S.populations : S.populations[q] \in Population
        BY <1>1 DEF AuthTypes
      <3>3. \A q \in DOMAIN S.populations : T.populations[q] \in Population
        BY <2>1, <3>1, <3>2
      <3>4. T.populations = [q \in DOMAIN S.populations |-> T.populations[q]]
        BY DEF Exchanged
      <3> QED
        BY <3>3, <3>4
    <2>3. /\ AuthShape(T) /\ T.anchors = S.anchors /\ T.registrations = S.registrations
          /\ DOMAIN T.populations = DOMAIN S.populations
      BY DEF Exchanged
    <2> QED
      BY <1>1, <1>3, <1>4, <2>2, <2>3 DEF AuthTypes
  <1>10. Registered(T)
    <2>1. \A q \in DOMAIN S.populations : KeyOf(T, q) = KeyOf(S, q)
      BY DEF Exchanged, KeyOf
    <2>2. \A k \in DOMAIN S.registrations : S.registrations[k] \in DOMAIN S.populations
      BY <1>1 DEF AuthTypes
    <2>3. /\ \A k \in DOMAIN T.registrations : k = KeyOf(T, T.registrations[k])
      BY <2>1, <2>2 DEF Exchanged, AuthInv, Registered
    <2>4. ASSUME NEW q \in DOMAIN T.populations
          PROVE  /\ KeyOf(T, q) \in DOMAIN T.registrations
                 /\ T.registrations[KeyOf(T, q)] = q
                 /\ T.populations[q].anchor \in DOMAIN T.anchors
                 /\ T.populations[q].family \in T.anchors[T.populations[q].anchor].established
      BY <2>1 DEF Exchanged, AuthInv, Registered
    <2> QED
      BY <2>3, <2>4 DEF Registered
  <1>11. RegistrationsCounted(T)
    <2>1. \A x : PopulationsAt(T, x) = PopulationsAt(S, x)
      BY DEF Exchanged, PopulationsAt
    <2> QED
      BY <2>1 DEF Exchanged, AuthInv, RegistrationsCounted
  <1>12. TotalsCounted(T, n)
    <2> SUFFICES ASSUME NEW q \in DOMAIN S.populations
                 PROVE  T.populations[q].total = Total(MembersOf(T, q, n))
      BY DEF TotalsCounted, Exchanged
    <2>1. CASE q = p
      BY <1>7, <2>1 DEF Exchanged
    <2>2. CASE q # p
      <3>1. MembersOf(T, q, n) = MembersOf(S, q, n)
        BY <1>2, <2>2 DEF MembersOf
      <3> QED
        BY <2>2, <3>1 DEF Exchanged, AuthInv, TotalsCounted
    <2> QED
      BY <2>1, <2>2
  <1>13. ObligationsCounted(T)
    <2> SUFFICES ASSUME NEW g \in Nat
                 PROVE  Count(T.obligations, g) =
                          Cardinality(OwnedBy(T.anchors, g))
                            + Cardinality(OwnedBy(T.populations, g)) + Total(HeldOf(T, g))
      BY DEF ObligationsCounted
    <2>1. OwnedBy(T.anchors, g) = OwnedBy(S.anchors, g)
          /\ OwnedBy(T.populations, g) = OwnedBy(S.populations, g)
      BY DEF OwnedBy, Exchanged
    <2>2. Count(S.obligations, g) =
             Cardinality(OwnedBy(S.anchors, g))
               + Cardinality(OwnedBy(S.populations, g)) + Total(HeldOf(S, g))
      BY DEF AuthInv, ObligationsCounted
    <2>3. /\ Cardinality(OwnedBy(S.anchors, g)) \in Nat
          /\ Cardinality(OwnedBy(S.populations, g)) \in Nat
          /\ Total(HeldOf(S, g)) \in Nat
      BY <1>1, OwnedFinite, AuthFacts
    <2>4. Count(T.obligations, g) =
             IF g = h THEN Count(S.obligations, h) + d ELSE Count(S.obligations, g)
      BY DEF Exchanged
    <2>5. HeldOf(T, g) \in [DOMAIN S.populations -> Nat]
      BY <1>6 DEF HeldOf, Exchanged
    <2>6. CASE g = h
      <3>1. \A q \in DOMAIN S.populations : q # p => HeldOf(T, h)[q] = HeldOf(S, h)[q]
        BY <1>2 DEF HeldOf, Exchanged
      <3>2. HeldOf(T, h)[p] = HeldOf(S, h)[p] + d /\ HeldOf(S, h)[p] \in Nat
        BY <1>2, <1>5 DEF HeldOf, Exchanged
      <3>3. Total(HeldOf(T, h)) = Total(HeldOf(S, h)) - HeldOf(S, h)[p] + HeldOf(T, h)[p]
        BY <1>5, <2>5, <2>6, <3>1, TotalChanged
      <3>4. Total(HeldOf(T, h)) = Total(HeldOf(S, h)) + d
        BY <2>3, <2>6, <3>2, <3>3
      <3> QED
        BY <2>1, <2>2, <2>3, <2>4, <2>6, <3>4
    <2>7. CASE g # h
      <3>1. HeldOf(T, g) = HeldOf(S, g)
        BY <1>2, <2>7 DEF HeldOf, Exchanged
      <3> QED
        BY <2>1, <2>2, <2>4, <2>7, <3>1
    <2> QED
      BY <2>6, <2>7
  <1> QED
    BY <1>9, <1>10, <1>11, <1>12, <1>13 DEF AuthInv

\* The total of one population changed by d.
LEMMA RetotalledFields ==
    ASSUME NEW S, NEW n \in Nat, AuthTypes(S, n), NEW p \in DOMAIN S.populations, NEW v
    PROVE  LET U == [S.populations EXCEPT ![p].total = v] IN
           /\ DOMAIN U = DOMAIN S.populations
           /\ U = [q \in DOMAIN S.populations |-> U[q]]
           /\ \A q \in DOMAIN S.populations :
                 /\ q # p => U[q] = S.populations[q]
                 /\ U[q].anchor = S.populations[q].anchor
                 /\ U[q].family = S.populations[q].family
                 /\ U[q].owner = S.populations[q].owner
           /\ U[p] = [anchor |-> S.populations[p].anchor, family |-> S.populations[p].family,
                      owner |-> S.populations[p].owner, total |-> v]
PROOF
  <1> DEFINE U == [S.populations EXCEPT ![p].total = v]
  <1>1. S.populations \in [DOMAIN S.populations -> Population]
    BY DEF AuthTypes
  <1>2. /\ DOMAIN U = DOMAIN S.populations
        /\ U = [q \in DOMAIN S.populations |-> U[q]]
        /\ \A q \in DOMAIN S.populations : q # p => U[q] = S.populations[q]
        /\ U[p] = [S.populations[p] EXCEPT !.total = v]
    BY <1>1
  <1>3. S.populations[p] \in Population
    BY <1>1
  <1>4. U[p] = [anchor |-> S.populations[p].anchor, family |-> S.populations[p].family,
                owner |-> S.populations[p].owner, total |-> v]
    BY <1>2, <1>3 DEF Population
  <1> HIDE DEF U
  <1>5. \A q \in DOMAIN S.populations :
           /\ U[q].anchor = S.populations[q].anchor
           /\ U[q].family = S.populations[q].family
           /\ U[q].owner = S.populations[q].owner
    BY <1>2, <1>4
  <1> QED
    BY <1>2, <1>4, <1>5 DEF U

\* produce_counted exchanges k members.
LEMMA ProduceKeeps ==
    ASSUME NEW S, NEW n \in Nat, NEW h \in Id(n), NEW p, NEW k \in Nat,
           AuthInv(S, n), MayProduce(S, h, p, k)
    PROVE  AuthInv(Produced(S, h, p, k), n) /\ Exchanged(S, Produced(S, h, p, k), h, p, k)
PROOF
  <1> DEFINE T == Produced(S, h, p, k)
             U == [S.populations EXCEPT ![p].total = S.populations[p].total + k]
  <1>1. AuthTypes(S, n) /\ p \in DOMAIN S.populations /\ h \in Nat
    BY DEF AuthInv, MayProduce, AuthorityOwned, Id
  <1>2. /\ AuthShape(T) /\ T.anchors = S.anchors /\ T.registrations = S.registrations
        /\ T.populations = U
        /\ T.members = WithCount(S.members, <<h, p>>, Count(S.members, <<h, p>>) + k)
        /\ T.obligations = ChangeObligations(S.obligations, h, 0, k)
    BY <1>1 DEF Produced, AuthTypes, AuthShape
  <1> HIDE DEF T
  <1>3. /\ Count(S.members, <<h, p>>) + k \in Nat
        /\ Count(S.obligations, h) \in Nat
    <2>1. /\ Count(S.members, <<h, p>>) \in Nat
          /\ Cardinality(OwnedBy(S.anchors, h)) \in Nat
          /\ Cardinality(OwnedBy(S.populations, h)) \in Nat
          /\ Total(HeldOf(S, h)) \in Nat
      BY <1>1, AuthFacts, OwnedFinite
    <2> QED
      BY <1>1, <2>1 DEF AuthInv, ObligationsCounted
  <1>4. \A g \in Nat : Count(T.obligations, g) =
           IF g = h THEN Count(S.obligations, h) + k ELSE Count(S.obligations, g)
    BY <1>2, <1>3, ChangedObligations
  <1>5. Exchanged(S, T, h, p, k)
    <2>1. /\ DOMAIN U = DOMAIN S.populations
          /\ U = [q \in DOMAIN S.populations |-> U[q]]
          /\ \A q \in DOMAIN S.populations :
                /\ q # p => U[q] = S.populations[q]
                /\ U[q].anchor = S.populations[q].anchor
                /\ U[q].family = S.populations[q].family
                /\ U[q].owner = S.populations[q].owner
          /\ U[p] = [anchor |-> S.populations[p].anchor, family |-> S.populations[p].family,
                     owner |-> S.populations[p].owner, total |-> S.populations[p].total + k]
      BY <1>1, RetotalledFields
    <2> HIDE DEF U
    <2> QED
      BY <1>2, <1>4, <2>1 DEF Exchanged
  <1>6. AuthInv(T, n)
    BY <1>1, <1>3, <1>5, ExchangeKeeps
  <1> QED
    BY <1>5, <1>6 DEF T

\* consume_counted exchanges -k members, which the holder has.
LEMMA ConsumeKeeps ==
    ASSUME NEW S, NEW n \in Nat, NEW h \in Id(n), NEW p, NEW k \in Nat,
           AuthInv(S, n), MayConsume(S, h, p, k)
    PROVE  AuthInv(Consumed(S, h, p, k), n) /\ Exchanged(S, Consumed(S, h, p, k), h, p, 0 - k)
PROOF
  <1> DEFINE T == Consumed(S, h, p, k)
             U == [S.populations EXCEPT ![p].total = S.populations[p].total - k]
  <1>1. AuthTypes(S, n) /\ p \in DOMAIN S.populations /\ h \in Nat
    BY DEF AuthInv, MayConsume, AuthorityOwned, Id
  <1>2. /\ AuthShape(T) /\ T.anchors = S.anchors /\ T.registrations = S.registrations
        /\ T.populations = U
        /\ T.members = WithCount(S.members, <<h, p>>, Count(S.members, <<h, p>>) - k)
        /\ T.obligations = ChangeObligations(S.obligations, h, k, 0)
    BY <1>1 DEF Consumed, AuthTypes, AuthShape
  <1> HIDE DEF T
  <1>3. /\ Count(S.members, <<h, p>>) + (0 - k) \in Nat
        /\ Count(S.members, <<h, p>>) - k = Count(S.members, <<h, p>>) + (0 - k)
        /\ Count(S.obligations, h) \in Nat
        /\ S.populations[p].total - k = S.populations[p].total + (0 - k)
    <2>1. /\ Count(S.members, <<h, p>>) \in Nat
          /\ Cardinality(OwnedBy(S.anchors, h)) \in Nat
          /\ Cardinality(OwnedBy(S.populations, h)) \in Nat
          /\ Total(HeldOf(S, h)) \in Nat
      BY <1>1, AuthFacts, OwnedFinite
    <2>2. S.populations[p].total \in Nat
      BY <1>1 DEF AuthTypes, Population
    <2>3. k <= Count(S.members, <<h, p>>)
      BY DEF MayConsume
    <2>4. Count(S.obligations, h) \in Nat
      BY <1>1, <2>1 DEF AuthInv, ObligationsCounted
    <2> QED
      BY <2>1, <2>2, <2>3, <2>4
  <1>4. \A g \in Nat : Count(T.obligations, g) =
           IF g = h THEN Count(S.obligations, h) + (0 - k) ELSE Count(S.obligations, g)
    BY <1>2, <1>3, ChangedObligations
  <1>5. Exchanged(S, T, h, p, 0 - k)
    <2>1. /\ DOMAIN U = DOMAIN S.populations
          /\ U = [q \in DOMAIN S.populations |-> U[q]]
          /\ \A q \in DOMAIN S.populations :
                /\ q # p => U[q] = S.populations[q]
                /\ U[q].anchor = S.populations[q].anchor
                /\ U[q].family = S.populations[q].family
                /\ U[q].owner = S.populations[q].owner
          /\ U[p] = [anchor |-> S.populations[p].anchor, family |-> S.populations[p].family,
                     owner |-> S.populations[p].owner, total |-> S.populations[p].total - k]
      BY <1>1, RetotalledFields
    <2> HIDE DEF U
    <2> QED
      BY <1>2, <1>3, <1>4, <2>1 DEF Exchanged
  <1>6. AuthInv(T, n)
    BY <1>1, <1>3, <1>5, ExchangeKeeps
  <1> QED
    BY <1>5, <1>6 DEF T

Counted(given) == given.members \in [DOMAIN given.members -> Nat \ {0}]

\* M is the members of S after a move.
MembersMoved(S, M, from, to, given, n) ==
    /\ M \in [DOMAIN M -> Nat \ {0}]
    /\ DOMAIN M \subseteq Id(n) \X DOMAIN S.populations
    /\ \A k : Count(M, k) \in Nat
    /\ \A p : /\ Count(given.members, p) \in Nat
              /\ Count(M, <<from, p>>) = Count(S.members, <<from, p>>) - Count(given.members, p)
              /\ Count(M, <<to, p>>) = Count(S.members, <<to, p>>) + Count(given.members, p)
              /\ \A h : h # from /\ h # to => Count(M, <<h, p>>) = Count(S.members, <<h, p>>)

\* Every count after a move: what is given leaves one holder and reaches the
\* other.
LEMMA MovedCounts ==
    ASSUME NEW S, NEW n \in Nat, NEW from \in Id(n), NEW to \in Id(n), from # to,
           AuthTypes(S, n), NEW given, Counted(given), MayMove(S, from, to, given)
    PROVE  MembersMoved(S, MovedMembers(S.members, from, to, given), from, to, given, n)
PROOF
  <1> DEFINE M == MovedMembers(S.members, from, to, given)
             After(h, p) == MembersAfter(S.members, from, to, given, h, p)
             held == DOMAIN S.members \cup ({to} \X DOMAIN given.members)
  <1>1. \A h, p : Count(S.members, <<h, p>>) \in Nat
    BY AuthFacts
  <1>2. \A p \in DOMAIN given.members : p \in DOMAIN S.populations
    BY DEF MayMove
  <1>3. \A p : Count(given.members, p) \in Nat
    BY DEF Counted, Count
  <1>4. \A p : Count(given.members, p) <= Count(S.members, <<from, p>>)
    <2> SUFFICES ASSUME NEW p PROVE Count(given.members, p) <= Count(S.members, <<from, p>>)
      OBVIOUS
    <2>1. CASE p \in DOMAIN given.members
      BY <2>1 DEF MayMove, Count
    <2>2. CASE p \notin DOMAIN given.members
      <3>1. Count(given.members, p) = 0
        BY <2>2 DEF Count
      <3> QED
        BY <1>1, <3>1
    <2> QED
      BY <2>1, <2>2
  <1>5. \A h, p : After(h, p) \in Nat
    <2> SUFFICES ASSUME NEW h, NEW p PROVE After(h, p) \in Nat
      OBVIOUS
    <2>1. /\ Count(S.members, <<h, p>>) \in Nat /\ Count(given.members, p) \in Nat
          /\ h = from => Count(given.members, p) <= Count(S.members, <<h, p>>)
      BY <1>1, <1>3, <1>4
    <2> QED
      BY <2>1 DEF MembersAfter
  <1>6. M = [k \in {x \in held : After(x[1], x[2]) > 0} |-> After(k[1], k[2])]
    BY DEF MovedMembers
  <1>7. DOMAIN S.members \subseteq Id(n) \X DOMAIN S.populations
    BY DEF AuthTypes
  <1> HIDE DEF M, After
  <1>8. \A k \in held : k = <<k[1], k[2]>> /\ k[1] \in Id(n) /\ k[2] \in DOMAIN S.populations
    BY <1>2, <1>7
  <1>9. M \in [DOMAIN M -> Nat \ {0}]
    BY <1>5, <1>6
  <1>10. DOMAIN M \subseteq Id(n) \X DOMAIN S.populations
    BY <1>6, <1>8
  <1>11. ASSUME NEW h, NEW p PROVE Count(M, <<h, p>>) = After(h, p)
    <2>1. CASE <<h, p>> \in held /\ After(h, p) > 0
      BY <1>6, <2>1 DEF Count
    <2>2. CASE <<h, p>> \in held /\ ~ (After(h, p) > 0)
      <3>1. After(h, p) = 0
        BY <1>5, <2>2
      <3> QED
        BY <1>6, <2>2, <3>1 DEF Count
    <2>3. CASE <<h, p>> \notin held
      <3>1. Count(S.members, <<h, p>>) = 0
        BY <2>3 DEF Count
      <3>2. h = to => Count(given.members, p) = 0
        BY <2>3 DEF Count
      <3>3. h = from => Count(given.members, p) = 0
        BY <1>3, <1>4, <3>1
      <3>4. After(h, p) = 0
        BY <3>1, <3>2, <3>3 DEF After, MembersAfter
      <3> QED
        BY <1>6, <2>3, <3>4 DEF Count
    <2> QED
      BY <2>1, <2>2, <2>3
  <1> QED
    <2>1. \A k : Count(M, k) \in Nat
      BY <1>9 DEF Count
    <2>2. ASSUME NEW p
          PROVE  /\ After(from, p) = Count(S.members, <<from, p>>) - Count(given.members, p)
                 /\ After(to, p) = Count(S.members, <<to, p>>) + Count(given.members, p)
                 /\ \A h : h # from /\ h # to => After(h, p) = Count(S.members, <<h, p>>)
      <3>1. /\ Count(S.members, <<from, p>>) \in Nat /\ Count(S.members, <<to, p>>) \in Nat
            /\ Count(given.members, p) \in Nat
        BY <1>1, <1>3
      <3>2. After(from, p) = Count(S.members, <<from, p>>) - Count(given.members, p)
        BY <3>1 DEF After, MembersAfter
      <3>3. After(to, p) = Count(S.members, <<to, p>>) + Count(given.members, p)
        BY <3>1 DEF After, MembersAfter
      <3>4. ASSUME NEW h, h # from, h # to PROVE After(h, p) = Count(S.members, <<h, p>>)
        <4>1. Count(S.members, <<h, p>>) \in Nat
          BY <1>1
        <4> QED
          BY <3>4, <4>1 DEF After, MembersAfter
      <3> QED
        BY <3>2, <3>3, <3>4
    <2> QED
      BY <1>3, <1>9, <1>10, <1>11, <2>1, <2>2 DEF M, MembersMoved

\* The owners that a move changes.
MovedTo(S, T, from, to, given) ==
    /\ AuthShape(T)
    /\ T.registrations = S.registrations
    /\ T.members = MovedMembers(S.members, from, to, given)
    /\ T.anchors \in [DOMAIN S.anchors -> Anchor]
    /\ \A a \in DOMAIN S.anchors :
          /\ T.anchors[a].owner = IF a \in given.anchors THEN to ELSE S.anchors[a].owner
          /\ T.anchors[a].creator = S.anchors[a].creator
          /\ T.anchors[a].established = S.anchors[a].established
          /\ T.anchors[a].registrations = S.anchors[a].registrations
    /\ T.populations \in [DOMAIN S.populations -> Population]
    /\ \A p \in DOMAIN S.populations :
          /\ T.populations[p].owner =
                IF p \in given.authorities THEN to ELSE S.populations[p].owner
          /\ T.populations[p].anchor = S.populations[p].anchor
          /\ T.populations[p].family = S.populations[p].family
          /\ T.populations[p].total = S.populations[p].total
    /\ T.obligations = ChangeObligations(
          ChangeObligations(S.obligations, from, Weight(given), 0), to, 0, Weight(given))

\* What a move makes of the ledger.
LEMMA MovedFields ==
    ASSUME NEW S, NEW n \in Nat, NEW from, NEW to \in Nat, AuthTypes(S, n), NEW given
    PROVE  MovedTo(S, Moved(S, from, to, given), from, to, given)
PROOF
  <1> DEFINE T == Moved(S, from, to, given)
             A == [a \in DOMAIN S.anchors |->
                     IF a \in given.anchors THEN [S.anchors[a] EXCEPT !.owner = to]
                                            ELSE S.anchors[a]]
             P == [p \in DOMAIN S.populations |->
                     IF p \in given.authorities THEN [S.populations[p] EXCEPT !.owner = to]
                                                ELSE S.populations[p]]
             M == MovedMembers(S.members, from, to, given)
             O == ChangeObligations(
                    ChangeObligations(S.obligations, from, Weight(given), 0), to, 0, Weight(given))
  <1>1. T = [anchors |-> A, registrations |-> S.registrations, populations |-> P,
             members |-> M, obligations |-> O]
    BY DEF Moved
  <1>2. /\ A \in [DOMAIN S.anchors -> Anchor]
        /\ \A a \in DOMAIN S.anchors :
              /\ A[a].owner = IF a \in given.anchors THEN to ELSE S.anchors[a].owner
              /\ A[a].creator = S.anchors[a].creator
              /\ A[a].established = S.anchors[a].established
              /\ A[a].registrations = S.anchors[a].registrations
    BY DEF AuthTypes, Anchor
  <1>3. /\ P \in [DOMAIN S.populations -> Population]
        /\ \A p \in DOMAIN S.populations :
              /\ P[p].owner = IF p \in given.authorities THEN to ELSE S.populations[p].owner
              /\ P[p].anchor = S.populations[p].anchor
              /\ P[p].family = S.populations[p].family
              /\ P[p].total = S.populations[p].total
    BY DEF AuthTypes, Population
  <1> HIDE DEF T, A, P, M, O
  <1>4. /\ AuthShape(T) /\ T.anchors = A /\ T.registrations = S.registrations
        /\ T.populations = P /\ T.members = M /\ T.obligations = O
    BY <1>1 DEF AuthShape
  <1> QED
    BY <1>2, <1>3, <1>4 DEF T, M, O, MovedTo

\* The members a move names, as counts of all populations.
GivenOf(S, given) == [p \in DOMAIN S.populations |-> Count(given.members, p)]

\* A holder that gives the things of X, all its own, to another one.
HandsOver(f, g, X, from, to) ==
    /\ from # to
    /\ DOMAIN g = DOMAIN f /\ X \subseteq DOMAIN f
    /\ \A x \in X : f[x].owner = from
    /\ \A x \in DOMAIN f : g[x].owner = IF x \in X THEN to ELSE f[x].owner

\* Ownership of X handed over from one holder to another.
LEMMA GiverAndTaker ==
    ASSUME NEW f, NEW g, IsFiniteSet(DOMAIN f), NEW X, NEW from, NEW to,
           HandsOver(f, g, X, from, to)
    PROVE  /\ Cardinality(X) \in Nat
           /\ Cardinality(OwnedBy(g, from)) = Cardinality(OwnedBy(f, from)) - Cardinality(X)
           /\ Cardinality(OwnedBy(g, to)) = Cardinality(OwnedBy(f, to)) + Cardinality(X)
           /\ \A h : h # from /\ h # to => OwnedBy(g, h) = OwnedBy(f, h)
PROOF
  <1> USE DEF HandsOver
  <1>1. IsFiniteSet(X) /\ Cardinality(X) \in Nat
    BY FS_Subset, FS_CardinalityType
  <1>2. OwnedBy(f, from) \subseteq DOMAIN f /\ OwnedBy(f, to) \subseteq DOMAIN f
    BY DEF OwnedBy
  <1>3. /\ IsFiniteSet(OwnedBy(f, from)) /\ IsFiniteSet(OwnedBy(f, to))
        /\ Cardinality(OwnedBy(f, to)) \in Nat
    BY <1>2, FS_Subset, FS_CardinalityType
  <1>4. OwnedBy(g, from) = OwnedBy(f, from) \ X /\ OwnedBy(f, from) \cap X = X
    BY DEF OwnedBy
  <1>5. Cardinality(OwnedBy(g, from)) = Cardinality(OwnedBy(f, from)) - Cardinality(X)
    <2>1. Cardinality(OwnedBy(f, from) \ X) =
             Cardinality(OwnedBy(f, from)) - Cardinality(OwnedBy(f, from) \cap X)
      BY <1>3, FS_Difference
    <2> QED
      BY <1>4, <2>1
  <1>6. OwnedBy(g, to) = OwnedBy(f, to) \cup X /\ OwnedBy(f, to) \cap X = {}
    BY DEF OwnedBy
  <1>7. Cardinality(OwnedBy(g, to)) = Cardinality(OwnedBy(f, to)) + Cardinality(X)
    <2>1. Cardinality(OwnedBy(f, to) \cup X) =
             Cardinality(OwnedBy(f, to)) + Cardinality(X) - Cardinality(OwnedBy(f, to) \cap X)
      BY <1>1, <1>3, FS_Union
    <2>2. Cardinality(OwnedBy(f, to) \cap X) = 0
      BY <1>6, FS_EmptySet
    <2> QED
      BY <1>1, <1>3, <1>6, <2>1, <2>2
  <1>8. \A h : h # from /\ h # to => OwnedBy(g, h) = OwnedBy(f, h)
    BY DEF OwnedBy
  <1> QED
    BY <1>1, <1>5, <1>7, <1>8

\* A move between two holders changes no total and carries the obligations.
LEMMA MoveKeeps ==
    ASSUME NEW S, NEW n \in Nat, NEW from \in Id(n), NEW to \in Id(n), from # to,
           AuthInv(S, n), NEW given, Counted(given), MayMove(S, from, to, given)
    PROVE  AuthInv(Moved(S, from, to, given), n)
PROOF
  <1> DEFINE T == Moved(S, from, to, given)
             G == GivenOf(S, given)
             D == DOMAIN S.populations
  <1>1. AuthTypes(S, n) /\ from \in Nat /\ to \in Nat
    BY DEF AuthInv, Id
  <1>2. MovedTo(S, T, from, to, given)
    BY <1>1, MovedFields
  <1>3. MembersMoved(S, MovedMembers(S.members, from, to, given), from, to, given, n)
    BY <1>1, MovedCounts
  <1> HIDE DEF T
  <1>4. /\ AuthShape(T)
        /\ T.registrations = S.registrations
        /\ T.members = MovedMembers(S.members, from, to, given)
        /\ T.anchors \in [DOMAIN S.anchors -> Anchor]
        /\ \A a \in DOMAIN S.anchors :
              /\ T.anchors[a].owner = IF a \in given.anchors THEN to ELSE S.anchors[a].owner
              /\ T.anchors[a].established = S.anchors[a].established
              /\ T.anchors[a].registrations = S.anchors[a].registrations
        /\ T.populations \in [D -> Population]
        /\ \A p \in D :
              /\ T.populations[p].owner =
                    IF p \in given.authorities THEN to ELSE S.populations[p].owner
              /\ T.populations[p].anchor = S.populations[p].anchor
              /\ T.populations[p].family = S.populations[p].family
              /\ T.populations[p].total = S.populations[p].total
        /\ T.obligations = ChangeObligations(
              ChangeObligations(S.obligations, from, Weight(given), 0), to, 0, Weight(given))
    BY <1>2 DEF MovedTo
  <1>5. /\ T.members \in [DOMAIN T.members -> Nat \ {0}]
        /\ DOMAIN T.members \subseteq Id(n) \X D
        /\ \A k : Count(T.members, k) \in Nat
        /\ \A p :
              /\ Count(given.members, p) \in Nat
              /\ Count(T.members, <<from, p>>) =
                    Count(S.members, <<from, p>>) - Count(given.members, p)
              /\ Count(T.members, <<to, p>>) =
                    Count(S.members, <<to, p>>) + Count(given.members, p)
              /\ \A h : h # from /\ h # to => Count(T.members, <<h, p>>) = Count(S.members, <<h, p>>)
    BY <1>4, <1>3 DEF MembersMoved
  <1>6. /\ IsFiniteSet(Id(n)) /\ IsFiniteSet(D) /\ IsFiniteSet(DOMAIN S.anchors)
        /\ \A q : MembersOf(S, q, n) \in [Id(n) -> Nat]
        /\ \A g : HeldOf(S, g) \in [D -> Nat]
        /\ \A k : Count(S.members, k) \in Nat
    BY <1>1, AuthFacts
  <1>7. AuthTypes(T, n)
    BY <1>1, <1>4, <1>5 DEF AuthTypes
  <1>8. Registered(T)
    <2>1. \A q \in D : KeyOf(T, q) = KeyOf(S, q)
      BY <1>4 DEF KeyOf
    <2>2. \A k \in DOMAIN S.registrations : S.registrations[k] \in D
      BY <1>1 DEF AuthTypes
    <2>3. \A k \in DOMAIN T.registrations : k = KeyOf(T, T.registrations[k])
      BY <1>4, <2>1, <2>2 DEF AuthInv, Registered
    <2>4. ASSUME NEW q \in D
          PROVE  /\ KeyOf(T, q) \in DOMAIN T.registrations
                 /\ T.registrations[KeyOf(T, q)] = q
                 /\ T.populations[q].anchor \in DOMAIN T.anchors
                 /\ T.populations[q].family \in T.anchors[T.populations[q].anchor].established
      <3>1. /\ KeyOf(S, q) \in DOMAIN S.registrations /\ S.registrations[KeyOf(S, q)] = q
            /\ S.populations[q].anchor \in DOMAIN S.anchors
            /\ S.populations[q].family \in S.anchors[S.populations[q].anchor].established
        BY DEF AuthInv, Registered
      <3>2. DOMAIN T.anchors = DOMAIN S.anchors
        BY <1>4
      <3> QED
        BY <1>4, <2>1, <3>1, <3>2
    <2>5. DOMAIN T.populations = D
      BY <1>4
    <2> QED
      BY <2>3, <2>4, <2>5 DEF Registered
  <1>9. RegistrationsCounted(T)
    <2>1. \A x : PopulationsAt(T, x) = PopulationsAt(S, x)
      BY <1>4 DEF PopulationsAt
    <2> QED
      BY <1>4, <2>1 DEF AuthInv, RegistrationsCounted
  <1>10. TotalsCounted(T, n)
    <2> SUFFICES ASSUME NEW p \in D
                 PROVE  Total(MembersOf(T, p, n)) = Total(MembersOf(S, p, n))
      BY <1>4 DEF TotalsCounted, AuthInv
    <2> DEFINE c == Count(given.members, p)
               mid == [MembersOf(S, p, n) EXCEPT ![from] = @ - c]
    <2>1. /\ MembersOf(S, p, n) \in [Id(n) -> Nat]
          /\ \A h \in Id(n) : MembersOf(S, p, n)[h] = Count(S.members, <<h, p>>)
      BY <1>6 DEF MembersOf
    <2>2. /\ MembersOf(T, p, n) \in [Id(n) -> Nat]
          /\ \A h \in Id(n) : MembersOf(T, p, n)[h] = Count(T.members, <<h, p>>)
      BY <1>5 DEF MembersOf
    <2>3. /\ c \in Nat
          /\ MembersOf(T, p, n)[from] = MembersOf(S, p, n)[from] - c
          /\ MembersOf(T, p, n)[to] = MembersOf(S, p, n)[to] + c
          /\ \A h \in Id(n) : h # from /\ h # to => MembersOf(T, p, n)[h] = MembersOf(S, p, n)[h]
      BY <1>5, <2>1, <2>2
    <2>4. /\ mid \in [Id(n) -> Nat]
          /\ mid[from] = MembersOf(S, p, n)[from] - c
          /\ \A h \in Id(n) : h # from => mid[h] = MembersOf(S, p, n)[h]
      BY <2>1, <2>2, <2>3
    <2> HIDE DEF c, mid
    <2>5. Total(mid) = Total(MembersOf(S, p, n)) - MembersOf(S, p, n)[from] + mid[from]
      BY <1>6, <2>1, <2>4, TotalChanged
    <2>6. /\ MembersOf(T, p, n)[to] = mid[to] + c
          /\ \A h \in Id(n) : h # to => MembersOf(T, p, n)[h] = mid[h]
      BY <2>3, <2>4
    <2>7. Total(MembersOf(T, p, n)) = Total(mid) - mid[to] + MembersOf(T, p, n)[to]
      BY <1>6, <2>2, <2>4, <2>6, TotalChanged
    <2>8. /\ Total(MembersOf(S, p, n)) \in Nat /\ Total(mid) \in Nat
          /\ mid[to] \in Nat /\ MembersOf(S, p, n)[from] \in Nat
      BY <1>6, <2>1, <2>4, UnitsFinite
    <2> QED
      BY <2>3, <2>4, <2>5, <2>6, <2>7, <2>8
  <1>11. /\ G \in [D -> Nat] /\ Total(G) = Total(given.members) /\ Total(G) \in Nat
    <2>1. G \in [D -> Nat]
      BY <1>5 DEF GivenOf
    <2>2. given.members \in [DOMAIN given.members -> Nat]
      BY DEF Counted
    <2>3. DOMAIN given.members \subseteq D
      BY DEF MayMove
    <2>4. \A p \in D \cap DOMAIN given.members : G[p] = given.members[p]
      BY DEF GivenOf, Count
    <2>5. \A p \in D \ DOMAIN given.members : G[p] = 0
      BY DEF GivenOf, Count
    <2>6. \A p \in DOMAIN given.members \ D : given.members[p] = 0
      BY <2>3
    <2>7. Total(G) = Total(given.members)
      BY <2>1, <2>2, <2>4, <2>5, <2>6, TotalSame
    <2> QED
      BY <1>6, <2>1, <2>7, UnitsFinite
  <1>12. ASSUME NEW g PROVE HeldOf(T, g) \in [D -> Nat]
    BY <1>4, <1>7, AuthFacts
  <1>13. /\ Total(HeldOf(T, from)) = Total(HeldOf(S, from)) - Total(given.members)
         /\ Total(HeldOf(T, to)) = Total(HeldOf(S, to)) + Total(given.members)
         /\ \A g : g # from /\ g # to => HeldOf(T, g) = HeldOf(S, g)
    <2>1. ASSUME NEW g PROVE /\ \A p \in D : HeldOf(S, g)[p] = Count(S.members, <<g, p>>)
                             /\ \A p \in D : HeldOf(T, g)[p] = Count(T.members, <<g, p>>)
      BY <1>4 DEF HeldOf
    <2>2. ASSUME NEW p \in D
          PROVE  /\ HeldOf(S, from)[p] = HeldOf(T, from)[p] + G[p]
                 /\ HeldOf(T, to)[p] = HeldOf(S, to)[p] + G[p]
      <3>1. G[p] = Count(given.members, p)
        BY DEF GivenOf
      <3>2. /\ HeldOf(S, from)[p] = Count(S.members, <<from, p>>)
            /\ HeldOf(T, from)[p] = Count(T.members, <<from, p>>)
            /\ HeldOf(S, to)[p] = Count(S.members, <<to, p>>)
            /\ HeldOf(T, to)[p] = Count(T.members, <<to, p>>)
        BY <2>1
      <3>3. /\ Count(S.members, <<from, p>>) \in Nat /\ Count(S.members, <<to, p>>) \in Nat
        BY <1>6
      <3> HIDE DEF G
      <3> QED
        BY <1>5, <3>1, <3>2, <3>3
    <2> HIDE DEF G
    <2>4. Total(HeldOf(S, from)) = Total(HeldOf(T, from)) + Total(G)
      BY <1>6, <1>11, <1>12, <2>2, TotalAdds
    <2>5. Total(HeldOf(T, to)) = Total(HeldOf(S, to)) + Total(G)
      BY <1>6, <1>11, <1>12, <2>2, TotalAdds
    <2>6. ASSUME NEW g, g # from, g # to PROVE HeldOf(T, g) = HeldOf(S, g)
      <3>1. ASSUME NEW p \in D PROVE HeldOf(T, g)[p] = HeldOf(S, g)[p]
        <4>1. Count(T.members, <<g, p>>) = Count(S.members, <<g, p>>)
          BY <1>5, <2>6
        <4> QED
          BY <2>1, <4>1
      <3> QED
        BY <1>6, <1>12, <3>1
    <2>7. Total(HeldOf(T, from)) \in Nat /\ Total(HeldOf(S, from)) \in Nat
      BY <1>6, <1>12, UnitsFinite
    <2> QED
      BY <1>11, <2>4, <2>5, <2>6, <2>7
  <1>14. /\ Cardinality(given.anchors) \in Nat
         /\ Cardinality(OwnedBy(T.anchors, from)) =
               Cardinality(OwnedBy(S.anchors, from)) - Cardinality(given.anchors)
         /\ Cardinality(OwnedBy(T.anchors, to)) =
               Cardinality(OwnedBy(S.anchors, to)) + Cardinality(given.anchors)
         /\ \A g : g # from /\ g # to => OwnedBy(T.anchors, g) = OwnedBy(S.anchors, g)
    <2>1. \A a \in given.anchors : a \in DOMAIN S.anchors /\ S.anchors[a].owner = from
      BY DEF MayMove, AnchorOwned
    <2>2. DOMAIN T.anchors = DOMAIN S.anchors
      BY <1>4
    <2>3. given.anchors \in SUBSET DOMAIN S.anchors
      BY <2>1
    <2>4. \A a \in DOMAIN S.anchors :
             T.anchors[a].owner = IF a \in given.anchors THEN to ELSE S.anchors[a].owner
      BY <1>4
    <2>5. HandsOver(S.anchors, T.anchors, given.anchors, from, to)
      BY <2>1, <2>2, <2>3, <2>4 DEF HandsOver
    <2> QED
      BY <1>6, <2>5, GiverAndTaker
  <1>15. /\ Cardinality(given.authorities) \in Nat
         /\ Cardinality(OwnedBy(T.populations, from)) =
               Cardinality(OwnedBy(S.populations, from)) - Cardinality(given.authorities)
         /\ Cardinality(OwnedBy(T.populations, to)) =
               Cardinality(OwnedBy(S.populations, to)) + Cardinality(given.authorities)
         /\ \A g : g # from /\ g # to => OwnedBy(T.populations, g) = OwnedBy(S.populations, g)
    <2>1. \A p \in given.authorities : p \in DOMAIN S.populations /\ S.populations[p].owner = from
      BY DEF MayMove, AuthorityOwned
    <2>2. DOMAIN T.populations = DOMAIN S.populations
      BY <1>4
    <2>3. given.authorities \in SUBSET DOMAIN S.populations
      BY <2>1
    <2>4. \A p \in DOMAIN S.populations :
             T.populations[p].owner = IF p \in given.authorities THEN to ELSE S.populations[p].owner
      BY <1>4
    <2>5. HandsOver(S.populations, T.populations, given.authorities, from, to)
      BY <2>1, <2>2, <2>3, <2>4 DEF HandsOver
    <2> QED
      BY <1>6, <2>5, GiverAndTaker
  <1>16. ObligationsCounted(T)
    <2> SUFFICES ASSUME NEW g \in Nat
                 PROVE  Count(T.obligations, g) =
                          Cardinality(OwnedBy(T.anchors, g))
                            + Cardinality(OwnedBy(T.populations, g)) + Total(HeldOf(T, g))
      BY DEF ObligationsCounted
    <2> DEFINE W == Weight(given)
    <2>1. W = Cardinality(given.anchors) + Cardinality(given.authorities) + Total(given.members)
      BY DEF Weight
    <2>2. Count(S.obligations, g) =
             Cardinality(OwnedBy(S.anchors, g))
               + Cardinality(OwnedBy(S.populations, g)) + Total(HeldOf(S, g))
      BY DEF AuthInv, ObligationsCounted
    <2>3. /\ Cardinality(OwnedBy(S.anchors, g)) \in Nat
          /\ Cardinality(OwnedBy(S.populations, g)) \in Nat
          /\ Total(HeldOf(S, g)) \in Nat
      BY <1>1, OwnedFinite, AuthFacts
    <2>4. Count(T.obligations, g) =
             IF g = to THEN Count(ChangeObligations(S.obligations, from, W, 0), to) - 0 + W
             ELSE Count(ChangeObligations(S.obligations, from, W, 0), g)
      BY <1>4, ChangedObligations
    <2>5. \A x : Count(ChangeObligations(S.obligations, from, W, 0), x) =
             IF x = from THEN Count(S.obligations, from) - W + 0 ELSE Count(S.obligations, x)
      BY ChangedObligations
    <2> HIDE DEF W
    <2>6. CASE g = from
      <3>1. Count(T.obligations, g) = Count(S.obligations, g) - W + 0
        BY <2>4, <2>5, <2>6
      <3> QED
        BY <1>11, <1>13, <1>14, <1>15, <2>1, <2>2, <2>3, <2>6, <3>1
    <2>7. CASE g = to
      <3>1. Count(T.obligations, g) = Count(S.obligations, g) - 0 + W
        BY <2>4, <2>5, <2>7
      <3> QED
        BY <1>11, <1>13, <1>14, <1>15, <2>1, <2>2, <2>3, <2>7, <3>1
    <2>8. CASE g # from /\ g # to
      <3>1. Count(T.obligations, g) = Count(S.obligations, g)
        BY <2>4, <2>5, <2>8
      <3> QED
        BY <1>13, <1>14, <1>15, <2>2, <2>8, <3>1
    <2> QED
      BY <2>6, <2>7, <2>8
  <1> QED
    BY <1>7, <1>8, <1>9, <1>10, <1>16 DEF AuthInv, T

\* What retiring the population p of h changes.
RetiredTo(S, T, h, p) ==
    LET a == S.populations[p].anchor IN
    /\ AuthShape(T)
    /\ T.anchors \in [DOMAIN S.anchors -> Anchor]
    /\ \A x \in DOMAIN S.anchors :
          /\ x # a => T.anchors[x] = S.anchors[x]
          /\ T.anchors[x].owner = S.anchors[x].owner
          /\ T.anchors[x].established = S.anchors[x].established
    /\ T.anchors[a].registrations = S.anchors[a].registrations - 1
    /\ T.registrations = WithoutKeys(S.registrations, {KeyOf(S, p)})
    /\ T.populations = WithoutKeys(S.populations, {p})
    /\ T.members = S.members
    /\ T.obligations = ChangeObligations(S.obligations, h, 1, 0)

\* What retire_zero makes of the ledger.
LEMMA RetireFields ==
    ASSUME NEW S, NEW n \in Nat, NEW h, NEW p \in DOMAIN S.populations, AuthTypes(S, n),
           S.populations[p].anchor \in DOMAIN S.anchors,
           S.anchors[S.populations[p].anchor].registrations \in Nat \ {0}
    PROVE  RetiredTo(S, Retired(S, h, p), h, p)
PROOF
  <1> DEFINE T == Retired(S, h, p)
             a == S.populations[p].anchor
             c == S.anchors[a].registrations - 1
             A == [S.anchors EXCEPT ![a].registrations = @ - 1]
  <1>1. S.anchors \in [DOMAIN S.anchors -> Anchor] /\ a \in DOMAIN S.anchors /\ c \in Nat
    BY DEF AuthTypes
  <1>2. /\ DOMAIN A = DOMAIN S.anchors
        /\ A = [x \in DOMAIN S.anchors |-> A[x]]
        /\ \A x \in DOMAIN S.anchors : x # a => A[x] = S.anchors[x]
        /\ A[a] = [S.anchors[a] EXCEPT !.registrations = c]
    BY <1>1
  <1>3. S.anchors[a] \in Anchor
    BY <1>1
  <1>4. /\ AuthShape(T)
        /\ T.anchors = A
        /\ T.registrations = WithoutKeys(S.registrations, {KeyOf(S, p)})
        /\ T.populations = WithoutKeys(S.populations, {p})
        /\ T.members = S.members
        /\ T.obligations = ChangeObligations(S.obligations, h, 1, 0)
    BY DEF Retired, AuthTypes, AuthShape, KeyOf
  <1>5. c = S.anchors[a].registrations - 1
    OBVIOUS
  <1> HIDE DEF A, T, c
  <1>6. /\ A[a].owner = S.anchors[a].owner
        /\ A[a].established = S.anchors[a].established
        /\ A[a].registrations = c
        /\ A[a] \in Anchor
    BY <1>1, <1>2, <1>3 DEF Anchor
  <1>7. A \in [DOMAIN S.anchors -> Anchor]
    <2>1. \A x \in DOMAIN S.anchors : A[x] \in Anchor
      BY <1>1, <1>2, <1>6
    <2> QED
      BY <1>2, <2>1
  <1> QED
    BY <1>2, <1>4, <1>5, <1>6, <1>7 DEF T, RetiredTo

\* Only a population without members retires, so no member loses its ledger.
LEMMA RetireKeeps ==
    ASSUME NEW S, NEW n \in Nat, NEW h \in Nat, NEW p, AuthInv(S, n), MayRetire(S, h, p)
    PROVE  AuthInv(Retired(S, h, p), n)
PROOF
  <1> DEFINE T == Retired(S, h, p)
             a == S.populations[p].anchor
             D == DOMAIN S.populations
  <1>1. /\ AuthTypes(S, n) /\ p \in D /\ S.populations[p].owner = h
        /\ S.populations[p].total = 0
    BY DEF AuthInv, MayRetire, AuthorityOwned
  <1>2. /\ a \in DOMAIN S.anchors
        /\ KeyOf(S, p) \in DOMAIN S.registrations /\ S.registrations[KeyOf(S, p)] = p
    BY <1>1 DEF AuthInv, Registered
  <1>3. /\ IsFiniteSet(Id(n)) /\ IsFiniteSet(D)
        /\ \A q : MembersOf(S, q, n) \in [Id(n) -> Nat]
        /\ \A g : HeldOf(S, g) \in [D -> Nat]
    BY <1>1, AuthFacts
  <1>4. /\ IsFiniteSet(PopulationsAt(S, a)) /\ p \in PopulationsAt(S, a)
        /\ Cardinality(PopulationsAt(S, a)) \in Nat
        /\ Cardinality(PopulationsAt(S, a) \ {p}) = Cardinality(PopulationsAt(S, a)) - 1
        /\ Cardinality(PopulationsAt(S, a)) # 0
    <2>1. PopulationsAt(S, a) \subseteq D
      BY DEF PopulationsAt
    <2>2. IsFiniteSet(PopulationsAt(S, a)) /\ Cardinality(PopulationsAt(S, a)) \in Nat
      BY <1>3, <2>1, FS_Subset, FS_CardinalityType
    <2>3. p \in PopulationsAt(S, a)
      BY <1>1 DEF PopulationsAt
    <2>4. Cardinality(PopulationsAt(S, a)) # 0
      BY <2>2, <2>3, FS_EmptySet
    <2> QED
      BY <2>2, <2>3, <2>4, FS_RemoveElement
  <1>5. S.anchors[a].registrations = Cardinality(PopulationsAt(S, a))
    BY <1>2 DEF AuthInv, RegistrationsCounted
  <1>6. /\ AuthShape(T)
        /\ T.anchors \in [DOMAIN S.anchors -> Anchor]
        /\ \A x \in DOMAIN S.anchors :
              /\ x # a => T.anchors[x] = S.anchors[x]
              /\ T.anchors[x].owner = S.anchors[x].owner
              /\ T.anchors[x].established = S.anchors[x].established
        /\ T.anchors[a].registrations = S.anchors[a].registrations - 1
        /\ T.registrations = WithoutKeys(S.registrations, {KeyOf(S, p)})
        /\ T.populations = WithoutKeys(S.populations, {p})
        /\ T.members = S.members
        /\ T.obligations = ChangeObligations(S.obligations, h, 1, 0)
    <2>1. S.anchors[a].registrations \in Nat \ {0}
      BY <1>4, <1>5
    <2>2. RetiredTo(S, T, h, p)
      BY <1>1, <1>2, <2>1, RetireFields
    <2> HIDE DEF T
    <2> QED
      BY <2>2 DEF RetiredTo
  <1> HIDE DEF T
  <1>7. /\ DOMAIN T.populations = D \ {p}
        /\ T.populations = [q \in D \ {p} |-> S.populations[q]]
        /\ \A q \in D \ {p} : T.populations[q] = S.populations[q]
        /\ DOMAIN T.registrations = DOMAIN S.registrations \ {KeyOf(S, p)}
        /\ T.registrations = [k \in DOMAIN S.registrations \ {KeyOf(S, p)} |-> S.registrations[k]]
        /\ \A k \in DOMAIN S.registrations \ {KeyOf(S, p)} : T.registrations[k] = S.registrations[k]
    BY <1>6 DEF WithoutKeys
  <1>8. \A g : Count(S.members, <<g, p>>) = 0
    <2>1. Total(MembersOf(S, p, n)) = 0
      BY <1>1 DEF AuthInv, TotalsCounted
    <2>2. \A g \in Id(n) : MembersOf(S, p, n)[g] = 0
      BY <1>3, <2>1, TotalZero
    <2>3. \A g \in Id(n) : Count(S.members, <<g, p>>) = 0
      BY <2>2 DEF MembersOf
    <2> QED
      BY <1>1, <2>3, AuthFacts
  <1>9. DOMAIN S.members \subseteq Id(n) \X (D \ {p})
    <2>1. ASSUME NEW k \in DOMAIN S.members PROVE k[2] # p
      <3>1. k = <<k[1], k[2]>> /\ S.members[k] # 0
        BY <1>1 DEF AuthTypes
      <3>2. Count(S.members, k) # 0
        BY <3>1 DEF Count
      <3> QED
        BY <1>8, <3>1, <3>2
    <2> QED
      BY <1>1, <2>1 DEF AuthTypes
  <1>10. \A k \in DOMAIN S.registrations \ {KeyOf(S, p)} : S.registrations[k] \in D \ {p}
    BY <1>1 DEF AuthInv, AuthTypes, Registered
  <1>11. AuthTypes(T, n)
    <2>1. T.populations \in [DOMAIN T.populations -> Population]
      BY <1>1, <1>7 DEF AuthTypes
    <2>2. T.registrations \in [DOMAIN T.registrations -> DOMAIN T.populations]
      BY <1>7, <1>10
    <2> QED
      BY <1>1, <1>6, <1>7, <1>9, <2>1, <2>2 DEF AuthTypes
  <1>12. Registered(T)
    <2>1. \A q \in D \ {p} : KeyOf(T, q) = KeyOf(S, q)
      BY <1>7 DEF KeyOf
    <2>2. \A k \in DOMAIN T.registrations : k = KeyOf(T, T.registrations[k])
      BY <1>7, <1>10, <2>1 DEF AuthInv, Registered
    <2>3. ASSUME NEW q \in D \ {p}
          PROVE  /\ KeyOf(T, q) \in DOMAIN T.registrations
                 /\ T.registrations[KeyOf(T, q)] = q
                 /\ T.populations[q].anchor \in DOMAIN T.anchors
                 /\ T.populations[q].family \in T.anchors[T.populations[q].anchor].established
      <3>1. /\ KeyOf(S, q) \in DOMAIN S.registrations /\ S.registrations[KeyOf(S, q)] = q
            /\ S.populations[q].anchor \in DOMAIN S.anchors
            /\ S.populations[q].family \in S.anchors[S.populations[q].anchor].established
        BY DEF AuthInv, Registered
      <3>2. KeyOf(S, q) # KeyOf(S, p)
        BY <1>2, <3>1
      <3>3. DOMAIN T.anchors = DOMAIN S.anchors
        BY <1>6
      <3> QED
        BY <1>6, <1>7, <2>1, <3>1, <3>2, <3>3
    <2> QED
      BY <1>7, <2>2, <2>3 DEF Registered
  <1>13. RegistrationsCounted(T)
    <2> SUFFICES ASSUME NEW x \in DOMAIN S.anchors
                 PROVE  T.anchors[x].registrations = Cardinality(PopulationsAt(T, x))
      BY <1>6 DEF RegistrationsCounted
    <2>1. CASE x = a
      <3>1. PopulationsAt(T, x) = PopulationsAt(S, a) \ {p}
        BY <1>7, <2>1 DEF PopulationsAt
      <3> QED
        BY <1>4, <1>5, <1>6, <2>1, <3>1
    <2>2. CASE x # a
      <3>1. PopulationsAt(T, x) = PopulationsAt(S, x)
        BY <1>7, <2>2 DEF PopulationsAt
      <3> QED
        BY <1>6, <2>2, <3>1 DEF AuthInv, RegistrationsCounted
    <2> QED
      BY <2>1, <2>2
  <1>14. TotalsCounted(T, n)
    <2>1. \A q : MembersOf(T, q, n) = MembersOf(S, q, n)
      BY <1>6 DEF MembersOf
    <2> QED
      BY <1>7, <2>1 DEF AuthInv, TotalsCounted
  <1>15. ObligationsCounted(T)
    <2> SUFFICES ASSUME NEW g \in Nat
                 PROVE  Count(T.obligations, g) =
                          Cardinality(OwnedBy(T.anchors, g))
                            + Cardinality(OwnedBy(T.populations, g)) + Total(HeldOf(T, g))
      BY DEF ObligationsCounted
    <2>1. OwnedBy(T.anchors, g) = OwnedBy(S.anchors, g)
      BY <1>6 DEF OwnedBy
    <2>2. Count(S.obligations, g) =
             Cardinality(OwnedBy(S.anchors, g))
               + Cardinality(OwnedBy(S.populations, g)) + Total(HeldOf(S, g))
      BY DEF AuthInv, ObligationsCounted
    <2>3. /\ IsFiniteSet(OwnedBy(S.populations, g))
          /\ Cardinality(OwnedBy(S.anchors, g)) \in Nat
          /\ Cardinality(OwnedBy(S.populations, g)) \in Nat
          /\ Total(HeldOf(S, g)) \in Nat
      BY <1>1, OwnedFinite, AuthFacts
    <2>4. Count(T.obligations, g) =
             IF g = h THEN Count(S.obligations, h) - 1 + 0 ELSE Count(S.obligations, g)
      BY <1>6, ChangedObligations
    <2>5. Total(HeldOf(T, g)) = Total(HeldOf(S, g))
      <3>1. HeldOf(T, g) \in [D \ {p} -> Nat]
        BY <1>7, <1>11, AuthFacts
      <3>2. HeldOf(S, g) \in [D -> Nat]
        BY <1>3
      <3>3. \A q \in (D \ {p}) \cap D : HeldOf(T, g)[q] = HeldOf(S, g)[q]
        BY <1>6, <1>7 DEF HeldOf
      <3>4. \A q \in D \ (D \ {p}) : HeldOf(S, g)[q] = 0
        BY <1>8 DEF HeldOf
      <3>5. \A q \in (D \ {p}) \ D : HeldOf(T, g)[q] = 0
        OBVIOUS
      <3> QED
        BY <3>1, <3>2, <3>3, <3>4, <3>5, TotalSame
    <2>6. CASE g = h
      <3>1. OwnedBy(T.populations, g) = OwnedBy(S.populations, g) \ {p}
        BY <1>7 DEF OwnedBy
      <3>2. p \in OwnedBy(S.populations, g)
        BY <1>1, <2>6 DEF OwnedBy
      <3>3. Cardinality(OwnedBy(T.populations, g)) = Cardinality(OwnedBy(S.populations, g)) - 1
        BY <2>3, <3>1, <3>2, FS_RemoveElement
      <3> QED
        BY <2>1, <2>2, <2>3, <2>4, <2>5, <2>6, <3>3
    <2>7. CASE g # h
      <3>1. OwnedBy(T.populations, g) = OwnedBy(S.populations, g)
        BY <1>1, <1>7, <2>7 DEF OwnedBy
      <3> QED
        BY <2>1, <2>2, <2>4, <2>5, <2>7, <3>1
    <2> QED
      BY <2>6, <2>7
  <1> QED
    BY <1>11, <1>12, <1>13, <1>14, <1>15 DEF AuthInv, T

\* What the end of storage makes of the ledger.
LEMMA FreeFields ==
    ASSUME NEW S, NEW n \in Nat, NEW h, NEW gone, AuthTypes(S, n)
    PROVE  LET T == Freed(S, h, gone) IN
           /\ AuthShape(T)
           /\ T.anchors = WithoutKeys(S.anchors, gone)
           /\ T.registrations = S.registrations
           /\ T.populations = S.populations
           /\ T.members = S.members
           /\ T.obligations = ChangeObligations(S.obligations, h, Cardinality(gone), 0)
BY DEF Freed, AuthTypes, AuthShape

\* Only anchors without registrations are freed, so no population loses its
\* anchor.
LEMMA FreeKeeps ==
    ASSUME NEW S, NEW n \in Nat, NEW h \in Nat, NEW gone, AuthInv(S, n),
           \A a \in gone : MayFreeAnchor(S, h, a)
    PROVE  AuthInv(Freed(S, h, gone), n)
PROOF
  <1> DEFINE T == Freed(S, h, gone)
  <1>1. /\ AuthTypes(S, n)
        /\ \A a \in gone : /\ a \in DOMAIN S.anchors /\ S.anchors[a].owner = h
                           /\ S.anchors[a].registrations = 0
    BY DEF AuthInv, MayFreeAnchor, AnchorOwned
  <1>2. /\ AuthShape(T)
        /\ T.anchors = WithoutKeys(S.anchors, gone)
        /\ T.registrations = S.registrations
        /\ T.populations = S.populations
        /\ T.members = S.members
        /\ T.obligations = ChangeObligations(S.obligations, h, Cardinality(gone), 0)
    BY <1>1, FreeFields
  <1> HIDE DEF T
  <1>3. /\ DOMAIN T.anchors = DOMAIN S.anchors \ gone
        /\ T.anchors = [a \in DOMAIN S.anchors \ gone |-> S.anchors[a]]
        /\ \A a \in DOMAIN S.anchors \ gone : T.anchors[a] = S.anchors[a]
    BY <1>2 DEF WithoutKeys
  <1>4. IsFiniteSet(DOMAIN S.anchors) /\ IsFiniteSet(DOMAIN S.populations)
    BY <1>1, AuthFacts
  <1>5. ASSUME NEW p \in DOMAIN S.populations PROVE S.populations[p].anchor \notin gone
    <2>1. SUFFICES ASSUME S.populations[p].anchor \in gone PROVE FALSE
      OBVIOUS
    <2> DEFINE a == S.populations[p].anchor
    <2>2. a \in DOMAIN S.anchors /\ S.anchors[a].registrations = 0
      BY <1>1, <2>1
    <2>3. Cardinality(PopulationsAt(S, a)) = 0
      BY <2>2 DEF AuthInv, RegistrationsCounted
    <2>4. PopulationsAt(S, a) \subseteq DOMAIN S.populations
      BY DEF PopulationsAt
    <2>5. PopulationsAt(S, a) = {}
      BY <1>4, <2>3, <2>4, FS_Subset, FS_EmptySet
    <2> QED
      BY <2>5 DEF PopulationsAt
  <1>6. AuthTypes(T, n)
    <2>1. T.anchors \in [DOMAIN T.anchors -> Anchor]
      BY <1>1, <1>3 DEF AuthTypes
    <2> QED
      BY <1>1, <1>2, <1>3, <2>1 DEF AuthTypes
  <1>7. Registered(T)
    BY <1>2, <1>3, <1>5 DEF AuthInv, Registered, KeyOf
  <1>8. RegistrationsCounted(T)
    <2>1. \A x : PopulationsAt(T, x) = PopulationsAt(S, x)
      BY <1>2 DEF PopulationsAt
    <2> QED
      BY <1>3, <2>1 DEF AuthInv, RegistrationsCounted
  <1>9. TotalsCounted(T, n)
    <2>1. \A p : MembersOf(T, p, n) = MembersOf(S, p, n)
      BY <1>2 DEF MembersOf
    <2> QED
      BY <1>2, <2>1 DEF AuthInv, TotalsCounted
  <1>10. ObligationsCounted(T)
    <2> SUFFICES ASSUME NEW g \in Nat
                 PROVE  Count(T.obligations, g) =
                          Cardinality(OwnedBy(T.anchors, g))
                            + Cardinality(OwnedBy(T.populations, g)) + Total(HeldOf(T, g))
      BY DEF ObligationsCounted
    <2>1. HeldOf(T, g) = HeldOf(S, g) /\ OwnedBy(T.populations, g) = OwnedBy(S.populations, g)
      BY <1>2 DEF HeldOf, OwnedBy
    <2>2. Count(S.obligations, g) =
             Cardinality(OwnedBy(S.anchors, g))
               + Cardinality(OwnedBy(S.populations, g)) + Total(HeldOf(S, g))
      BY DEF AuthInv, ObligationsCounted
    <2>3. /\ IsFiniteSet(OwnedBy(S.anchors, g))
          /\ Cardinality(OwnedBy(S.anchors, g)) \in Nat
          /\ Cardinality(OwnedBy(S.populations, g)) \in Nat
          /\ Total(HeldOf(S, g)) \in Nat
      BY <1>1, OwnedFinite, AuthFacts
    <2>4. Count(T.obligations, g) =
             IF g = h THEN Count(S.obligations, h) - Cardinality(gone) + 0
             ELSE Count(S.obligations, g)
      BY <1>2, ChangedObligations
    <2>5. OwnedBy(T.anchors, g) = OwnedBy(S.anchors, g) \ gone
      BY <1>3 DEF OwnedBy
    <2>6. Cardinality(OwnedBy(S.anchors, g) \ gone) =
             Cardinality(OwnedBy(S.anchors, g)) - Cardinality(OwnedBy(S.anchors, g) \cap gone)
      BY <2>3, FS_Difference
    <2>7. gone \subseteq DOMAIN S.anchors /\ Cardinality(gone) \in Nat
      BY <1>1, <1>4, FS_Subset, FS_CardinalityType
    <2>8. CASE g = h
      <3>1. OwnedBy(S.anchors, g) \cap gone = gone
        BY <1>1, <2>8 DEF OwnedBy
      <3>2. Cardinality(OwnedBy(T.anchors, g)) = Cardinality(OwnedBy(S.anchors, g)) - Cardinality(gone)
        BY <2>5, <2>6, <3>1
      <3> QED
        BY <2>1, <2>2, <2>3, <2>4, <2>7, <2>8, <3>2
    <2>9. CASE g # h
      <3>1. OwnedBy(T.anchors, g) = OwnedBy(S.anchors, g)
        BY <1>1, <2>5, <2>9 DEF OwnedBy
      <3> QED
        BY <2>1, <2>2, <2>4, <2>9, <3>1
    <2> QED
      BY <2>8, <2>9
  <1> QED
    BY <1>6, <1>7, <1>8, <1>9, <1>10 DEF AuthInv, T

----------------------------------------------------------------------------
(* The ledger with C storage                                               *)

\* T tracks the same families at the same anchors as S.
TracksAlike(S, T) ==
    /\ DOMAIN T.anchors = DOMAIN S.anchors
    /\ \A x \in DOMAIN S.anchors : T.anchors[x].established = S.anchors[x].established
    /\ DOMAIN T.registrations = DOMAIN S.registrations

\* Counts and owners changed, or members were remembered, and nothing else.
HandedOn(r, t) ==
    /\ RootShape(t)
    /\ t.pending = r.pending
    /\ t.creators = r.creators
    /\ t.anchors = r.anchors
    /\ t.empty = r.empty
    /\ \A b : Tainted(r, b) \subseteq Tainted(t, b)
    /\ TracksAlike(r.authority, t.authority)

\* Such a change leaves the records of storage true.
LEMMA HandedOnKeeps ==
    ASSUME NEW r, NEW t, NEW loose, NEW n \in Nat, NEW m \in Nat, RootOk(r, loose, n),
           HandedOn(r, t), AuthInv(t.authority, m)
    PROVE  RootOk(t, loose, m)
PROOF
  <1>1. \A b, f : TracksPopulation(t, b, f) <=> TracksPopulation(r, b, f)
    BY DEF HandedOn, TracksAlike, TracksPopulation
  <1>2. \A b, f : CheckedEmpty(t, b, f) <=> CheckedEmpty(r, b, f)
    BY DEF HandedOn, CheckedEmpty
  <1>3. Storage(t)
    BY DEF HandedOn, TracksAlike, RootOk, Storage
  <1>4. Remembered(t, loose)
    BY <1>1 DEF HandedOn, RootOk, Remembered
  <1>5. ZerosRetired(t)
    <2> SUFFICES ASSUME NEW b \in DOMAIN t.anchors, NEW f \in Family, CheckedEmpty(t, b, f)
                 PROVE  /\ f \in t.authority.anchors[t.anchors[b]].established
                        /\ ~ TracksPopulation(t, b, f)
      BY DEF ZerosRetired
    <2>1. b \in DOMAIN r.anchors /\ t.anchors[b] = r.anchors[b]
      BY DEF HandedOn
    <2>2. /\ f \in r.authority.anchors[r.anchors[b]].established
          /\ ~ TracksPopulation(r, b, f)
      BY <1>2, <2>1 DEF RootOk, ZerosRetired
    <2>3. r.anchors[b] \in DOMAIN r.authority.anchors
      BY <2>1 DEF RootOk, Storage
    <2> QED
      BY <1>1, <2>1, <2>2, <2>3 DEF HandedOn, TracksAlike
  <1> QED
    BY <1>3, <1>4, <1>5 DEF RootOk, HandedOn

\* A lifetime begins: it has an anchor of its own.
LEMMA StorageBegins ==
    ASSUME NEW r, NEW loose, NEW n \in Nat, RootOk(r, loose, n),
           NEW b \in Block, b \notin DOMAIN r.creators, NEW creator \in Nat
    PROVE  LET t == WithStorage(r, b, creator, n) IN
           /\ RootOk(t, loose, n + 1)
           /\ t.tainted = r.tainted /\ b \in DOMAIN t.creators
           /\ t.invocation = r.invocation
           /\ \A f : ~ TracksPopulation(t, b, f)
PROOF
  <1> DEFINE t == WithStorage(r, b, creator, n)
             S == r.authority
             T == AllocateAnchor(S, creator, n)
  <1>1. /\ RootShape(r) /\ AuthInv(S, n) /\ AuthTypes(S, n) /\ Storage(r)
        /\ Remembered(r, loose) /\ ZerosRetired(r)
    BY DEF RootOk, AuthInv
  <1>2. /\ RootShape(t)
        /\ t.invocation = r.invocation
        /\ t.pending = r.pending
        /\ t.creators = Put(r.creators, b, creator)
        /\ t.anchors = Put(r.anchors, b, n)
        /\ t.authority = T
        /\ t.tainted = r.tainted
        /\ t.empty = WithoutKeys(r.empty, {b})
    BY <1>1 DEF WithStorage, RootShape
  <1>3. AuthInv(T, n + 1)
    BY <1>1, AllocateKeeps
  <1>4. /\ T.anchors = Put(S.anchors, n, NewAnchor(creator))
        /\ T.registrations = S.registrations
    BY <1>1, AllocateFields
  <1> HIDE DEF t, T
  <1>5. /\ n \notin DOMAIN S.anchors
        /\ DOMAIN T.anchors = DOMAIN S.anchors \cup {n}
        /\ \A x \in DOMAIN S.anchors : T.anchors[x] = S.anchors[x]
    BY <1>1, <1>4 DEF AuthTypes, Id, Put
  <1>6. b \notin DOMAIN r.anchors
    BY <1>1 DEF Storage
  <1>7. /\ DOMAIN t.creators = DOMAIN r.creators \cup {b}
        /\ DOMAIN t.anchors = DOMAIN r.anchors \cup {b}
        /\ t.anchors = [c \in DOMAIN r.anchors \cup {b} |-> t.anchors[c]]
        /\ t.anchors[b] = n
        /\ \A c \in DOMAIN r.anchors : t.anchors[c] = r.anchors[c]
    BY <1>2, <1>6 DEF Put
  <1>8. \A c \in DOMAIN r.anchors : r.anchors[c] \in DOMAIN S.anchors
    BY <1>1 DEF Storage
  <1>9. Storage(t)
    <2>1. t.anchors \in [DOMAIN t.anchors -> DOMAIN t.authority.anchors]
      BY <1>2, <1>5, <1>7, <1>8
    <2>2. \A c, d \in DOMAIN t.anchors : t.anchors[c] = t.anchors[d] => c = d
      BY <1>1, <1>5, <1>7, <1>8 DEF Storage
    <2> QED
      BY <1>1, <1>2, <1>7, <2>1, <2>2 DEF Storage
  <1>10. \A f : ~ TracksPopulation(t, b, f)
    <2>1. ASSUME NEW f, <<n, f>> \in DOMAIN S.registrations PROVE FALSE
      <3> DEFINE p == S.registrations[<<n, f>>]
      <3>1. p \in DOMAIN S.populations /\ <<n, f>> = KeyOf(S, p)
        BY <1>1, <2>1 DEF AuthInv, AuthTypes, Registered
      <3>2. S.populations[p].anchor \in DOMAIN S.anchors
        BY <1>1, <3>1 DEF AuthInv, Registered
      <3> QED
        BY <1>5, <3>1, <3>2 DEF KeyOf
    <2> QED
      BY <1>2, <1>4, <1>7, <2>1 DEF TracksPopulation
  <1>11. \A c, f : c # b => (TracksPopulation(t, c, f) <=> TracksPopulation(r, c, f))
    BY <1>2, <1>4, <1>7 DEF TracksPopulation
  <1>12. Remembered(t, loose)
    <2>1. \A x \in loose : ~ TracksPopulation(t, x[1], x[2])
      BY <1>1, <1>10, <1>11 DEF Remembered
    <2> QED
      BY <1>1, <1>2, <1>7, <2>1 DEF Remembered, Tainted
  <1>13. ZerosRetired(t)
    <2> SUFFICES ASSUME NEW c \in DOMAIN t.anchors, NEW f \in Family, CheckedEmpty(t, c, f)
                 PROVE  /\ f \in t.authority.anchors[t.anchors[c]].established
                        /\ ~ TracksPopulation(t, c, f)
      BY DEF ZerosRetired
    <2>1. c # b /\ CheckedEmpty(r, c, f)
      BY <1>2 DEF CheckedEmpty, WithoutKeys
    <2>2. c \in DOMAIN r.anchors
      BY <1>7, <2>1
    <2>3. f \in S.anchors[r.anchors[c]].established /\ ~ TracksPopulation(r, c, f)
      BY <1>1, <2>1, <2>2 DEF ZerosRetired
    <2> QED
      BY <1>2, <1>5, <1>7, <1>8, <1>11, <2>1, <2>2, <2>3
  <1> QED
    BY <1>2, <1>3, <1>7, <1>9, <1>10, <1>12, <1>13 DEF RootOk, t

\* A request that is not resolved yet.
LEMMA RequestBegins ==
    ASSUME NEW r, NEW loose, NEW n \in Nat, RootOk(r, loose, n), r.invocation \in Nat,
           NEW q \in Request, q \notin DOMAIN r.pending
    PROVE  RootOk([r EXCEPT !.pending = Put(@, q, r.invocation)], loose, n)
PROOF
  <1> DEFINE t == [r EXCEPT !.pending = Put(@, q, r.invocation)]
  <1>1. /\ RootShape(r) /\ Storage(r) /\ Remembered(r, loose) /\ ZerosRetired(r)
        /\ AuthInv(r.authority, n)
    BY DEF RootOk
  <1>2. /\ RootShape(t)
        /\ t.pending = Put(r.pending, q, r.invocation)
        /\ t.creators = r.creators
        /\ t.anchors = r.anchors
        /\ t.authority = r.authority
        /\ t.tainted = r.tainted
        /\ t.empty = r.empty
    BY <1>1 DEF RootShape
  <1> HIDE DEF t
  <1>3. /\ t.pending \in [DOMAIN r.pending \cup {q} -> Nat]
        /\ DOMAIN t.pending = DOMAIN r.pending \cup {q}
    BY <1>1, <1>2 DEF Put, Storage
  <1>4. Storage(t)
    BY <1>1, <1>2, <1>3 DEF Storage
  <1>5. Remembered(t, loose)
    BY <1>1, <1>2, <1>3 DEF Remembered, Tainted, TracksPopulation
  <1>6. ZerosRetired(t)
    BY <1>1, <1>2 DEF ZerosRetired, CheckedEmpty, TracksPopulation
  <1> QED
    BY <1>1, <1>2, <1>4, <1>5, <1>6 DEF RootOk, t

\* The members that were not made at q.
Elsewhere(loose, q) == {x \in loose : x[1] # q}

\* The request q is dropped, and what is remembered at other places stays.
Settled(r, t, q) ==
    /\ RootShape(t)
    /\ t.invocation = r.invocation
    /\ t.pending = WithoutKeys(r.pending, {q})
    /\ t.creators = r.creators
    /\ t.anchors = r.anchors
    /\ t.authority = r.authority
    /\ t.empty = r.empty
    /\ \A c \in (DOMAIN r.creators \cup DOMAIN r.pending) \ {q} :
          Tainted(r, c) \subseteq Tainted(t, c)

\* A pending creation leaves its claims to nobody or to the block it becomes.
LEMMA RequestSettled ==
    ASSUME NEW r, NEW loose, NEW n \in Nat, RootOk(r, loose, n), NEW q \in DOMAIN r.pending,
           NEW t, Settled(r, t, q)
    PROVE  RootOk(t, Elsewhere(loose, q), n)
PROOF
  <1>1. /\ RootShape(r) /\ Storage(r) /\ Remembered(r, loose) /\ ZerosRetired(r)
        /\ AuthInv(r.authority, n)
    BY DEF RootOk
  <1>2. /\ t.pending \in [DOMAIN r.pending \ {q} -> Nat]
        /\ DOMAIN t.pending = DOMAIN r.pending \ {q}
    BY <1>1 DEF WithoutKeys, Storage, Settled
  <1>3. Storage(t)
    BY <1>1, <1>2 DEF Storage, Settled
  <1>4. \A c, f : TracksPopulation(t, c, f) <=> TracksPopulation(r, c, f)
    BY DEF TracksPopulation, Settled
  <1>5. Remembered(t, Elsewhere(loose, q))
    <2> SUFFICES ASSUME NEW x \in loose, x[1] # q
                 PROVE  /\ x = <<x[1], x[2]>>
                        /\ x[1] \in DOMAIN t.creators \cup DOMAIN t.pending
                        /\ x[2] \in Tainted(t, x[1])
                        /\ ~ TracksPopulation(t, x[1], x[2])
      BY DEF Remembered, Elsewhere
    <2>1. /\ x = <<x[1], x[2]>>
          /\ x[1] \in DOMAIN r.creators \cup DOMAIN r.pending
          /\ x[2] \in Tainted(r, x[1])
          /\ ~ TracksPopulation(r, x[1], x[2])
      BY <1>1 DEF Remembered
    <2>2. Tainted(r, x[1]) \subseteq Tainted(t, x[1])
      BY <2>1 DEF Settled
    <2> QED
      BY <1>2, <1>4, <2>1, <2>2 DEF Settled
  <1>6. ZerosRetired(t)
    BY <1>1 DEF ZerosRetired, CheckedEmpty, TracksPopulation, Settled
  <1> QED
    BY <1>1, <1>3, <1>5, <1>6 DEF RootOk, Settled

\* Its outcome: members that were made at the request belong to the block.
Carried(loose, q, b) ==
    Elsewhere(loose, q)
      \cup (IF b = None THEN {} ELSE {<<b, x[2]>> : x \in {y \in loose : y[1] = q}})

\* A pending creation that fails, or becomes storage with its taint.
LEMMA RequestEnds ==
    ASSUME NEW r, NEW loose, NEW n \in Nat, RootOk(r, loose, n), NEW q \in DOMAIN r.pending,
           NEW b \in Block \cup {None}, b \notin DOMAIN r.creators,
           NEW m \in Nat, m = IF b = None THEN n ELSE n + 1
    PROVE  /\ RootOk(Resolved(r, q, b, n), Carried(loose, q, b), m)
           /\ Resolved(r, q, b, n).invocation = r.invocation
PROOF
  <1> DEFINE settled == [r EXCEPT !.pending = WithoutKeys(@, {q}),
                                  !.tainted = WithoutKeys(@, {q})]
             moved == [settled EXCEPT !.tainted = Put(@, b, r.tainted[q])]
             rest == Elsewhere(loose, q)
             carried == {<<b, x[2]>> : x \in {y \in loose : y[1] = q}}
  <1>1. RootShape(r) /\ Storage(r) /\ Remembered(r, loose)
    BY DEF RootOk
  <1>2. /\ RootShape(settled)
        /\ settled.invocation = r.invocation
        /\ settled.pending = WithoutKeys(r.pending, {q})
        /\ settled.creators = r.creators
        /\ settled.anchors = r.anchors
        /\ settled.authority = r.authority
        /\ settled.tainted = WithoutKeys(r.tainted, {q})
        /\ settled.empty = r.empty
    BY <1>1 DEF RootShape
  <1>3. /\ RootShape(moved)
        /\ moved.invocation = r.invocation
        /\ moved.pending = WithoutKeys(r.pending, {q})
        /\ moved.creators = r.creators
        /\ moved.anchors = r.anchors
        /\ moved.authority = r.authority
        /\ moved.tainted = Put(WithoutKeys(r.tainted, {q}), b, r.tainted[q])
        /\ moved.empty = r.empty
    BY <1>1 DEF RootShape
  <1>4. /\ b = None => Resolved(r, q, b, n) = settled
        /\ b # None /\ q \in DOMAIN r.tainted =>
              Resolved(r, q, b, n) = WithStorage(moved, b, r.pending[q], n)
        /\ b # None /\ q \notin DOMAIN r.tainted =>
              Resolved(r, q, b, n) = WithStorage(settled, b, r.pending[q], n)
    BY DEF Resolved
  <1> HIDE DEF settled, moved
  <1>5. \A c : c # q => Tainted(r, c) = Tainted(settled, c)
    BY <1>2 DEF Tainted, WithoutKeys
  <1>6. RootOk(settled, rest, n)
    <2>1. Settled(r, settled, q)
      BY <1>2, <1>5 DEF Settled
    <2> QED
      BY <2>1, RequestSettled
  <1>7. b # None => b \in Block /\ b \notin DOMAIN r.pending /\ r.pending[q] \in Nat
    BY <1>1, PopulationAssumption DEF Storage
  <1>8. CASE b = None
    <2>1. Carried(loose, q, b) = rest
      BY <1>8 DEF Carried
    <2> QED
      BY <1>2, <1>4, <1>6, <1>8, <2>1
  <1>9. CASE b # None /\ q \notin DOMAIN r.tainted
    <2>1. Tainted(r, q) = {}
      BY <1>9 DEF Tainted
    <2>2. carried = {}
      BY <1>1, <2>1 DEF Remembered
    <2>3. RootOk(WithStorage(settled, b, r.pending[q], n), rest, n + 1)
          /\ WithStorage(settled, b, r.pending[q], n).invocation = r.invocation
      BY <1>2, <1>6, <1>7, <1>9, StorageBegins
    <2> QED
      BY <1>4, <1>9, <2>2, <2>3 DEF Carried
  <1>10. CASE b # None /\ q \in DOMAIN r.tainted
    <2> DEFINE t == WithStorage(moved, b, r.pending[q], n)
    <2>1. /\ \A c : c # q /\ c # b => Tainted(r, c) \subseteq Tainted(moved, c)
          /\ Tainted(moved, b) = Tainted(r, q)
      BY <1>3, <1>10 DEF Tainted, WithoutKeys, Put
    <2>2. RootOk(moved, rest, n)
      <3>1. Settled(r, moved, q)
        BY <1>3, <1>7, <1>10, <2>1 DEF Settled
      <3> QED
        BY <3>1, RequestSettled
    <2>3. /\ RootOk(t, rest, n + 1)
          /\ t.tainted = moved.tainted /\ b \in DOMAIN t.creators
          /\ t.invocation = moved.invocation
          /\ \A f : ~ TracksPopulation(t, b, f)
      BY <1>3, <1>7, <1>10, <2>2, StorageBegins
    <2> HIDE DEF t
    <2>4. Tainted(t, b) = Tainted(r, q)
      BY <2>1, <2>3 DEF Tainted
    <2>5. Remembered(t, carried)
      <3> SUFFICES ASSUME NEW y \in loose, y[1] = q
                   PROVE  /\ b \in DOMAIN t.creators \cup DOMAIN t.pending
                          /\ y[2] \in Tainted(t, b)
                          /\ ~ TracksPopulation(t, b, y[2])
        BY DEF Remembered
      <3>1. y[2] \in Tainted(r, q)
        BY <1>1 DEF Remembered
      <3> QED
        BY <2>3, <2>4, <3>1
    <2>6. Remembered(t, rest \cup carried)
      BY <2>3, <2>5 DEF RootOk, Remembered
    <2>7. RootOk(t, rest \cup carried, n + 1)
      BY <2>3, <2>6 DEF RootOk
    <2> QED
      BY <1>3, <1>4, <1>10, <2>3, <2>7 DEF t, Carried
  <1> QED
    BY <1>8, <1>9, <1>10

\* Members come and go beside the authorities.
LEMMA TaintHandsOn ==
    ASSUME NEW r, RootShape(r), NEW b, NEW f
    PROVE  /\ HandedOn(r, WithTaint(r, b, f))
           /\ f \in Tainted(WithTaint(r, b, f), b)
           /\ WithTaint(r, b, f).authority = r.authority
           /\ WithTaint(r, b, f).invocation = r.invocation
PROOF
  <1> DEFINE t == WithTaint(r, b, f)
  <1>1. /\ RootShape(t)
        /\ t.invocation = r.invocation
        /\ t.pending = r.pending
        /\ t.creators = r.creators
        /\ t.anchors = r.anchors
        /\ t.authority = r.authority
        /\ t.empty = r.empty
        /\ t.tainted = Put(r.tainted, b, Tainted(r, b) \cup {f})
    BY DEF WithTaint, RootShape
  <1> HIDE DEF t
  <1>2. /\ \A c : Tainted(r, c) \subseteq Tainted(t, c)
        /\ f \in Tainted(t, b)
    BY <1>1 DEF Tainted, Put
  <1> QED
    BY <1>1, <1>2 DEF HandedOn, TracksAlike, t

\* A member made outside an authority is remembered as taint.
LEMMA MemberAppears ==
    ASSUME NEW r, NEW loose, NEW n \in Nat, RootOk(r, loose, n), NEW b, NEW f,
           b \in DOMAIN r.creators \cup DOMAIN r.pending, ~ TracksPopulation(r, b, f)
    PROVE  RootOk(WithTaint(r, b, f), loose \cup {<<b, f>>}, n)
PROOF
  <1> DEFINE t == WithTaint(r, b, f)
  <1>1. RootShape(r) /\ AuthInv(r.authority, n)
    BY DEF RootOk
  <1>2. /\ HandedOn(r, t) /\ f \in Tainted(t, b) /\ t.authority = r.authority
    BY <1>1, TaintHandsOn
  <1> HIDE DEF t
  <1>3. RootOk(t, loose, n)
    BY <1>1, <1>2, HandedOnKeeps
  <1>4. Remembered(t, {<<b, f>>})
    BY <1>2 DEF Remembered, HandedOn, TracksPopulation
  <1> QED
    BY <1>3, <1>4 DEF RootOk, Remembered, t

\* Members outside an authority may be consumed.
LEMMA MembersDisappear ==
    ASSUME NEW r, NEW loose, NEW n \in Nat, RootOk(r, loose, n), NEW l \in SUBSET loose
    PROVE  RootOk(r, l, n)
BY DEF RootOk, Remembered

\* An authority is established where nothing is remembered.
LEMMA AuthorityBegins ==
    ASSUME NEW r, NEW loose, NEW n \in Nat, RootOk(r, loose, n), r.invocation \in Nat,
           NEW b \in DOMAIN r.creators, NEW f \in Family, f \notin Tainted(r, b),
           MayEstablish(r.authority, r.invocation, r.anchors[b], f)
    PROVE  RootOk([r EXCEPT !.authority = Established(@, r.invocation, r.anchors[b], f, n)],
                  loose, n + 1)
PROOF
  <1> DEFINE S == r.authority
             T == Established(S, r.invocation, r.anchors[b], f, n)
             t == [r EXCEPT !.authority = T]
             a == r.anchors[b]
  <1>1. /\ RootShape(r) /\ AuthInv(S, n) /\ AuthTypes(S, n) /\ Storage(r)
        /\ Remembered(r, loose) /\ ZerosRetired(r)
    BY DEF RootOk, AuthInv
  <1>2. /\ RootShape(t)
        /\ t.pending = r.pending
        /\ t.creators = r.creators
        /\ t.anchors = r.anchors
        /\ t.authority = T
        /\ t.tainted = r.tainted
        /\ t.empty = r.empty
    BY <1>1 DEF RootShape
  <1>3. AuthInv(T, n + 1)
    BY <1>1, EstablishKeeps
  <1>4. /\ DOMAIN T.anchors = DOMAIN S.anchors
        /\ \A x \in DOMAIN S.anchors : x # a => T.anchors[x] = S.anchors[x]
        /\ T.anchors[a].established = S.anchors[a].established \cup {f}
        /\ T.registrations = Put(S.registrations, <<a, f>>, n)
    <2>1. /\ T.anchors \in [DOMAIN S.anchors -> Anchor]
          /\ \A x \in DOMAIN S.anchors :
                /\ x # a => T.anchors[x] = S.anchors[x]
                /\ T.anchors[x].owner = S.anchors[x].owner
          /\ T.anchors[a].established = S.anchors[a].established \cup {f}
          /\ T.registrations = Put(S.registrations, <<a, f>>, n)
      BY <1>1, EstablishFields
    <2> HIDE DEF T
    <2> QED
      BY <2>1
  <1>5. f \notin S.anchors[a].established
    BY DEF MayEstablish
  <1> HIDE DEF t, T
  <1>6. Storage(t)
    BY <1>1, <1>2, <1>4 DEF Storage
  <1>7. b \in DOMAIN r.anchors
    BY <1>1 DEF Storage
  <1>8. \A c, g : TracksPopulation(t, c, g) => TracksPopulation(r, c, g) \/ (c = b /\ g = f)
    BY <1>1, <1>2, <1>4, <1>7 DEF TracksPopulation, Put, Storage
  <1>9. Remembered(t, loose)
    <2> SUFFICES ASSUME NEW x \in loose
                 PROVE  /\ x = <<x[1], x[2]>>
                        /\ x[1] \in DOMAIN t.creators \cup DOMAIN t.pending
                        /\ x[2] \in Tainted(t, x[1])
                        /\ ~ TracksPopulation(t, x[1], x[2])
      BY DEF Remembered
    <2>1. /\ x = <<x[1], x[2]>>
          /\ x[1] \in DOMAIN r.creators \cup DOMAIN r.pending
          /\ x[2] \in Tainted(r, x[1])
          /\ ~ TracksPopulation(r, x[1], x[2])
      BY <1>1 DEF Remembered
    <2>2. ~ TracksPopulation(t, x[1], x[2])
      BY <1>8, <2>1
    <2> QED
      BY <1>2, <2>1, <2>2 DEF Tainted
  <1>10. ZerosRetired(t)
    <2> SUFFICES ASSUME NEW c \in DOMAIN r.anchors, NEW g \in Family, CheckedEmpty(r, c, g)
                 PROVE  /\ g \in T.anchors[r.anchors[c]].established
                        /\ ~ TracksPopulation(t, c, g)
      BY <1>2 DEF ZerosRetired, CheckedEmpty
    <2>1. g \in S.anchors[r.anchors[c]].established /\ ~ TracksPopulation(r, c, g)
      BY <1>1 DEF ZerosRetired
    <2>2. r.anchors[c] \in DOMAIN S.anchors
      BY <1>1 DEF Storage
    <2>3. S.anchors[r.anchors[c]].established \subseteq T.anchors[r.anchors[c]].established
      BY <1>4, <2>2
    <2>4. ~ (c = b /\ g = f)
      BY <1>5, <2>1
    <2> QED
      BY <1>8, <2>1, <2>3, <2>4
  <1> QED
    BY <1>2, <1>3, <1>6, <1>9, <1>10 DEF RootOk, t, T

\* An authority is retired, and its zero is kept.
WithRetired(r, b, f) ==
    [r EXCEPT !.authority = Retired(@, r.invocation, PopulationOf(r, b, f)),
              !.empty = Put(@, b, (IF b \in DOMAIN r.empty THEN r.empty[b] ELSE {}) \cup {f})]

\* A retired authority leaves the evidence that the family is empty.
LEMMA AuthorityEnds ==
    ASSUME NEW r, NEW loose, NEW n \in Nat, RootOk(r, loose, n), r.invocation \in Nat,
           NEW b, NEW f \in Family, TracksPopulation(r, b, f),
           MayRetire(r.authority, r.invocation, PopulationOf(r, b, f))
    PROVE  RootOk(WithRetired(r, b, f), loose, n)
PROOF
  <1> DEFINE S == r.authority
             p == PopulationOf(r, b, f)
             T == Retired(S, r.invocation, p)
             zero == IF b \in DOMAIN r.empty THEN r.empty[b] ELSE {}
             t == WithRetired(r, b, f)
             a == r.anchors[b]
  <1>1. /\ RootShape(r) /\ AuthInv(S, n) /\ AuthTypes(S, n) /\ Storage(r)
        /\ Remembered(r, loose) /\ ZerosRetired(r)
    BY DEF RootOk, AuthInv
  <1>2. /\ RootShape(t)
        /\ t.pending = r.pending
        /\ t.creators = r.creators
        /\ t.anchors = r.anchors
        /\ t.authority = T
        /\ t.tainted = r.tainted
        /\ t.empty = Put(r.empty, b, zero \cup {f})
    BY <1>1 DEF RootShape, WithRetired
  <1>3. AuthInv(T, n)
    BY <1>1, RetireKeeps
  <1>4. /\ b \in DOMAIN r.anchors /\ <<a, f>> \in DOMAIN S.registrations
        /\ p \in DOMAIN S.populations /\ KeyOf(S, p) = <<a, f>>
        /\ S.populations[p].anchor = a /\ a \in DOMAIN S.anchors
        /\ f \in S.anchors[a].established
    BY <1>1 DEF TracksPopulation, PopulationOf, AuthInv, AuthTypes, Registered, KeyOf
  <1>5. S.anchors[a].registrations \in Nat \ {0}
    <2>1. PopulationsAt(S, a) \subseteq DOMAIN S.populations /\ p \in PopulationsAt(S, a)
      BY <1>4 DEF PopulationsAt
    <2>2. IsFiniteSet(PopulationsAt(S, a))
      BY <1>1, <2>1, AuthFacts, FS_Subset
    <2>3. Cardinality(PopulationsAt(S, a)) \in Nat \ {0}
      BY <2>1, <2>2, FS_CardinalityType, FS_EmptySet
    <2> QED
      BY <1>1, <1>4, <2>3 DEF AuthInv, RegistrationsCounted
  <1>6. RetiredTo(S, T, r.invocation, p)
    BY <1>1, <1>4, <1>5, RetireFields
  <1> HIDE DEF t, T, p
  <1>7. /\ DOMAIN T.anchors = DOMAIN S.anchors
        /\ \A x \in DOMAIN S.anchors : T.anchors[x].established = S.anchors[x].established
        /\ DOMAIN T.registrations = DOMAIN S.registrations \ {<<a, f>>}
    BY <1>4, <1>6 DEF RetiredTo, WithoutKeys
  <1>8. Storage(t)
    BY <1>1, <1>2, <1>7 DEF Storage
  <1>9. \A c, g : TracksPopulation(t, c, g) => TracksPopulation(r, c, g) /\ ~ (c = b /\ g = f)
    BY <1>2, <1>7 DEF TracksPopulation
  <1>10. Remembered(t, loose)
    BY <1>1, <1>2, <1>9 DEF Remembered, Tainted
  <1>11. ZerosRetired(t)
    <2> SUFFICES ASSUME NEW c \in DOMAIN r.anchors, NEW g \in Family, CheckedEmpty(t, c, g)
                 PROVE  /\ g \in S.anchors[r.anchors[c]].established
                        /\ ~ TracksPopulation(t, c, g)
      BY <1>1, <1>2, <1>7 DEF ZerosRetired, Storage
    <2>1. CheckedEmpty(r, c, g) \/ (c = b /\ g = f)
      BY <1>2 DEF CheckedEmpty, Put
    <2>2. CASE CheckedEmpty(r, c, g)
      BY <1>1, <1>9, <2>2 DEF ZerosRetired
    <2>3. CASE c = b /\ g = f
      BY <1>4, <1>9, <2>3
    <2> QED
      BY <2>1, <2>2, <2>3
  <1> QED
    BY <1>2, <1>3, <1>8, <1>10, <1>11 DEF RootOk, t, T, p

\* Lifetimes end, with the members made at them.
Besides(loose, gone) == {x \in loose : x[1] \notin gone}

\* Storage ends with its anchor and everything remembered of it.
LEMMA StorageEnding ==
    ASSUME NEW r, NEW loose, NEW n \in Nat, RootOk(r, loose, n), r.invocation \in Nat,
           NEW gone \in SUBSET DOMAIN r.creators,
           \A b \in gone : MayEndStorage(r, b)
    PROVE  /\ RootOk(WithoutStorage(r, gone), Besides(loose, gone), n)
           /\ WithoutStorage(r, gone).invocation = r.invocation
PROOF
  <1> DEFINE S == r.authority
             ended == {r.anchors[b] : b \in gone}
             T == Freed(S, r.invocation, ended)
             t == WithoutStorage(r, gone)
             rest == Besides(loose, gone)
  <1>1. /\ RootShape(r) /\ AuthInv(S, n) /\ AuthTypes(S, n) /\ Storage(r)
        /\ Remembered(r, loose) /\ ZerosRetired(r)
    BY DEF RootOk, AuthInv
  <1>2. /\ RootShape(t)
        /\ t.invocation = r.invocation
        /\ t.pending = r.pending
        /\ t.creators = WithoutKeys(r.creators, gone)
        /\ t.anchors = WithoutKeys(r.anchors, gone)
        /\ t.authority = T
        /\ t.tainted = WithoutKeys(r.tainted, gone)
        /\ t.empty = r.empty
    BY <1>1 DEF RootShape, WithoutStorage
  <1>3. \A a \in ended : MayFreeAnchor(S, r.invocation, a)
    BY DEF MayEndStorage
  <1>4. AuthInv(T, n)
    BY <1>1, <1>3, FreeKeeps
  <1>5. T.anchors = WithoutKeys(S.anchors, ended) /\ T.registrations = S.registrations
    BY <1>1, FreeFields
  <1> HIDE DEF t, T
  <1>6. /\ DOMAIN t.anchors = DOMAIN r.anchors \ gone
        /\ DOMAIN t.creators = DOMAIN r.creators \ gone
        /\ t.anchors = [b \in DOMAIN r.anchors \ gone |-> r.anchors[b]]
        /\ DOMAIN T.anchors = DOMAIN S.anchors \ ended
        /\ \A x \in DOMAIN S.anchors \ ended : T.anchors[x] = S.anchors[x]
    BY <1>2, <1>5 DEF WithoutKeys
  <1>7. \A b \in DOMAIN r.anchors \ gone : r.anchors[b] \in DOMAIN S.anchors \ ended
    BY <1>1 DEF Storage
  <1>8. Storage(t)
    <2>1. t.anchors \in [DOMAIN t.anchors -> DOMAIN t.authority.anchors]
      BY <1>2, <1>6, <1>7
    <2>2. \A c, d \in DOMAIN t.anchors : t.anchors[c] = t.anchors[d] => c = d
      BY <1>1, <1>6 DEF Storage
    <2> QED
      BY <1>1, <1>2, <1>6, <2>1, <2>2 DEF Storage
  <1>9. \A c, g : TracksPopulation(t, c, g) => TracksPopulation(r, c, g)
    BY <1>2, <1>5, <1>6 DEF TracksPopulation
  <1>10. Remembered(t, rest)
    <2> SUFFICES ASSUME NEW x \in loose, x[1] \notin gone
                 PROVE  /\ x = <<x[1], x[2]>>
                        /\ x[1] \in DOMAIN t.creators \cup DOMAIN t.pending
                        /\ x[2] \in Tainted(t, x[1])
                        /\ ~ TracksPopulation(t, x[1], x[2])
      BY DEF Remembered, Besides
    <2>1. /\ x = <<x[1], x[2]>>
          /\ x[1] \in DOMAIN r.creators \cup DOMAIN r.pending
          /\ x[2] \in Tainted(r, x[1])
          /\ ~ TracksPopulation(r, x[1], x[2])
      BY <1>1 DEF Remembered
    <2>2. Tainted(t, x[1]) = Tainted(r, x[1])
      BY <1>2 DEF Tainted, WithoutKeys
    <2> QED
      BY <1>2, <1>6, <1>9, <2>1, <2>2
  <1>11. ZerosRetired(t)
    <2> SUFFICES ASSUME NEW c \in DOMAIN r.anchors \ gone, NEW g \in Family, CheckedEmpty(r, c, g)
                 PROVE  /\ g \in T.anchors[r.anchors[c]].established
                        /\ ~ TracksPopulation(t, c, g)
      BY <1>2, <1>6 DEF ZerosRetired, CheckedEmpty
    <2>1. g \in S.anchors[r.anchors[c]].established /\ ~ TracksPopulation(r, c, g)
      BY <1>1 DEF ZerosRetired
    <2> QED
      BY <1>6, <1>7, <1>9, <2>1
  <1> QED
    BY <1>2, <1>4, <1>8, <1>10, <1>11 DEF RootOk, t

----------------------------------------------------------------------------
(* Steps of one arm                                                        *)

ArmIs(x, root, frames, workers, loose) ==
    /\ PathShape(x)
    /\ x.root = root
    /\ x.frames = frames
    /\ x.workers = workers
    /\ x.loose = loose

\* The updates of an arm's record that actions make.
LEMMA ArmUpdates ==
    ASSUME NEW x, PathShape(x), NEW t, NEW l, NEW f, NEW w
    PROVE  /\ ArmIs([x EXCEPT !.root = t], t, x.frames, x.workers, x.loose)
           /\ ArmIs([x EXCEPT !.root = t, !.loose = l], t, x.frames, x.workers, l)
           /\ ArmIs([x EXCEPT !.loose = l], x.root, x.frames, x.workers, l)
           /\ ArmIs([x EXCEPT !.root = t, !.frames = f], t, f, x.workers, x.loose)
           /\ ArmIs([x EXCEPT !.root = t, !.workers = w], t, x.frames, w, x.loose)
           /\ ArmIs([x EXCEPT !.root = t, !.frames = f, !.loose = l], t, f, x.workers, l)
BY DEF ArmIs, PathShape

\* The other arms do not depend on what one arm does.
LEMMA OneArmSteps ==
    ASSUME PopulationInv, NEW a \in Arm, NEW t, NEW f, NEW w, NEW l, NEW x,
           path' = [path EXCEPT ![a] = x], ArmIs(x, t, f, w, l),
           nextId' \in Nat, nextId <= nextId',
           RootOk(t, l, nextId'), Holders(t.invocation, f, w, nextId')
    PROVE  PopulationInv'
PROOF
  <1>1. /\ nextId \in Nat /\ nextId' \in Nat \ {0} /\ Id(nextId) \subseteq Id(nextId')
        /\ path = [b \in Arm |-> path[b]]
        /\ \A b \in Arm : PathOk(path[b], nextId)
    BY DEF PopulationInv, Id
  <1>2. /\ path' = [b \in Arm |-> path'[b]]
        /\ path'[a] = x
        /\ \A b \in Arm : b # a => path'[b] = path[b]
    BY <1>1
  <1>3. PathOk(path'[a], nextId')
    BY <1>2 DEF ArmIs, PathOk
  <1>4. ASSUME NEW b \in Arm, b # a PROVE PathOk(path'[b], nextId')
    <2>1. PathOk(path[b], nextId)
      BY <1>1
    <2>2. AuthInv(path[b].root.authority, nextId')
      BY <1>1, <2>1, AuthLater DEF PathOk, RootOk
    <2>3. RootOk(path[b].root, path[b].loose, nextId')
      BY <2>1, <2>2 DEF PathOk, RootOk
    <2>4. Holders(path[b].root.invocation, path[b].frames, path[b].workers, nextId')
      BY <1>1, <2>1 DEF PathOk, Holders
    <2> QED
      BY <1>2, <1>4, <2>1, <2>3, <2>4 DEF PathOk
  <1> QED
    BY <1>1, <1>2, <1>3, <1>4 DEF PopulationInv

\* What the invariant says of the arm that steps.
LEMMA ArmFacts ==
    ASSUME PopulationInv, NEW a \in Arm
    PROVE  /\ nextId \in Nat
           /\ RootShape(path[a].root)
           /\ RootOk(path[a].root, path[a].loose, nextId)
           /\ AuthInv(path[a].root.authority, nextId)
           /\ Holders(path[a].root.invocation, path[a].frames, path[a].workers, nextId)
           /\ path[a].root.invocation \in Nat /\ path[a].root.invocation \in Id(nextId)
           /\ PathShape(path[a])
           /\ path = [b \in Arm |-> path[b]]
BY DEF PopulationInv, PathOk, RootOk, Holders, Id

\* Issued identities are distinct from later ones.
LEMMA LaterHolders ==
    ASSUME NEW i, NEW f, NEW w, NEW n \in Nat, Holders(i, f, w, n)
    PROVE  Holders(i, f, w, n + 1) /\ i \in Id(n + 1) /\ n \in Id(n + 1) /\ i # n
BY DEF Holders, Id

\* A step that changes the root and the members of one arm.
LEMMA RootSteps ==
    ASSUME PopulationInv, NEW a \in Arm, NEW t, NEW l, NEW k \in {0, 1},
           \/ path' = [path EXCEPT ![a].root = t] /\ l = path[a].loose
           \/ path' = [path EXCEPT ![a].loose = l] /\ t = path[a].root
           \/ path' = [path EXCEPT ![a].root = t, ![a].loose = l],
           nextId' = nextId + k, RootOk(t, l, nextId + k), t.invocation = path[a].root.invocation
    PROVE  PopulationInv'
PROOF
  <1> DEFINE r == path[a].root
             f == path[a].frames
             w == path[a].workers
  <1>1. /\ nextId \in Nat
        /\ Holders(r.invocation, f, w, nextId)
        /\ PathShape(path[a])
        /\ path = [c \in Arm |-> path[c]]
    BY ArmFacts
  <1>2. /\ nextId' \in Nat /\ nextId <= nextId'
        /\ Holders(t.invocation, f, w, nextId')
    BY <1>1, LaterHolders
  <1>3. CASE path' = [path EXCEPT ![a].root = t] /\ l = path[a].loose
    <2> DEFINE x == [path[a] EXCEPT !.root = t]
    <2>1. ArmIs(x, t, f, w, l)
      BY <1>1, <1>3, ArmUpdates
    <2>2. path' = [path EXCEPT ![a] = x]
      BY <1>1, <1>3
    <2> HIDE DEF x
    <2> QED
      BY <1>2, <2>1, <2>2, OneArmSteps
  <1>4. CASE path' = [path EXCEPT ![a].loose = l] /\ t = path[a].root
    <2> DEFINE x == [path[a] EXCEPT !.loose = l]
    <2>1. ArmIs(x, t, f, w, l)
      BY <1>1, <1>4, ArmUpdates
    <2>2. path' = [path EXCEPT ![a] = x]
      BY <1>1, <1>4
    <2> HIDE DEF x
    <2> QED
      BY <1>2, <2>1, <2>2, OneArmSteps
  <1>5. CASE path' = [path EXCEPT ![a].root = t, ![a].loose = l]
    <2> DEFINE x == [path[a] EXCEPT !.root = t, !.loose = l]
    <2>1. ArmIs(x, t, f, w, l)
      BY <1>1, ArmUpdates
    <2>2. path' = [path EXCEPT ![a] = x]
      BY <1>1, <1>5
    <2> HIDE DEF x
    <2> QED
      BY <1>2, <2>1, <2>2, OneArmSteps
  <1> QED
    BY <1>3, <1>4, <1>5

\* The steps that keep the holders: storage, requests, members, authorities.
LEMMA CreatedStep ==
    ASSUME PopulationInv, NEW a \in Arm, NEW b \in Block, Created(a, b)
    PROVE  PopulationInv'
PROOF
  <1> DEFINE r == path[a].root
             t == WithStorage(r, b, r.invocation, nextId)
  <1>1. nextId \in Nat /\ r.invocation \in Nat /\ RootOk(r, path[a].loose, nextId)
    BY ArmFacts
  <1>2. nextId' = nextId + 1 /\ b \notin DOMAIN r.creators /\ path' = [path EXCEPT ![a].root = t]
    BY DEF Created, Fresh
  <1>3. RootOk(t, path[a].loose, nextId + 1) /\ t.invocation = r.invocation
    BY <1>1, <1>2, StorageBegins
  <1> HIDE DEF t
  <1> QED
    BY <1>2, <1>3, RootSteps

\* An allocation whose outcome is not known yet.
LEMMA PendingStep ==
    ASSUME PopulationInv, NEW a \in Arm, NEW q \in Request, PendingCreation(a, q)
    PROVE  PopulationInv'
PROOF
  <1> DEFINE r == path[a].root
             t == [r EXCEPT !.pending = Put(@, q, r.invocation)]
  <1>1. /\ nextId \in Nat /\ r.invocation \in Nat /\ RootShape(r)
        /\ RootOk(r, path[a].loose, nextId)
    BY ArmFacts
  <1>2. nextId' = nextId + 0 /\ q \notin DOMAIN r.pending /\ path' = [path EXCEPT ![a].root = t]
    BY <1>1 DEF PendingCreation
  <1>3. RootOk(t, path[a].loose, nextId + 0)
    BY <1>1, <1>2, RequestBegins
  <1>4. t.invocation = r.invocation
    BY <1>1 DEF RootShape
  <1> HIDE DEF t
  <1> QED
    BY <1>2, <1>3, <1>4, RootSteps

\* The outcome of an allocation is learnt.
LEMMA ResolvedStep ==
    ASSUME PopulationInv, NEW a \in Arm, NEW q \in Request, NEW b \in Block \cup {None},
           ResolvePending(a, q, b)
    PROVE  PopulationInv'
PROOF
  <1> DEFINE r == path[a].root
             loose == path[a].loose
             t == Resolved(r, q, b, nextId)
             l == Carried(loose, q, b)
             k == IF b = None THEN 0 ELSE 1
  <1>1. nextId \in Nat /\ RootOk(r, loose, nextId)
    BY ArmFacts
  <1>2. /\ nextId' = nextId + k /\ k \in {0, 1}
        /\ q \in DOMAIN r.pending /\ b \notin DOMAIN r.creators
    BY <1>1 DEF ResolvePending, Fresh
  <1>3. path' = [path EXCEPT ![a].root = t, ![a].loose = l]
    BY DEF ResolvePending, Elsewhere, Carried
  <1>4. RootOk(t, l, nextId + k) /\ t.invocation = r.invocation
    <2>1. nextId + k \in Nat /\ nextId + k = IF b = None THEN nextId ELSE nextId + 1
      BY <1>1
    <2> HIDE DEF k
    <2> QED
      BY <1>1, <1>2, <2>1, RequestEnds
  <1> HIDE DEF t, l, k
  <1> QED
    BY <1>2, <1>3, <1>4, RootSteps

\* A member is created where no authority counts it.
LEMMA MemberCreatedStep ==
    ASSUME PopulationInv, NEW a \in Arm, NEW b, NEW f, MemberCreated(a, b, f)
    PROVE  PopulationInv'
PROOF
  <1> DEFINE r == path[a].root
             t == WithTaint(r, b, f)
             l == path[a].loose \cup {<<b, f>>}
  <1>1. nextId \in Nat /\ RootOk(r, path[a].loose, nextId) /\ RootShape(r)
    BY ArmFacts
  <1>2. /\ nextId' = nextId + 0 /\ path' = [path EXCEPT ![a].root = t, ![a].loose = l]
        /\ b \in DOMAIN r.creators \cup DOMAIN r.pending /\ ~ TracksPopulation(r, b, f)
    BY <1>1 DEF MemberCreated
  <1>3. RootOk(t, l, nextId + 0)
    BY <1>1, <1>2, MemberAppears
  <1>4. t.invocation = r.invocation
    BY <1>1, TaintHandsOn
  <1> HIDE DEF t, l
  <1> QED
    BY <1>2, <1>3, <1>4, RootSteps

\* A member is consumed where no authority counts it.
LEMMA MemberUnfoldedStep ==
    ASSUME PopulationInv, NEW a \in Arm, NEW b, NEW f, MemberUnfolded(a, b, f)
    PROVE  PopulationInv'
PROOF
  <1> DEFINE l == path[a].loose \ {<<b, f>>}
             t == path[a].root
  <1>1. nextId \in Nat /\ RootOk(t, path[a].loose, nextId)
    BY ArmFacts
  <1>2. nextId' = nextId + 0 /\ path' = [path EXCEPT ![a].loose = l]
    BY <1>1 DEF MemberUnfolded
  <1>3. l \in SUBSET path[a].loose
    OBVIOUS
  <1> HIDE DEF l
  <1>4. RootOk(t, l, nextId + 0)
    BY <1>1, <1>3, MembersDisappear
  <1> QED
    BY <1>2, <1>4, RootSteps

\* counted_exact begins.
LEMMA EstablishStep ==
    ASSUME PopulationInv, NEW a \in Arm, NEW b \in Block, NEW f \in Family, Establish(a, b, f)
    PROVE  PopulationInv'
PROOF
  <1> DEFINE r == path[a].root
             t == [r EXCEPT !.authority =
                      Established(@, r.invocation, r.anchors[b], f, nextId)]
  <1>1. /\ nextId \in Nat /\ r.invocation \in Nat /\ RootShape(r)
        /\ RootOk(r, path[a].loose, nextId)
    BY ArmFacts
  <1>2. /\ nextId' = nextId + 1 /\ path' = [path EXCEPT ![a].root = t]
        /\ b \in DOMAIN r.creators /\ f \notin Tainted(r, b)
        /\ MayEstablish(r.authority, r.invocation, r.anchors[b], f)
    BY DEF Establish, Fresh
  <1>3. RootOk(t, path[a].loose, nextId + 1)
    BY <1>1, <1>2, AuthorityBegins
  <1>4. t.invocation = r.invocation
    BY <1>1 DEF RootShape
  <1> HIDE DEF t
  <1> QED
    BY <1>2, <1>3, <1>4, RootSteps

\* counted_exact ends.
LEMMA RetireStep ==
    ASSUME PopulationInv, NEW a \in Arm, NEW b \in Block, NEW f \in Family,
           RetireAuthority(a, b, f)
    PROVE  PopulationInv'
PROOF
  <1> DEFINE r == path[a].root
             p == PopulationOf(r, b, f)
             zero == IF b \in DOMAIN r.empty THEN r.empty[b] ELSE {}
             t == WithRetired(r, b, f)
  <1>1. /\ nextId \in Nat /\ r.invocation \in Nat /\ RootShape(r)
        /\ RootOk(r, path[a].loose, nextId) /\ path = [c \in Arm |-> path[c]]
        /\ PathShape(path[a])
    BY ArmFacts
  <1>2. /\ nextId' = nextId + 0
        /\ TracksPopulation(r, b, f) /\ MayRetire(r.authority, r.invocation, p)
    BY <1>1 DEF RetireAuthority
  <1>3. path' = [path EXCEPT ![a].root = t]
    <2> DEFINE S == Retired(r.authority, r.invocation, p)
               e == Put(r.empty, b, zero \cup {f})
    <2>1. path' = [path EXCEPT ![a].root.authority = S, ![a].root.empty = e]
      BY DEF RetireAuthority
    <2>2. t = [r EXCEPT !.authority = S, !.empty = e]
      BY DEF WithRetired
    <2> HIDE DEF S, e, t, p, zero
    <2> QED
      BY <1>1, <2>1, <2>2 DEF PathShape
  <1>4. RootOk(t, path[a].loose, nextId + 0)
    BY <1>1, <1>2, AuthorityEnds
  <1>5. t.invocation = r.invocation
    BY <1>1 DEF RootShape, WithRetired
  <1> HIDE DEF t
  <1> QED
    BY <1>2, <1>3, <1>4, <1>5, RootSteps

\* The storage of a block ends.
LEMMA StorageEndsStep ==
    ASSUME PopulationInv, NEW a \in Arm, NEW b \in Block, StorageEnds(a, b)
    PROVE  PopulationInv'
PROOF
  <1> DEFINE r == path[a].root
             gone == {b}
             t == WithoutStorage(r, gone)
             l == Besides(path[a].loose, gone)
  <1>1. nextId \in Nat /\ r.invocation \in Nat /\ RootOk(r, path[a].loose, nextId)
    BY ArmFacts
  <1>2. nextId' = nextId + 0 /\ path' = [path EXCEPT ![a].root = t, ![a].loose = l]
    BY <1>1 DEF StorageEnds, Besides
  <1>3. gone \in SUBSET DOMAIN r.creators /\ \A c \in gone : MayEndStorage(r, c)
    BY DEF StorageEnds
  <1> HIDE DEF gone
  <1>4. RootOk(t, l, nextId) /\ t.invocation = r.invocation
    BY <1>1, <1>3, StorageEnding
  <1> HIDE DEF t, l
  <1>5. RootOk(t, l, nextId + 0)
    BY <1>1, <1>4
  <1> QED
    BY <1>2, <1>4, <1>5, RootSteps

----------------------------------------------------------------------------
(* Exchanges, calls and workers                                            *)

WithAuthority(r, T) == [r EXCEPT !.authority = T]

\* Only the ledger is replaced, by one that tracks the same populations.
LEMMA ReplacedAuthority ==
    ASSUME NEW r, RootShape(r), NEW T, TracksAlike(r.authority, T)
    PROVE  /\ HandedOn(r, WithAuthority(r, T))
           /\ WithAuthority(r, T).authority = T
           /\ WithAuthority(r, T).invocation = r.invocation
BY DEF WithAuthority, RootShape, HandedOn, Tainted

\* Handing on twice is handing on.
LEMMA HandedOnTwice ==
    ASSUME NEW r, NEW t, NEW u, HandedOn(r, t), HandedOn(t, u)
    PROVE  HandedOn(r, u)
PROOF
  <1>1. TracksAlike(r.authority, u.authority)
    BY DEF HandedOn, TracksAlike
  <1>2. \A b : Tainted(r, b) \subseteq Tainted(u, b)
    BY DEF HandedOn
  <1> QED
    BY <1>1, <1>2 DEF HandedOn

\* An exchange and a move track the same populations as before.
LEMMA OperationsTrackAlike ==
    ASSUME NEW S, NEW T
    PROVE  /\ \A h, p, d : Exchanged(S, T, h, p, d) => TracksAlike(S, T)
           /\ \A from, to, given : MovedTo(S, T, from, to, given) => TracksAlike(S, T)
BY DEF Exchanged, MovedTo, TracksAlike

\* A move between two holders hands the ledger on.
LEMMA MovedHandsOn ==
    ASSUME NEW r, RootShape(r), NEW n \in Nat, AuthInv(r.authority, n),
           NEW from \in Id(n), NEW to \in Id(n), from # to, NEW given, Counted(given),
           MayMove(r.authority, from, to, given)
    PROVE  /\ HandedOn(r, WithAuthority(r, Moved(r.authority, from, to, given)))
           /\ AuthInv(Moved(r.authority, from, to, given), n)
           /\ TracksAlike(r.authority, Moved(r.authority, from, to, given))
PROOF
  <1> DEFINE T == Moved(r.authority, from, to, given)
  <1>1. AuthTypes(r.authority, n) /\ to \in Nat
    BY DEF AuthInv, Id
  <1>2. AuthInv(T, n)
    BY MoveKeeps
  <1>3. MovedTo(r.authority, T, from, to, given)
    BY <1>1, MovedFields
  <1> HIDE DEF T
  <1>4. TracksAlike(r.authority, T)
    BY <1>3, OperationsTrackAlike
  <1>5. HandedOn(r, WithAuthority(r, T))
    BY <1>4, ReplacedAuthority
  <1> QED
    BY <1>2, <1>4, <1>5 DEF T

\* What a contract names has only positive counts.
LEMMA GivingsCounted ==
    ASSUME NEW S, NEW given \in Givings(S)
    PROVE  Counted(given)
PROOF
  <1>1. given.members \in UNION {[D -> 1..CountLimit] : D \in SUBSET DOMAIN S.populations}
    BY DEF Givings
  <1>2. PICK D \in SUBSET DOMAIN S.populations : given.members \in [D -> 1..CountLimit]
    BY <1>1
  <1> QED
    BY <1>2, PopulationAssumption DEF Counted

\* Members of a counted population are produced.
LEMMA ProduceStep ==
    ASSUME PopulationInv, NEW a \in Arm, NEW b, NEW f, NEW k \in Nat,
           ProduceMembers(a, b, f, k)
    PROVE  PopulationInv'
PROOF
  <1> DEFINE r == path[a].root
             p == PopulationOf(r, b, f)
             T == Produced(r.authority, r.invocation, p, k)
             u == WithTaint(r, b, f)
             t == WithAuthority(u, T)
  <1>1. /\ nextId \in Nat /\ r.invocation \in Id(nextId) /\ RootShape(r)
        /\ RootOk(r, path[a].loose, nextId) /\ AuthInv(r.authority, nextId)
    BY ArmFacts
  <1>2. HandedOn(r, u) /\ u.authority = r.authority /\ u.invocation = r.invocation
    BY <1>1, TaintHandsOn
  <1>3. MayProduce(r.authority, r.invocation, p, k)
    BY DEF ProduceMembers
  <1>4. nextId' = nextId + 0 /\ path' = [path EXCEPT ![a].root = t]
    <2>1. path' = [path EXCEPT ![a].root =
                     [u EXCEPT !.authority = Produced(u.authority, r.invocation, p, k)]]
      BY DEF ProduceMembers
    <2>2. nextId' = nextId + 0
      BY <1>1 DEF ProduceMembers
    <2> HIDE DEF u, p
    <2> QED
      BY <1>2, <2>1, <2>2 DEF WithAuthority
  <1>5. AuthInv(T, nextId) /\ Exchanged(r.authority, T, r.invocation, p, k)
    BY <1>1, <1>3, ProduceKeeps
  <1> HIDE DEF T, u, p
  <1>6. TracksAlike(u.authority, T) /\ RootShape(u)
    BY <1>2, <1>5, OperationsTrackAlike DEF HandedOn
  <1>7. HandedOn(u, t) /\ t.authority = T /\ t.invocation = u.invocation
    BY <1>6, ReplacedAuthority
  <1> HIDE DEF t
  <1>8. RootOk(t, path[a].loose, nextId)
    BY <1>1, <1>2, <1>5, <1>7, HandedOnTwice, HandedOnKeeps
  <1>9. RootOk(t, path[a].loose, nextId + 0)
    BY <1>1, <1>8
  <1> QED
    BY <1>2, <1>4, <1>7, <1>9, RootSteps

\* Members of a counted population are consumed.
LEMMA ConsumeStep ==
    ASSUME PopulationInv, NEW a \in Arm, NEW b, NEW f, NEW k \in Nat,
           ConsumeMembers(a, b, f, k)
    PROVE  PopulationInv'
PROOF
  <1> DEFINE r == path[a].root
             p == PopulationOf(r, b, f)
             T == Consumed(r.authority, r.invocation, p, k)
             t == WithAuthority(r, T)
  <1>1. /\ nextId \in Nat /\ r.invocation \in Id(nextId) /\ RootShape(r)
        /\ RootOk(r, path[a].loose, nextId) /\ AuthInv(r.authority, nextId)
    BY ArmFacts
  <1>2. MayConsume(r.authority, r.invocation, p, k)
    BY DEF ConsumeMembers
  <1>3. nextId' = nextId + 0 /\ path' = [path EXCEPT ![a].root = t]
    BY <1>1 DEF ConsumeMembers, WithAuthority
  <1>4. AuthInv(T, nextId) /\ Exchanged(r.authority, T, r.invocation, p, 0 - k)
    BY <1>1, <1>2, ConsumeKeeps
  <1> HIDE DEF T, p
  <1>5. TracksAlike(r.authority, T)
    BY <1>4, OperationsTrackAlike
  <1>6. HandedOn(r, t) /\ t.authority = T /\ t.invocation = r.invocation
    BY <1>1, <1>5, ReplacedAuthority
  <1> HIDE DEF t
  <1>7. RootOk(t, path[a].loose, nextId)
    BY <1>1, <1>4, <1>6, HandedOnKeeps
  <1>8. RootOk(t, path[a].loose, nextId + 0)
    BY <1>1, <1>7
  <1> QED
    BY <1>3, <1>6, <1>8, RootSteps

\* Who calls, returns, is created and joined stays apart from the others.
LEMMA CallHolders ==
    ASSUME NEW i, NEW f, NEW w, NEW n \in Nat, Holders(i, f, w, n)
    PROVE  Holders(n, Append(f, i), w, n + 1)
PROOF
  <1> DEFINE g == Append(f, i)
  <1>1. i \in Nat /\ f \in Seq(Nat) /\ n \notin w /\ i < n /\ i \notin w
    BY DEF Holders, Id
  <1>2. /\ g \in Seq(Nat) /\ Len(g) = Len(f) + 1
        /\ \A j \in 1..Len(f) : g[j] = f[j]
        /\ g[Len(f) + 1] = i
    BY <1>1
  <1> HIDE DEF g
  <1>3. Len(f) \in Nat
    BY <1>1
  <1>4. \A j \in 1..Len(f) : f[j] \in Nat /\ f[j] < i /\ f[j] \notin w
    BY <1>1 DEF Holders
  <1>5. ASSUME NEW j \in 1..Len(g) PROVE g[j] < n /\ g[j] \notin w
    <2>1. CASE j \in 1..Len(f)
      <3>1. f[j] \in Nat /\ f[j] < i /\ f[j] \notin w
        BY <1>4, <2>1
      <3>2. \A u, v, z \in Nat : u < v /\ v < z => u < z
        OBVIOUS
      <3>3. f[j] < n
        BY <1>1, <3>1, <3>2
      <3> QED
        BY <1>2, <2>1, <3>1, <3>3
    <2>2. CASE j = Len(f) + 1
      BY <1>1, <1>2, <2>2
    <2> QED
      BY <1>2, <1>3, <2>1, <2>2
  <1>6. ASSUME NEW j \in 1..Len(g), NEW k \in 1..Len(g), j < k PROVE g[j] < g[k]
    <2>1. j \in 1..Len(f)
      BY <1>2, <1>3, <1>6
    <2>2. CASE k \in 1..Len(f)
      BY <1>2, <1>6, <2>1, <2>2 DEF Holders
    <2>3. CASE k = Len(f) + 1
      BY <1>2, <1>4, <2>1, <2>3
    <2> QED
      BY <1>2, <1>3, <2>2, <2>3
  <1>7. n \in Id(n + 1) /\ w \subseteq Id(n + 1) \ {n}
    BY <1>1 DEF Holders, Id
  <1> QED
    BY <1>2, <1>5, <1>6, <1>7 DEF Holders, g

\* The caller that a return comes back to is another holder.
LEMMA ReturnHolders ==
    ASSUME NEW i, NEW f, NEW w, NEW n \in Nat, Holders(i, f, w, n), f # <<>>
    PROVE  Holders(Last(f), Front(f), w, n) /\ Last(f) \in Id(n) /\ Last(f) # i
PROOF
  <1> DEFINE g == Front(f)
  <1>1. f \in Seq(Nat) /\ Len(f) \in Nat /\ Len(f) > 0 /\ i \in Id(n) /\ i \in Nat /\ i < n
    BY DEF Holders, Id
  <1>2. Last(f) = f[Len(f)] /\ Last(f) \in Nat /\ Last(f) < i /\ Last(f) \notin w
    BY <1>1 DEF Last, Holders
  <1>3. /\ g \in Seq(Nat) /\ Len(g) = Len(f) - 1
        /\ \A j \in 1..Len(g) : g[j] = f[j]
    <2>1. g = SubSeq(f, 1, Len(f) - 1)
      BY DEF Front
    <2>2. /\ SubSeq(f, 1, Len(f) - 1) \in Seq(Nat)
          /\ Len(SubSeq(f, 1, Len(f) - 1)) = Len(f) - 1
          /\ \A j \in 1..(Len(f) - 1) : SubSeq(f, 1, Len(f) - 1)[j] = f[j]
      <3> DEFINE m == Len(f) - 1
                 s == SubSeq(f, 1, m)
      <3>1. m \in Int /\ \A j \in 1..m : f[j] \in Nat
        BY <1>1
      <3>2. /\ s \in Seq(Nat) /\ Len(s) = IF 1 <= m THEN m - 1 + 1 ELSE 0
            /\ \A j \in 1..(m - 1 + 1) : s[j] = f[1 + j - 1]
        <4> HIDE DEF m
        <4> QED
          BY <3>1, SubSeqProperties
      <3>3. m \in Nat
        BY <1>1
      <3> HIDE DEF s, m
      <3>4. \A j \in 1..m : 1 + j - 1 = j /\ j \in 1..(m - 1 + 1)
        BY <3>3
      <3>5. Len(s) = m /\ \A j \in 1..m : s[j] = f[j]
        BY <3>2, <3>3, <3>4
      <3> QED
        BY <3>2, <3>5 DEF s, m
    <2> QED
      BY <2>1, <2>2
  <1> HIDE DEF g
  <1>4. \A j \in 1..Len(g) : j \in 1..Len(f) /\ j < Len(f) /\ Len(f) \in 1..Len(f)
    BY <1>1, <1>3
  <1>5. \A j \in 1..Len(g) : g[j] < Last(f) /\ g[j] \notin w
    BY <1>2, <1>3, <1>4 DEF Holders
  <1>6. \A j, k \in 1..Len(g) : j < k => g[j] < g[k]
    BY <1>3, <1>4 DEF Holders
  <1>7. Last(f) \in Id(n)
    BY <1>1, <1>2 DEF Id
  <1>8. w \subseteq Id(n) \ {Last(f)}
    BY <1>2 DEF Holders
  <1> QED
    BY <1>1, <1>2, <1>3, <1>5, <1>6, <1>7, <1>8 DEF Holders, g

\* A worker is a new holder.
LEMMA WorkerHolders ==
    ASSUME NEW i, NEW f, NEW w, NEW n \in Nat, Holders(i, f, w, n)
    PROVE  Holders(i, f, w \cup {n}, n + 1)
BY DEF Holders, Id

\* A worker that is joined is no holder any more.
LEMMA JoinedHolders ==
    ASSUME NEW i, NEW f, NEW w, NEW n \in Nat, Holders(i, f, w, n), NEW k \in w
    PROVE  k \in Id(n) /\ k # i /\ Holders(i, f, w \ {k}, n)
BY DEF Holders, Id

\* What a call, a return or a worker's creation replaces in the records.
WithInvocation(r, i, T) == [r EXCEPT !.invocation = i, !.authority = T]

\* A call or a return replaces the invocation and the ledger.
LEMMA ReplacedInvocation ==
    ASSUME NEW r, RootShape(r), NEW i, NEW T, TracksAlike(r.authority, T)
    PROVE  /\ HandedOn(r, WithInvocation(r, i, T))
           /\ WithInvocation(r, i, T).authority = T
           /\ WithInvocation(r, i, T).invocation = i
BY DEF WithInvocation, RootShape, HandedOn, Tainted

\* A call gives members and obligations to the invocation it enters.
LEMMA EnterStep ==
    ASSUME PopulationInv, NEW a \in Arm, NEW given \in Givings(path[a].root.authority),
           EnterCall(a, given)
    PROVE  PopulationInv'
PROOF
  <1> DEFINE r == path[a].root
             n == nextId
             T == Moved(r.authority, r.invocation, n, given)
             t == WithInvocation(r, n, T)
             f == Append(path[a].frames, r.invocation)
             x == [path[a] EXCEPT !.root = t, !.frames = f]
  <1>1. /\ n \in Nat /\ RootShape(r) /\ RootOk(r, path[a].loose, n)
        /\ AuthInv(r.authority, n + 1)
        /\ Holders(r.invocation, path[a].frames, path[a].workers, n)
        /\ PathShape(path[a]) /\ path = [c \in Arm |-> path[c]]
    BY ArmFacts, AuthLater
  <1>2. /\ nextId' = n + 1 /\ MayMove(r.authority, r.invocation, n, given)
    BY DEF EnterCall, Fresh
  <1>3. path' = [path EXCEPT ![a] = x]
    <2>1. path' = [path EXCEPT ![a].root.invocation = n, ![a].root.authority = T,
                               ![a].frames = f]
      BY DEF EnterCall
    <2> HIDE DEF T, f
    <2> QED
      BY <1>1, <2>1 DEF WithInvocation, PathShape
  <1>4. ArmIs(x, t, f, path[a].workers, path[a].loose)
    BY <1>1, ArmUpdates
  <1>5. Counted(given)
    BY GivingsCounted
  <1>6. r.invocation \in Id(n + 1) /\ n \in Id(n + 1) /\ r.invocation # n
    BY <1>1, LaterHolders
  <1>7. AuthInv(T, n + 1) /\ TracksAlike(r.authority, T)
    BY <1>1, <1>2, <1>5, <1>6, MovedHandsOn
  <1>8. Holders(n, f, path[a].workers, n + 1)
    BY <1>1, CallHolders
  <1> HIDE DEF T, f, x
  <1>9. HandedOn(r, t) /\ t.authority = T /\ t.invocation = n
    BY <1>1, <1>7, ReplacedInvocation
  <1> HIDE DEF t
  <1>10. RootOk(t, path[a].loose, n + 1)
    BY <1>1, <1>7, <1>9, HandedOnKeeps
  <1>11. nextId' \in Nat /\ n <= nextId'
    BY <1>1, <1>2
  <1> QED
    BY <1>2, <1>3, <1>4, <1>8, <1>9, <1>10, <1>11, OneArmSteps

\* A return gives back what the invocation still has.
LEMMA FinishStep ==
    ASSUME PopulationInv, NEW a \in Arm, NEW given \in Givings(path[a].root.authority),
           FinishCall(a, given)
    PROVE  PopulationInv'
PROOF
  <1> DEFINE r == path[a].root
             caller == Last(path[a].frames)
             T == Moved(r.authority, r.invocation, caller, given)
             t == WithInvocation(r, caller, T)
             f == Front(path[a].frames)
             x == [path[a] EXCEPT !.root = t, !.frames = f]
  <1>1. /\ nextId \in Nat /\ RootShape(r) /\ RootOk(r, path[a].loose, nextId)
        /\ AuthInv(r.authority, nextId) /\ r.invocation \in Id(nextId)
        /\ Holders(r.invocation, path[a].frames, path[a].workers, nextId)
        /\ PathShape(path[a]) /\ path = [c \in Arm |-> path[c]]
    BY ArmFacts
  <1>2. /\ nextId' = nextId /\ MayMove(r.authority, r.invocation, caller, given)
        /\ path[a].frames # <<>>
    BY DEF FinishCall
  <1>3. path' = [path EXCEPT ![a] = x]
    <2>1. path' = [path EXCEPT ![a].root.authority = T, ![a].root.invocation = caller,
                               ![a].frames = f]
      BY DEF FinishCall
    <2>2. t = [r EXCEPT !.authority = T, !.invocation = caller]
      <3> HIDE DEF T, caller, r
      <3> QED
        BY <1>1 DEF WithInvocation, RootShape
    <2> HIDE DEF T, f, caller, t
    <2> QED
      BY <1>1, <2>1, <2>2 DEF PathShape
  <1>4. ArmIs(x, t, f, path[a].workers, path[a].loose)
    BY <1>1, ArmUpdates
  <1>5. Counted(given)
    BY GivingsCounted
  <1>6. /\ Holders(caller, f, path[a].workers, nextId)
        /\ caller \in Id(nextId) /\ caller # r.invocation
    BY <1>1, <1>2, ReturnHolders
  <1>7. AuthInv(T, nextId) /\ TracksAlike(r.authority, T)
    BY <1>1, <1>2, <1>5, <1>6, MovedHandsOn
  <1> HIDE DEF T, f, x
  <1>8. HandedOn(r, t) /\ t.authority = T /\ t.invocation = caller
    BY <1>1, <1>7, ReplacedInvocation
  <1> HIDE DEF t
  <1>9. RootOk(t, path[a].loose, nextId)
    BY <1>1, <1>7, <1>8, HandedOnKeeps
  <1>10. nextId' \in Nat /\ nextId <= nextId'
    BY <1>1, <1>2
  <1> QED
    BY <1>2, <1>3, <1>4, <1>6, <1>8, <1>9, <1>10, OneArmSteps

\* A return whose invocation has nothing left.
LEMMA LeaveStep ==
    ASSUME PopulationInv, NEW a \in Arm, LeaveCall(a)
    PROVE  PopulationInv'
PROOF
  <1> DEFINE r == path[a].root
             caller == Last(path[a].frames)
             own == {b \in Automatic \cap DOMAIN r.creators : r.creators[b] = r.invocation}
             e == WithoutStorage(r, own)
             t == WithInvocation(e, caller, e.authority)
             f == Front(path[a].frames)
             l == Besides(path[a].loose, own)
             x == [path[a] EXCEPT !.root = t, !.frames = f, !.loose = l]
  <1>1. /\ nextId \in Nat /\ RootOk(r, path[a].loose, nextId) /\ r.invocation \in Nat
        /\ Holders(r.invocation, path[a].frames, path[a].workers, nextId)
        /\ PathShape(path[a]) /\ path = [c \in Arm |-> path[c]]
    BY ArmFacts
  <1>2. /\ nextId' = nextId /\ path[a].frames # <<>>
        /\ own \in SUBSET DOMAIN r.creators
        /\ \A b \in own : MayEndStorage(r, b)
    BY DEF LeaveCall
  <1>3. path' = [path EXCEPT ![a].root = [e EXCEPT !.invocation = caller],
                             ![a].frames = f, ![a].loose = l]
    BY DEF LeaveCall, Besides
  <1> HIDE DEF own
  <1>4. RootOk(e, l, nextId) /\ e.invocation = r.invocation
    BY <1>1, <1>2, StorageEnding
  <1> HIDE DEF e, l
  <1>5. RootShape(e) /\ AuthInv(e.authority, nextId)
    BY <1>4 DEF RootOk
  <1>6. t = [e EXCEPT !.invocation = caller]
    <2> HIDE DEF caller
    <2> QED
      BY <1>5 DEF WithInvocation, RootShape
  <1>7. path' = [path EXCEPT ![a] = x]
    <2> HIDE DEF t, f, caller, r
    <2> QED
      BY <1>1, <1>3, <1>6 DEF PathShape
  <1>8. ArmIs(x, t, f, path[a].workers, l)
    BY <1>1, ArmUpdates
  <1>9. Holders(caller, f, path[a].workers, nextId)
    BY <1>1, <1>2, ReturnHolders
  <1>10. HandedOn(e, t) /\ t.authority = e.authority /\ t.invocation = caller
    <2>1. TracksAlike(e.authority, e.authority)
      BY DEF TracksAlike
    <2> QED
      BY <1>5, <2>1, ReplacedInvocation
  <1> HIDE DEF t, f, x
  <1>11. RootOk(t, l, nextId)
    BY <1>1, <1>4, <1>5, <1>10, HandedOnKeeps
  <1>12. nextId' \in Nat /\ nextId <= nextId'
    BY <1>1, <1>2
  <1> QED
    BY <1>2, <1>7, <1>8, <1>9, <1>10, <1>11, <1>12, OneArmSteps

\* A worker takes what it is given.
LEMMA CreateWorkerStep ==
    ASSUME PopulationInv, NEW a \in Arm, NEW given \in Givings(path[a].root.authority),
           CreateWorker(a, given)
    PROVE  PopulationInv'
PROOF
  <1> DEFINE r == path[a].root
             n == nextId
             T == Moved(r.authority, r.invocation, n, given)
             t == WithAuthority(r, T)
             w == path[a].workers \cup {n}
             x == [path[a] EXCEPT !.root = t, !.workers = w]
  <1>1. /\ n \in Nat /\ RootShape(r) /\ RootOk(r, path[a].loose, n)
        /\ AuthInv(r.authority, n + 1)
        /\ Holders(r.invocation, path[a].frames, path[a].workers, n)
        /\ PathShape(path[a]) /\ path = [c \in Arm |-> path[c]]
    BY ArmFacts, AuthLater
  <1>2. /\ nextId' = n + 1 /\ MayMove(r.authority, r.invocation, n, given)
    BY DEF CreateWorker, Fresh
  <1>3. path' = [path EXCEPT ![a] = x]
    <2>1. path' = [path EXCEPT ![a].root.authority = T, ![a].workers = w]
      BY DEF CreateWorker
    <2> HIDE DEF T, w
    <2> QED
      BY <1>1, <2>1 DEF WithAuthority, PathShape
  <1>4. ArmIs(x, t, path[a].frames, w, path[a].loose)
    BY <1>1, ArmUpdates
  <1>5. Counted(given)
    BY GivingsCounted
  <1>6. r.invocation \in Id(n + 1) /\ n \in Id(n + 1) /\ r.invocation # n
    BY <1>1, LaterHolders
  <1>7. AuthInv(T, n + 1) /\ TracksAlike(r.authority, T)
    BY <1>1, <1>2, <1>5, <1>6, MovedHandsOn
  <1>8. Holders(r.invocation, path[a].frames, w, n + 1)
    BY <1>1, WorkerHolders
  <1> HIDE DEF T, w, x
  <1>9. HandedOn(r, t) /\ t.authority = T /\ t.invocation = r.invocation
    BY <1>1, <1>7, ReplacedAuthority
  <1> HIDE DEF t
  <1>10. RootOk(t, path[a].loose, n + 1)
    BY <1>1, <1>7, <1>9, HandedOnKeeps
  <1>11. nextId' \in Nat /\ n <= nextId'
    BY <1>1, <1>2
  <1> QED
    BY <1>2, <1>3, <1>4, <1>8, <1>9, <1>10, <1>11, OneArmSteps

\* The join of a worker into a ledger that was handed on.
LEMMA JoinStep ==
    ASSUME PopulationInv, NEW a \in Arm, NEW k \in path[a].workers, NEW u,
           u = path[a].root \/ HandedOn(path[a].root, u),
           AuthInv(u.authority, nextId), u.invocation = path[a].root.invocation,
           NEW given, Counted(given), JoinWorker(a, k, u, given)
    PROVE  PopulationInv'
PROOF
  <1> DEFINE r == path[a].root
             n == nextId
             T == Moved(u.authority, k, u.invocation, given)
             t == WithAuthority(u, T)
             w == path[a].workers \ {k}
             x == [path[a] EXCEPT !.root = t, !.workers = w]
  <1>1. /\ n \in Nat /\ RootShape(r) /\ RootOk(r, path[a].loose, n)
        /\ r.invocation \in Id(n)
        /\ Holders(r.invocation, path[a].frames, path[a].workers, n)
        /\ PathShape(path[a]) /\ path = [c \in Arm |-> path[c]]
    BY ArmFacts
  <1>2. nextId' = n /\ MayMove(u.authority, k, u.invocation, given)
    BY DEF JoinWorker
  <1>3. path' = [path EXCEPT ![a] = x]
    <2>1. path' = [path EXCEPT ![a].root = t, ![a].workers = w]
      BY DEF JoinWorker, WithAuthority
    <2> HIDE DEF t, w
    <2> QED
      BY <1>1, <2>1 DEF PathShape
  <1>4. ArmIs(x, t, path[a].frames, w, path[a].loose)
    BY <1>1, ArmUpdates
  <1>5. /\ k \in Id(n) /\ k # r.invocation
        /\ Holders(r.invocation, path[a].frames, w, n)
    BY <1>1, JoinedHolders
  <1>6. RootShape(u) /\ HandedOn(r, u)
    <2>1. HandedOn(r, r)
      BY <1>1 DEF HandedOn, TracksAlike
    <2>2. HandedOn(r, u)
      BY <2>1
    <2> QED
      BY <2>2 DEF HandedOn
  <1>7. AuthInv(T, n) /\ TracksAlike(u.authority, T)
    BY <1>1, <1>2, <1>5, <1>6, MovedHandsOn
  <1> HIDE DEF T, w, x
  <1>8. HandedOn(u, t) /\ t.authority = T /\ t.invocation = u.invocation
    BY <1>6, <1>7, ReplacedAuthority
  <1> HIDE DEF t
  <1>9. HandedOn(r, t)
    BY <1>6, <1>8, HandedOnTwice
  <1> HIDE DEF r
  <1>10. RootOk(t, path[a].loose, n)
    BY <1>1, <1>7, <1>8, <1>9, HandedOnKeeps DEF r
  <1>11. nextId' \in Nat /\ n <= nextId'
    BY <1>1, <1>2
  <1>12. Holders(t.invocation, path[a].frames, w, n)
    BY <1>5, <1>8 DEF r
  <1> QED
    BY <1>2, <1>3, <1>4, <1>10, <1>11, <1>12, OneArmSteps

\* A deferred exchange lends the authority and takes it back.
LEMMA DeferredHandsOn ==
    ASSUME NEW r, RootShape(r), NEW n \in Nat, AuthInv(r.authority, n),
           NEW w \in Id(n), r.invocation \in Id(n), w # r.invocation,
           NEW b, NEW f, NEW produce \in BOOLEAN, NEW k \in Nat,
           MayDefer(r, w, b, f, produce, k)
    PROVE  /\ HandedOn(r, Deferred(r, w, b, f, produce, k))
           /\ AuthInv(Deferred(r, w, b, f, produce, k).authority, n)
           /\ Deferred(r, w, b, f, produce, k).invocation = r.invocation
PROOF
  <1> DEFINE S == r.authority
             i == r.invocation
             p == PopulationOf(r, b, f)
             lend == [anchors |-> {}, authorities |-> {p}, members |-> Empty]
             L == Moved(S, i, w, lend)
  <1>1. /\ AuthorityOwned(S, i, p)
        /\ produce => S.populations[p].total + k <= CountLimit
        /\ ~ produce => k <= Count(S.members, <<w, p>>)
    BY DEF MayDefer
  <1> HIDE DEF p
  <1>2. /\ Counted(lend) /\ Count(lend.members, p) = 0
        /\ lend.anchors = {} /\ lend.authorities = {p} /\ DOMAIN lend.members = {}
    BY DEF Counted, Empty, Count
  <1> HIDE DEF lend
  <1>3. MayMove(S, i, w, lend)
    BY <1>1, <1>2 DEF MayMove
  <1>4. AuthTypes(S, n) /\ i \in Nat /\ w \in Nat
    BY DEF AuthInv, Id
  <1>5. AuthInv(L, n) /\ TracksAlike(S, L)
    BY <1>2, <1>3, MovedHandsOn
  <1>6. MovedTo(S, L, i, w, lend)
    BY <1>4, MovedFields
  <1>7. MembersMoved(S, MovedMembers(S.members, i, w, lend), i, w, lend, n)
    BY <1>2, <1>3, <1>4, MovedCounts
  <1> HIDE DEF L
  <1>8. /\ AuthorityOwned(L, w, p)
        /\ L.populations[p].total = S.populations[p].total
    BY <1>1, <1>2, <1>6 DEF MovedTo, AuthorityOwned
  <1>9. Count(L.members, <<w, p>>) = Count(S.members, <<w, p>>)
    <2>1. Count(L.members, <<w, p>>) = Count(S.members, <<w, p>>) + Count(lend.members, p)
      BY <1>6, <1>7 DEF MovedTo, MembersMoved
    <2>2. Count(S.members, <<w, p>>) \in Nat
      BY <1>4, AuthFacts
    <2> QED
      BY <1>2, <2>1, <2>2
  <1>10. ASSUME NEW E, NEW d \in Int, AuthInv(E, n), Exchanged(L, E, w, p, d)
         PROVE  /\ AuthInv(Moved(E, w, i, lend), n)
                /\ TracksAlike(S, Moved(E, w, i, lend))
    <2>1. TracksAlike(L, E)
      BY <1>10, OperationsTrackAlike
    <2>2. AuthorityOwned(E, w, p)
      BY <1>8, <1>10 DEF Exchanged, AuthorityOwned
    <2>3. MayMove(E, w, i, lend)
      BY <1>2, <2>2 DEF MayMove
    <2>4. AuthTypes(E, n)
      BY <1>10 DEF AuthInv
    <2>5. AuthInv(Moved(E, w, i, lend), n)
      BY <1>2, <1>10, <2>3, MoveKeeps
    <2>6. MovedTo(E, Moved(E, w, i, lend), w, i, lend)
      BY <1>4, <2>4, MovedFields
    <2>7. TracksAlike(E, Moved(E, w, i, lend))
      BY <2>6, OperationsTrackAlike
    <2>8. TracksAlike(S, Moved(E, w, i, lend))
      BY <1>5, <2>1, <2>7 DEF TracksAlike
    <2> QED
      BY <2>5, <2>8
  <1>11. CASE produce
    <2> DEFINE E == Produced(L, w, p, k)
               T == Moved(E, w, i, lend)
               u == WithTaint(r, b, f)
    <2>1. MayProduce(L, w, p, k)
      BY <1>1, <1>8, <1>11 DEF MayProduce
    <2>2. AuthInv(E, n) /\ Exchanged(L, E, w, p, k)
      BY <1>5, <2>1, ProduceKeeps
    <2>3. Deferred(r, w, b, f, produce, k) = WithAuthority(u, T)
      BY <1>11 DEF Deferred, WithAuthority, p, lend, L
    <2>4. HandedOn(r, u) /\ u.authority = S /\ u.invocation = i
      BY TaintHandsOn
    <2> HIDE DEF E, u
    <2>5. AuthInv(T, n) /\ TracksAlike(S, T)
      BY <1>10, <2>2
    <2> HIDE DEF T
    <2>6. RootShape(u) /\ TracksAlike(u.authority, T)
      BY <2>4, <2>5 DEF HandedOn
    <2>7. /\ HandedOn(u, WithAuthority(u, T)) /\ WithAuthority(u, T).authority = T
          /\ WithAuthority(u, T).invocation = u.invocation
      BY <2>6, ReplacedAuthority
    <2>8. HandedOn(r, WithAuthority(u, T))
      BY <2>4, <2>7, HandedOnTwice
    <2> QED
      BY <2>3, <2>4, <2>5, <2>7, <2>8
  <1>12. CASE ~ produce
    <2> DEFINE E == Consumed(L, w, p, k)
               T == Moved(E, w, i, lend)
    <2>1. MayConsume(L, w, p, k)
      BY <1>1, <1>8, <1>9, <1>12 DEF MayConsume
    <2>2. AuthInv(E, n) /\ Exchanged(L, E, w, p, 0 - k)
      BY <1>5, <2>1, ConsumeKeeps
    <2>3. Deferred(r, w, b, f, produce, k) = WithAuthority(r, T)
      BY <1>12 DEF Deferred, WithAuthority, p, lend, L
    <2> HIDE DEF E
    <2>4. 0 - k \in Int
      OBVIOUS
    <2>5. AuthInv(T, n) /\ TracksAlike(S, T)
      BY <1>10, <2>2, <2>4
    <2> HIDE DEF T
    <2>6. /\ HandedOn(r, WithAuthority(r, T)) /\ WithAuthority(r, T).authority = T
          /\ WithAuthority(r, T).invocation = i
      BY <2>5, ReplacedAuthority
    <2> QED
      BY <2>3, <2>5, <2>6
  <1> QED
    BY <1>11, <1>12

\* A join gives back what the worker has, changed by its deferred effect.
LEMMA JoinDeferredStep ==
    ASSUME PopulationInv, NEW a \in Arm, NEW w \in path[a].workers, NEW b, NEW f,
           NEW produce \in BOOLEAN, NEW k \in Nat, JoinDeferred(a, w, b, f, produce, k)
    PROVE  PopulationInv'
PROOF
  <1> DEFINE r == path[a].root
             u == Deferred(r, w, b, f, produce, k)
  <1>1. /\ nextId \in Nat /\ RootShape(r) /\ AuthInv(r.authority, nextId)
        /\ r.invocation \in Id(nextId)
        /\ Holders(r.invocation, path[a].frames, path[a].workers, nextId)
    BY ArmFacts
  <1>2. w \in Id(nextId) /\ w # r.invocation
    BY <1>1 DEF Holders
  <1>3. MayDefer(r, w, b, f, produce, k)
    BY DEF JoinDeferred
  <1>4. PICK given \in Givings(u.authority) : JoinWorker(a, w, u, given)
    BY DEF JoinDeferred
  <1>5. Counted(given)
    BY GivingsCounted
  <1>6. HandedOn(r, u) /\ AuthInv(u.authority, nextId) /\ u.invocation = r.invocation
    BY <1>1, <1>2, <1>3, DeferredHandsOn
  <1> HIDE DEF u
  <1> QED
    BY <1>4, <1>5, <1>6, JoinStep

\* At entry nothing is counted and nothing is remembered.
LEMMA NothingYet ==
    Init => PopulationInv
PROOF
  <1> SUFFICES ASSUME Init PROVE PopulationInv
    OBVIOUS
  <1> DEFINE S == NoAuthority
             r == NewRoot(0)
  <1>1. nextId = 1 /\ Id(1) = {0} /\ nextId \in Nat \ {0}
    BY DEF Init, Id
  <1>2. DOMAIN Empty = {}
    BY DEF Empty
  <1>3. /\ AuthShape(S)
        /\ S.anchors = Empty /\ S.registrations = Empty /\ S.populations = Empty
        /\ S.members = Empty /\ S.obligations = Empty
    BY DEF NoAuthority, AuthShape
  <1>4. /\ RootShape(r)
        /\ r.invocation = 0 /\ r.pending = Empty /\ r.creators = Empty /\ r.anchors = Empty
        /\ r.authority = S /\ r.tainted = Empty /\ r.empty = Empty
    BY DEF NewRoot, RootShape
  <1>5. path = [a \in Arm |-> path[a]]
        /\ \A a \in Arm : /\ PathShape(path[a]) /\ path[a].root = r /\ path[a].frames = <<>>
                          /\ path[a].workers = {} /\ path[a].loose = {}
    BY DEF Init, PathShape
  <1> HIDE DEF S, r
  <1>6. AuthTypes(S, 1)
    BY <1>2, <1>3 DEF AuthTypes, Empty
  <1>7. Registered(S) /\ RegistrationsCounted(S) /\ TotalsCounted(S, 1)
    BY <1>2, <1>3 DEF Registered, RegistrationsCounted, TotalsCounted
  <1>8. ObligationsCounted(S)
    <2> SUFFICES ASSUME NEW h \in Nat
                 PROVE  Count(S.obligations, h) =
                          Cardinality(OwnedBy(S.anchors, h))
                            + Cardinality(OwnedBy(S.populations, h)) + Total(HeldOf(S, h))
      BY DEF ObligationsCounted
    <2>1. Count(S.obligations, h) = 0
      BY <1>2, <1>3 DEF Count
    <2>2. OwnedBy(S.anchors, h) = {} /\ OwnedBy(S.populations, h) = {}
      BY <1>2, <1>3 DEF OwnedBy
    <2>3. Cardinality({}) = 0
      BY FS_EmptySet
    <2>4. IsFiniteSet(DOMAIN S.populations) /\ HeldOf(S, h) \in [DOMAIN S.populations -> Nat]
      BY <1>6, AuthFacts
    <2>5. Total(HeldOf(S, h)) = 0
      BY <1>2, <1>3, <2>4, TotalZero
    <2> QED
      BY <2>1, <2>2, <2>3, <2>5
  <1>9. AuthInv(S, 1)
    BY <1>6, <1>7, <1>8 DEF AuthInv
  <1>10. Storage(r)
    BY <1>2, <1>4 DEF Storage, Empty
  <1>11. Remembered(r, {}) /\ ZerosRetired(r)
    BY <1>2, <1>4 DEF Remembered, ZerosRetired
  <1>12. RootOk(r, {}, 1)
    BY <1>4, <1>9, <1>10, <1>11 DEF RootOk
  <1>13. Holders(0, <<>>, {}, 1)
    BY <1>1 DEF Holders
  <1>14. \A a \in Arm : PathOk(path[a], nextId)
    BY <1>1, <1>4, <1>5, <1>12, <1>13 DEF PathOk
  <1> QED
    BY <1>1, <1>5, <1>14 DEF PopulationInv

\* PopulationInv is inductive.
LEMMA EveryStep ==
    PopulationInv /\ [Next]_vars => PopulationInv'
PROOF
  <1> SUFFICES ASSUME PopulationInv, [Next]_vars PROVE PopulationInv'
    OBVIOUS
  <1>1. CASE UNCHANGED vars
    <2>1. path' = path /\ nextId' = nextId
      BY <1>1 DEF vars
    <2> QED
      BY <2>1 DEF PopulationInv
  <1>2. ASSUME NEW a \in Arm, NEW b \in Block, Created(a, b) \/ StorageEnds(a, b)
        PROVE  PopulationInv'
    BY <1>2, CreatedStep, StorageEndsStep
  <1>3. ASSUME NEW a \in Arm, NEW q \in Request, PendingCreation(a, q)
        PROVE  PopulationInv'
    BY <1>3, PendingStep
  <1>4. ASSUME NEW a \in Arm, NEW q \in Request, NEW b \in (Block \ Automatic) \cup {None},
               ResolvePending(a, q, b)
        PROVE  PopulationInv'
    BY <1>4, ResolvedStep
  <1>5. ASSUME NEW a \in Arm, NEW b \in Block \cup Request, NEW f \in Family,
               MemberCreated(a, b, f) \/ MemberUnfolded(a, b, f)
        PROVE  PopulationInv'
    BY <1>5, MemberCreatedStep, MemberUnfoldedStep
  <1>6. ASSUME NEW a \in Arm, NEW b \in Block, NEW f \in Family,
               Establish(a, b, f) \/ RetireAuthority(a, b, f)
        PROVE  PopulationInv'
    BY <1>6, EstablishStep, RetireStep
  <1>7. \A n \in 1..CountLimit : n \in Nat
    BY PopulationAssumption
  <1>8. ASSUME NEW a \in Arm, NEW b \in Block, NEW f \in Family, NEW n \in 1..CountLimit,
               ProduceMembers(a, b, f, n) \/ ConsumeMembers(a, b, f, n)
        PROVE  PopulationInv'
    BY <1>7, <1>8, ProduceStep, ConsumeStep
  <1>9. ASSUME NEW a \in Arm, NEW given \in Givings(path[a].root.authority),
               EnterCall(a, given) \/ FinishCall(a, given) \/ CreateWorker(a, given)
        PROVE  PopulationInv'
    BY <1>9, EnterStep, FinishStep, CreateWorkerStep
  <1>10. ASSUME NEW a \in Arm, LeaveCall(a)
         PROVE  PopulationInv'
    BY <1>10, LeaveStep
  <1>11. ASSUME NEW a \in Arm, NEW w \in path[a].workers,
                NEW given \in Givings(path[a].root.authority),
                JoinWorker(a, w, path[a].root, given)
         PROVE  PopulationInv'
    <2>1. Counted(given)
      BY GivingsCounted
    <2>2. AuthInv(path[a].root.authority, nextId)
      BY ArmFacts
    <2> QED
      BY <1>11, <2>1, <2>2, JoinStep
  <1>12. ASSUME NEW a \in Arm, NEW w \in path[a].workers, NEW b \in Block, NEW f \in Family,
                NEW produce \in BOOLEAN, NEW n \in 1..CountLimit,
                JoinDeferred(a, w, b, f, produce, n)
         PROVE  PopulationInv'
    BY <1>7, <1>12, JoinDeferredStep
  <1> QED
    BY <1>1, <1>2, <1>3, <1>4, <1>5, <1>6, <1>8, <1>9, <1>10, <1>11, <1>12 DEF Next

\* Whatever operations the arms make, in any order, the ledgers stay true: the
\* counters are the sizes of what they count, live blocks have anchors of
\* their own, and what was made or ended outside an authority is remembered.
THEOREM PopulationInvariant == Spec => []PopulationInv
PROOF
  <1> QED
    BY NothingYet, EveryStep, PTL DEF Spec

\* Obligations, totals and registrations are exact.
THEOREM CountsStayExact == Spec => []CountsExact
PROOF
  <1>1. PopulationInv => CountsExact
    <2> SUFFICES ASSUME PopulationInv, NEW a \in Arm
                 PROVE  LET S == path[a].root.authority IN
        /\ \A h \in 0..(nextId - 1) :
              Count(S.obligations, h) =
                Cardinality(OwnedBy(S.anchors, h)) + Cardinality(OwnedBy(S.populations, h))
                  + Total([p \in DOMAIN S.populations |-> Count(S.members, <<h, p>>)])
        /\ \A k \in DOMAIN S.members : k[2] \in DOMAIN S.populations
        /\ \A p \in DOMAIN S.populations :
              LET key == <<S.populations[p].anchor, S.populations[p].family>> IN
              /\ S.populations[p].total =
                    Total([h \in 0..(nextId - 1) |-> Count(S.members, <<h, p>>)])
              /\ key[1] \in DOMAIN S.anchors
              /\ key \in DOMAIN S.registrations /\ S.registrations[key] = p
        /\ \A x \in DOMAIN S.anchors :
              S.anchors[x].registrations =
                 Cardinality({p \in DOMAIN S.populations : S.populations[p].anchor = x})
      BY DEF CountsExact
    <2> DEFINE S == path[a].root.authority
    <2>1. nextId \in Nat /\ AuthInv(S, nextId) /\ AuthTypes(S, nextId)
      BY ArmFacts DEF AuthInv
    <2> HIDE DEF S
    <2>2. ASSUME NEW h \in 0..(nextId - 1)
          PROVE  Count(S.obligations, h) =
                   Cardinality(OwnedBy(S.anchors, h)) + Cardinality(OwnedBy(S.populations, h))
                     + Total([p \in DOMAIN S.populations |-> Count(S.members, <<h, p>>)])
      BY <2>1 DEF AuthInv, ObligationsCounted, HeldOf
    <2>3. \A k \in DOMAIN S.members : k[2] \in DOMAIN S.populations
      BY <2>1 DEF AuthTypes
    <2>4. ASSUME NEW p \in DOMAIN S.populations
          PROVE  /\ S.populations[p].total =
                      Total([h \in 0..(nextId - 1) |-> Count(S.members, <<h, p>>)])
                 /\ S.populations[p].anchor \in DOMAIN S.anchors
                 /\ KeyOf(S, p) \in DOMAIN S.registrations
                 /\ S.registrations[KeyOf(S, p)] = p
      BY <2>1 DEF AuthInv, TotalsCounted, MembersOf, Registered, Id
    <2>5. ASSUME NEW x \in DOMAIN S.anchors
          PROVE  S.anchors[x].registrations =
                   Cardinality({p \in DOMAIN S.populations : S.populations[p].anchor = x})
      BY <2>1 DEF AuthInv, RegistrationsCounted, PopulationsAt
    <2> QED
      BY <2>2, <2>3, <2>4, <2>5 DEF KeyOf, S
  <1> QED
    BY <1>1, PopulationInvariant, PTL

\* No member exists beside those a live population counts, and no zero answer
\* outlives into a live population.
THEOREM MembersStayCounted == Spec => []NoMemberUncounted
PROOF
  <1>1. PopulationInv => NoMemberUncounted
    <2> SUFFICES ASSUME PopulationInv, NEW a \in Arm, NEW b \in Block, NEW f \in Family,
                        TracksPopulation(path[a].root, b, f)
                 PROVE  <<b, f>> \notin path[a].loose /\ ~ CheckedEmpty(path[a].root, b, f)
      BY DEF NoMemberUncounted
    <2>1. RootOk(path[a].root, path[a].loose, nextId)
      BY ArmFacts
    <2>2. <<b, f>> \notin path[a].loose
      BY <2>1 DEF RootOk, Remembered
    <2>3. b \in DOMAIN path[a].root.anchors
      BY DEF TracksPopulation
    <2>4. ~ CheckedEmpty(path[a].root, b, f)
      BY <2>1, <2>3 DEF RootOk, ZerosRetired
    <2> QED
      BY <2>2, <2>4
  <1> QED
    BY <1>1, PopulationInvariant, PTL

----------------------------------------------------------------------------
(* Arms that a join takes for the same                                     *)

\* The ledgers L and R are equal but for the anchors, which to renames.
AnchorsRenamed(S, T, to) ==
    /\ to \in [DOMAIN S.anchors -> DOMAIN T.anchors]
    /\ \A y, z \in DOMAIN S.anchors : to[y] = to[z] => y = z
    /\ \A z \in DOMAIN T.anchors : \E y \in DOMAIN S.anchors : to[y] = z
    /\ \A y \in DOMAIN S.anchors : T.anchors[to[y]] = S.anchors[y]
    /\ \A p \in DOMAIN S.populations : to[S.populations[p].anchor] = S.populations[p].anchor
    /\ S.registrations = T.registrations /\ S.populations = T.populations
    /\ S.members = T.members /\ S.obligations = T.obligations

\* Such a renaming turns the one into the other.
LEMMA RenamingTurns ==
    ASSUME NEW L, NEW R, NEW l, NEW k, NEW n \in Nat, RootOk(L, l, n), RootOk(R, k, n), NEW to,
           AnchorsRenamed(L.authority, R.authority, to),
           SameRecordsBesidesAnchors(L, R),
           DOMAIN L.anchors = DOMAIN R.anchors,
           \A b \in DOMAIN L.anchors : to[L.anchors[b]] = R.anchors[b]
    PROVE  Renamed(L, to) = R
PROOF
  <1> DEFINE S == L.authority
             T == R.authority
             anchors == [b \in DOMAIN L.anchors |-> to[L.anchors[b]]]
             records == RenamedRecords(S.anchors, to)
             keys == RenamedKeys(S.registrations, to)
             pops == RenamedPopulations(S.populations, to)
             A == [S EXCEPT !.anchors = records, !.registrations = keys, !.populations = pops]
             Q == [L EXCEPT !.anchors = anchors, !.authority = A]
  <1>1. /\ RootShape(L) /\ RootShape(R) /\ AuthShape(S) /\ AuthShape(T)
        /\ AuthTypes(S, n) /\ AuthTypes(T, n) /\ Registered(S)
    BY DEF RootOk, AuthInv, AuthTypes
  <1>2. anchors = R.anchors
    BY DEF RootOk, Storage
  <1>3. records = T.anchors
    <2>1. {to[y] : y \in DOMAIN S.anchors} = DOMAIN T.anchors
      BY DEF AnchorsRenamed
    <2>2. ASSUME NEW y \in DOMAIN S.anchors
          PROVE  (CHOOSE z \in DOMAIN S.anchors : to[z] = to[y]) = y
      BY DEF AnchorsRenamed
    <2>3. ASSUME NEW x \in DOMAIN T.anchors
          PROVE  S.anchors[CHOOSE y \in DOMAIN S.anchors : to[y] = x] = T.anchors[x]
      <3>1. PICK y \in DOMAIN S.anchors : to[y] = x
        BY DEF AnchorsRenamed
      <3>2. (CHOOSE z \in DOMAIN S.anchors : to[z] = x) = y
        BY <2>2, <3>1
      <3> QED
        BY <3>1, <3>2 DEF AnchorsRenamed
    <2>4. T.anchors = [x \in DOMAIN T.anchors |-> T.anchors[x]]
      BY <1>1 DEF AuthTypes
    <2> QED
      BY <2>1, <2>3, <2>4 DEF RenamedRecords
  <1>4. \A p \in DOMAIN S.populations : to[S.populations[p].anchor] = S.populations[p].anchor
    BY DEF AnchorsRenamed
  <1>5. keys = T.registrations
    <2>1. ASSUME NEW x \in DOMAIN S.registrations PROVE <<to[x[1]], x[2]>> = x
      <3>1. x = KeyOf(S, S.registrations[x]) /\ S.registrations[x] \in DOMAIN S.populations
        BY <1>1 DEF Registered, AuthTypes
      <3> QED
        BY <1>4, <3>1 DEF KeyOf
    <2>2. {<<to[x[1]], x[2]>> : x \in DOMAIN S.registrations} = DOMAIN S.registrations
      BY <2>1
    <2>3. \A c \in DOMAIN S.registrations :
             (CHOOSE x \in DOMAIN S.registrations : <<to[x[1]], x[2]>> = c) = c
      BY <2>1
    <2>4. S.registrations = [c \in DOMAIN S.registrations |-> S.registrations[c]]
      BY <1>1 DEF AuthTypes
    <2> QED
      BY <2>2, <2>3, <2>4 DEF AnchorsRenamed, RenamedKeys
  <1>6. pops = T.populations
    <2>1. ASSUME NEW p \in DOMAIN S.populations
          PROVE  [S.populations[p] EXCEPT !.anchor = to[@]] = S.populations[p]
      <3>1. S.populations[p] \in Population
        BY <1>1 DEF AuthTypes
      <3>2. [S.populations[p] EXCEPT !.anchor = to[@]]
              = [S.populations[p] EXCEPT !.anchor = S.populations[p].anchor]
        BY <1>4
      <3> QED
        BY <3>1, <3>2 DEF Population
    <2>2. S.populations = [p \in DOMAIN S.populations |-> S.populations[p]]
      BY <1>1 DEF AuthTypes
    <2> DEFINE moved(p) == [S.populations[p] EXCEPT !.anchor = to[@]]
    <2>3. \A p \in DOMAIN S.populations : moved(p) = S.populations[p]
      BY <2>1
    <2>4. pops = [p \in DOMAIN S.populations |-> moved(p)]
      BY DEF RenamedPopulations
    <2> HIDE DEF moved, pops
    <2> QED
      BY <2>2, <2>3, <2>4 DEF AnchorsRenamed
  <1>7. Renamed(L, to) = Q
    <2>1. Renamed(L, to) =
             [L EXCEPT !.anchors = anchors, !.authority.anchors = records,
                       !.authority.registrations = keys, !.authority.populations = pops]
      BY DEF Renamed
    <2> HIDE DEF anchors, records, keys, pops
    <2> QED
      BY <1>1, <2>1 DEF RootShape, AuthShape
  <1> HIDE DEF anchors, records, keys, pops
  <1>8. A = T
    <2>1. /\ AuthShape(A) /\ A.anchors = records /\ A.registrations = keys
          /\ A.populations = pops /\ A.members = S.members /\ A.obligations = S.obligations
      BY <1>1 DEF AuthShape
    <2> HIDE DEF A
    <2>2. \A x \in {"anchors", "registrations", "populations", "members", "obligations"} :
             A[x] = T[x]
      BY <1>3, <1>5, <1>6, <2>1 DEF AnchorsRenamed
    <2> QED
      BY <1>1, <2>1, <2>2 DEF AuthShape
  <1> HIDE DEF A
  <1>9. Q = R
    <2>1. /\ RootShape(Q) /\ Q.anchors = anchors /\ Q.authority = A
          /\ Q.invocation = L.invocation /\ Q.pending = L.pending
          /\ Q.creators = L.creators /\ Q.tainted = L.tainted /\ Q.empty = L.empty
      BY <1>1 DEF RootShape
    <2> HIDE DEF Q
    <2>2. \A x \in {"invocation", "pending", "creators", "anchors", "authority", "tainted",
                    "empty"} : Q[x] = R[x]
      BY <1>2, <1>8, <2>1 DEF SameRecordsBesidesAnchors
    <2> QED
      BY <1>1, <2>1, <2>2 DEF RootShape
  <1> QED
    BY <1>7, <1>9

\* What RecordsSameState finds renamed: the anchors of the blocks in differ.
Differ(L, R) == {x \in DOMAIN L.anchors \cap DOMAIN R.anchors : L.anchors[x] # R.anchors[x]}

\* Arms without a renamed anchor are renamed by nothing.
LEMMA SameAuthority ==
    ASSUME NEW L, NEW R, NEW l, NEW k, NEW n \in Nat, RootOk(L, l, n), RootOk(R, k, n),
           L.authority = R.authority, Differ(L, R) = {}, DOMAIN L.anchors = DOMAIN R.anchors,
           SameRecordsBesidesAnchors(L, R)
    PROVE  \E to \in [DOMAIN L.authority.anchors -> DOMAIN R.authority.anchors] :
              Renamed(L, to) = R
PROOF
  <1> DEFINE S == L.authority
             to == [y \in DOMAIN S.anchors |-> y]
  <1>1. /\ Registered(S)
        /\ \A b \in DOMAIN L.anchors : L.anchors[b] \in DOMAIN S.anchors
        /\ \A p \in DOMAIN S.populations : S.populations[p].anchor \in DOMAIN S.anchors
    BY DEF RootOk, AuthInv, Storage, Registered
  <1>2. \A b \in DOMAIN L.anchors : to[L.anchors[b]] = R.anchors[b]
    BY <1>1 DEF Differ
  <1>3. AnchorsRenamed(S, R.authority, to)
    BY <1>1 DEF AnchorsRenamed
  <1>4. to \in [DOMAIN S.anchors -> DOMAIN R.authority.anchors]
    OBVIOUS
  <1> HIDE DEF to
  <1>5. Renamed(L, to) = R
    BY <1>2, <1>3, RenamingTurns
  <1> QED
    BY <1>4, <1>5

\* Arms with anchors of their own at blocks without a population are renamed
\* block by block.
LEMMA RenamedAuthority ==
    ASSUME NEW L, NEW R, NEW l, NEW k, NEW n \in Nat, RootOk(L, l, n), RootOk(R, k, n),
           NEW renamed, renamed = {<<L.anchors[b], R.anchors[b]>> : b \in Differ(L, R)},
           SameUpToUnestablishedAnchors(L.authority, R.authority, renamed),
           DOMAIN L.anchors = DOMAIN R.anchors, SameRecordsBesidesAnchors(L, R)
    PROVE  \E to \in [DOMAIN L.authority.anchors -> DOMAIN R.authority.anchors] :
              Renamed(L, to) = R
PROOF
  <1> DEFINE S == L.authority
             T == R.authority
             D == Differ(L, R)
             X == {L.anchors[b] : b \in D}
             Y == {R.anchors[b] : b \in D}
             at == [y \in X |-> CHOOSE b \in D : L.anchors[b] = y]
             to == [y \in DOMAIN S.anchors |-> IF y \in X THEN R.anchors[at[y]] ELSE y]
  <1>1. /\ Registered(S)
        /\ \A b \in DOMAIN L.anchors : L.anchors[b] \in DOMAIN S.anchors
        /\ \A b \in DOMAIN R.anchors : R.anchors[b] \in DOMAIN T.anchors
        /\ \A b, c \in DOMAIN L.anchors : L.anchors[b] = L.anchors[c] => b = c
        /\ \A b, c \in DOMAIN R.anchors : R.anchors[b] = R.anchors[c] => b = c
    BY DEF RootOk, AuthInv, Storage
  <1>2. /\ D \subseteq DOMAIN L.anchors /\ D \subseteq DOMAIN R.anchors
        /\ \A b \in DOMAIN L.anchors : b \notin D => L.anchors[b] = R.anchors[b]
    BY DEF Differ
  <1>3. /\ \A b \in D : at[L.anchors[b]] = b
        /\ \A y \in X : at[y] \in D /\ L.anchors[at[y]] = y
    <2>1. \A b \in D : L.anchors[b] \in X
      OBVIOUS
    <2>2. ASSUME NEW y \in X PROVE at[y] \in D /\ L.anchors[at[y]] = y
      <3>1. \E b \in D : L.anchors[b] = y
        OBVIOUS
      <3>2. at[y] = CHOOSE b \in D : L.anchors[b] = y
        OBVIOUS
      <3> HIDE DEF at
      <3> QED
        BY <3>1, <3>2
    <2> HIDE DEF at, X
    <2> QED
      BY <1>1, <1>2, <2>1, <2>2
  <1>4. /\ {x[1] : x \in renamed} = X /\ {x[2] : x \in renamed} = Y
    <2>1. ASSUME NEW x \in renamed PROVE x[1] \in X /\ x[2] \in Y
      <3>1. PICK b \in D : x = <<L.anchors[b], R.anchors[b]>>
        OBVIOUS
      <3>2. x[1] = L.anchors[b] /\ x[2] = R.anchors[b]
        BY <3>1
      <3> QED
        BY <3>2
    <2>2. ASSUME NEW b \in D
          PROVE  \E x \in renamed : x[1] = L.anchors[b] /\ x[2] = R.anchors[b]
      <3> DEFINE x == <<L.anchors[b], R.anchors[b]>>
      <3>1. x \in renamed /\ x[1] = L.anchors[b] /\ x[2] = R.anchors[b]
        OBVIOUS
      <3> QED
        BY <3>1
    <2>3. \A y \in X : \E x \in renamed : x[1] = y
      BY <2>2
    <2>4. \A y \in Y : \E x \in renamed : x[2] = y
      BY <2>2
    <2> HIDE DEF X, Y
    <2> QED
      BY ONLY <2>1, <2>3, <2>4
  <1>5. /\ \A b \in D : /\ S.anchors[L.anchors[b]] = T.anchors[R.anchors[b]]
                        /\ S.anchors[L.anchors[b]].established = {}
        /\ WithoutKeys(S.anchors, X) = WithoutKeys(T.anchors, Y)
        /\ S.registrations = T.registrations /\ S.populations = T.populations
        /\ S.members = T.members /\ S.obligations = T.obligations
    <2>1. \A b \in D : <<L.anchors[b], R.anchors[b]>> \in renamed
      OBVIOUS
    <2> HIDE DEF D, X, Y
    <2> QED
      BY <1>4, <2>1 DEF SameUpToUnestablishedAnchors
  <1>6. /\ DOMAIN S.anchors \ X = DOMAIN T.anchors \ Y
        /\ \A y \in DOMAIN S.anchors \ X : S.anchors[y] = T.anchors[y]
    BY <1>5 DEF WithoutKeys
  <1>7. /\ \A y \in X : to[y] = R.anchors[at[y]] /\ to[y] \in Y
        /\ \A y \in DOMAIN S.anchors \ X : to[y] = y
        /\ X \subseteq DOMAIN S.anchors /\ Y \subseteq DOMAIN T.anchors
        /\ DOMAIN to = DOMAIN S.anchors /\ to = [y \in DOMAIN S.anchors |-> to[y]]
    <2>1. X \subseteq DOMAIN S.anchors /\ Y \subseteq DOMAIN T.anchors
      BY <1>1, <1>2
    <2>2. ASSUME NEW y \in X PROVE R.anchors[at[y]] \in Y
      BY <1>3
    <2> HIDE DEF X, Y, at
    <2> QED
      BY <2>1, <2>2
  <1>8. \A z \in Y : \E b \in D : z = R.anchors[b] /\ L.anchors[b] \in X
    OBVIOUS
  <1> HIDE DEF to, X, Y, at, D
  <1>9. to \in [DOMAIN S.anchors -> DOMAIN T.anchors]
    BY <1>6, <1>7
  <1>10. ASSUME NEW y \in DOMAIN S.anchors, NEW z \in DOMAIN S.anchors, to[y] = to[z]
         PROVE  y = z
    <2>1. CASE y \in X /\ z \in X
      BY <1>1, <1>2, <1>3, <1>7, <1>10, <2>1
    <2>2. CASE y \notin X /\ z \notin X
      BY <1>7, <1>10, <2>2
    <2>3. CASE y \in X /\ z \notin X
      BY <1>6, <1>7, <1>10, <2>3
    <2>4. CASE y \notin X /\ z \in X
      BY <1>6, <1>7, <1>10, <2>4
    <2> QED
      BY <2>1, <2>2, <2>3, <2>4
  <1>11. ASSUME NEW z \in DOMAIN T.anchors PROVE \E y \in DOMAIN S.anchors : to[y] = z
    <2>1. CASE z \in Y
      <3>1. PICK b \in D : z = R.anchors[b] /\ L.anchors[b] \in X
        BY <1>8, <2>1
      <3>2. at[L.anchors[b]] = b /\ to[L.anchors[b]] = R.anchors[at[L.anchors[b]]]
        BY <1>3, <1>7, <3>1
      <3>3. L.anchors[b] \in DOMAIN S.anchors
        BY <1>7, <3>1
      <3> QED
        BY <3>1, <3>2, <3>3
    <2>2. CASE z \notin Y
      BY <1>6, <1>7, <2>2
    <2> QED
      BY <2>1, <2>2
  <1>12. ASSUME NEW y \in DOMAIN S.anchors PROVE T.anchors[to[y]] = S.anchors[y]
    <2>1. CASE y \in X
      BY <1>3, <1>5, <1>7, <2>1
    <2>2. CASE y \notin X
      BY <1>6, <1>7, <2>2
    <2> QED
      BY <2>1, <2>2
  <1>13. ASSUME NEW p \in DOMAIN S.populations
         PROVE  to[S.populations[p].anchor] = S.populations[p].anchor
    <2> DEFINE y == S.populations[p].anchor
    <2>1. y \in DOMAIN S.anchors /\ S.anchors[y].established # {}
      BY <1>1 DEF Registered
    <2>2. y \notin X
      BY <1>3, <1>5, <2>1
    <2> QED
      BY <1>7, <2>1, <2>2
  <1>14. ASSUME NEW b \in DOMAIN L.anchors PROVE to[L.anchors[b]] = R.anchors[b]
    <2>1. CASE L.anchors[b] \in X
      <3>1. b = at[L.anchors[b]]
        BY <1>1, <1>2, <1>3, <2>1
      <3> QED
        BY <1>7, <2>1, <3>1
    <2>2. CASE L.anchors[b] \notin X
      <3>1. b \notin D
        BY <2>2 DEF X
      <3> QED
        BY <1>1, <1>2, <1>7, <2>2, <3>1
    <2> QED
      BY <2>1, <2>2
  <1>15. AnchorsRenamed(S, T, to)
    BY <1>5, <1>9, <1>10, <1>11, <1>12, <1>13 DEF AnchorsRenamed
  <1>16. Renamed(L, to) = R
    BY <1>14, <1>15, RenamingTurns
  <1> QED
    BY <1>9, <1>16

\* Two arms whose ledgers a join takes for the same state are the same but
\* for the names of anchors.
THEOREM JoinsStaySound == Spec => []JoinedArmsAgree
PROOF
  <1>1. PopulationInv => JoinedArmsAgree
    <2> SUFFICES ASSUME PopulationInv, NEW a \in Arm, NEW b \in Arm,
                        RecordsSameState(path[a].root, path[b].root)
                 PROVE  \E to \in [DOMAIN path[a].root.authority.anchors
                                     -> DOMAIN path[b].root.authority.anchors] :
                           Renamed(path[a].root, to) = path[b].root
      BY DEF JoinedArmsAgree
    <2> DEFINE L == path[a].root
               R == path[b].root
               renamed == {<<L.anchors[c], R.anchors[c]>> : c \in Differ(L, R)}
    <2>1. /\ nextId \in Nat
          /\ RootOk(L, path[a].loose, nextId) /\ RootOk(R, path[b].loose, nextId)
      BY ArmFacts
    <2>2. /\ DOMAIN L.anchors = DOMAIN R.anchors /\ SameRecordsBesidesAnchors(L, R)
          /\ IF renamed = {} THEN L.authority = R.authority
             ELSE SameUpToUnestablishedAnchors(L.authority, R.authority, renamed)
      BY DEF RecordsSameState, Differ
    <2>3. renamed = {} => Differ(L, R) = {}
      OBVIOUS
    <2>4. renamed = {<<L.anchors[c], R.anchors[c]>> : c \in Differ(L, R)}
      OBVIOUS
    <2> HIDE DEF renamed, L, R
    <2>5. CASE renamed = {}
      <3>1. \E to \in [DOMAIN L.authority.anchors -> DOMAIN R.authority.anchors] :
               Renamed(L, to) = R
        BY <2>1, <2>2, <2>3, <2>5, SameAuthority
      <3> QED
        BY <3>1 DEF L, R
    <2>6. CASE renamed # {}
      <3>1. \E to \in [DOMAIN L.authority.anchors -> DOMAIN R.authority.anchors] :
               Renamed(L, to) = R
        BY <2>1, <2>2, <2>4, <2>6, RenamedAuthority
      <3> QED
        BY <3>1 DEF L, R
    <2> QED
      BY <2>5, <2>6
  <1> QED
    BY <1>1, PopulationInvariant, PTL
==============================================================================
