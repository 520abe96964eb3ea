------------------------ MODULE LocalReferencesProofs -----------------------
(***************************************************************************)
(* Proofs about LocalReferences.                                           *)
(*                                                                         *)
(* A scope is closed by restoring the ledger of its entry, so what the     *)
(* properties say of the current ledger is stated of every remembered one  *)
(* as well (Sound), and every frame is related to the ledger of the frame  *)
(* it encloses, the innermost one to the current ledger (Within).          *)
(***************************************************************************)
EXTENDS LocalReferences, FiniteSetTheorems, TLAPS

Map(D, R) == UNION {[X -> R] : X \in SUBSET D}

Record ==
    [parent : Nat \cup {None}, plan : PlanKey \cup {None}, support : Support,
     active : BOOLEAN, child : Nat \cup {None}]

LedgerType ==
    [refs : Map(Nat, Record), roots : Map(Support, Nat),
     holders : Map(Participant, Nat), sources : Map(Participant \X PlanKey, Nat),
     rest : Nat]

FrameType ==
    [holder : Participant, key : ScopeKey, issued : SUBSET Nat, active : Nat,
     restored : SUBSET Support, base : LedgerType]

Typed ==
    /\ refs \in Map(Nat, Record)
    /\ roots \in Map(Support, Nat)
    /\ holders \in Map(Participant, Nat)
    /\ sources \in Map(Participant \X PlanKey, Nat)
    /\ frames \in Seq(FrameType)
    /\ rest \in Nat /\ nextRef \in Nat
    /\ place \in [Support -> {"held", "reserved", "away"}]
    /\ ended \in SUBSET Nat

----------------------------------------------------------------------------
(* What holds of a ledger with references r, roots o, holder counts h and  *)
(* source plans q                                                          *)

\* A reference and the one it was borrowed from are for the same owner, and
\* a reference that is lent on knows its borrower.
Chained(r) ==
    \A i \in DOMAIN r :
        /\ r[i].parent # None =>
              /\ r[i].parent \in DOMAIN r
              /\ r[r[i].parent].support = r[i].support
        /\ r[i].child # None =>
              /\ r[i].child \in DOMAIN r
              /\ r[r[i].child].parent = i

UsableIn(r, i) == r[i].active /\ r[i].child = None

\* The usable references are one for each root.
Leased(r, o) ==
    /\ \A i \in DOMAIN r : UsableIn(r, i) => r[i].support \in DOMAIN o
    /\ \A s \in DOMAIN o : \E i \in DOMAIN r :
          \A j \in DOMAIN r : (UsableIn(r, j) /\ r[j].support = s) <=> j = i

Rooted(r, o) ==
    \A s \in DOMAIN o :
        /\ o[s] \in DOMAIN r
        /\ r[o[s]].active /\ r[o[s]].support = s
        /\ r[o[s]].parent = None /\ r[o[s]].plan = None

OwnedBy(o, p) == {s \in DOMAIN o : OwnerOf[s] = p}

\* The holder counts follow from the roots.
Numbered(o, h) ==
    /\ IsFiniteSet(DOMAIN o)
    /\ DOMAIN h = {p \in Participant : OwnedBy(o, p) # {}}
    /\ \A p \in DOMAIN h : h[p] = Cardinality(OwnedBy(o, p))

PlanOf(r, i) == <<OwnerOf[r[i].support], r[i].plan>>

\* The source plans follow from the active references.
Planned(r, q) ==
    /\ \A k \in DOMAIN q :
          /\ q[k] \in Alive(r)
          /\ r[q[k]].plan # None /\ k = PlanOf(r, q[k])
    /\ \A i \in Alive(r) : r[i].plan # None =>
          PlanOf(r, i) \in DOMAIN q /\ q[PlanOf(r, i)] = i

Sound(r, o, h, q) ==
    /\ Chained(r)
    /\ Leased(r, o)
    /\ Rooted(r, o)
    /\ Numbered(o, h)
    /\ Planned(r, q)

----------------------------------------------------------------------------
(* What holds between a frame and the ledger it has led to                 *)

\* References from before the scope are as they were, except that one may be
\* lent on to an active reference of the scope.
Kept(F, r) ==
    \A i \in DOMAIN F.base.refs :
        \/ r[i] = F.base.refs[i]
        \/ /\ r[i].child \in F.issued /\ r[r[i].child].active
           /\ F.base.refs[i] = WithoutChild(r[i])

ActiveIn(F, r) == {i \in F.issued : r[i].active}

Within(F, r, o, t) ==
    /\ DOMAIN r = DOMAIN F.base.refs \cup F.issued
    /\ DOMAIN F.base.refs \cap F.issued = {}
    /\ IsFiniteSet(F.issued) /\ F.active = Cardinality(ActiveIn(F, r))
    /\ Kept(F, r)
    /\ \A s \in DOMAIN F.base.roots : s \in DOMAIN o /\ o[s] = F.base.roots[s]
    /\ \A s \in DOMAIN o : s \notin DOMAIN F.base.roots => o[s] \in F.issued
    /\ t = F.base.rest

LedgerSound == Sound(refs, roots, holders, sources)

SoundBase(F) ==
    Sound(F.base.refs, F.base.roots, F.base.holders, F.base.sources)

Nested ==
    \A k \in 1 .. Len(frames) :
        /\ SoundBase(frames[k])
        /\ k + 1 \in 1 .. Len(frames) =>
              Within(frames[k], frames[k + 1].base.refs,
                     frames[k + 1].base.roots, frames[k + 1].base.rest)

TopWithin == frames # <<>> => Within(Top, refs, roots, rest)

\* Identities are not reused, not even after a rollback.
Issued ==
    /\ \A i \in DOMAIN refs \cup ended : i < nextRef
    /\ \A k \in 1 .. Len(frames) : \A i \in DOMAIN frames[k].base.refs : i < nextRef

Placed == \A s \in Support : place[s] = "reserved" <=> s \in DOMAIN roots

EndedInactive == \A i \in ended : i \notin Alive(refs)

ScopeInv ==
    /\ Typed
    /\ LedgerSound
    /\ Nested /\ TopWithin
    /\ Issued /\ Placed /\ EndedInactive

----------------------------------------------------------------------------
(* Maps and records                                                        *)

\* What membership in a set of maps means.
LEMMA MapFacts ==
    ASSUME NEW D, NEW R, NEW f \in Map(D, R)
    PROVE  /\ DOMAIN f \subseteq D
           /\ \A x \in DOMAIN f : f[x] \in R
           /\ f = [x \in DOMAIN f |-> f[x]]
  BY DEF Map

LEMMA MapIntro ==
    ASSUME NEW D, NEW R, NEW X, X \subseteq D, NEW f \in [X -> R]
    PROVE  f \in Map(D, R)
  BY DEF Map

\* Two maps of one type with the same entries are the same map.
LEMMA MapsEqual ==
    ASSUME NEW D, NEW R, NEW f \in Map(D, R), NEW g \in Map(D, R),
           DOMAIN f = DOMAIN g, \A x \in DOMAIN f : f[x] = g[x]
    PROVE  f = g
  BY MapFacts

\* Insertion of an entry.
LEMMA Inserted ==
    ASSUME NEW D, NEW R, NEW f \in Map(D, R), NEW k \in D, NEW v \in R
    PROVE  /\ WithInserted(f, k, v) \in Map(D, R)
           /\ DOMAIN WithInserted(f, k, v) = DOMAIN f \cup {k}
           /\ WithInserted(f, k, v)[k] = v
           /\ \A x \in DOMAIN f : x # k => WithInserted(f, k, v)[x] = f[x]
  <1>1. WithInserted(f, k, v) \in [DOMAIN f \cup {k} -> R]
    BY MapFacts DEF WithInserted
  <1>2. DOMAIN f \cup {k} \subseteq D
    BY MapFacts
  <1> QED BY <1>1, <1>2, MapIntro DEF WithInserted

\* The same for the maps of a ledger: references, roots and holder counts.
LEMMA InsertedRef ==
    ASSUME NEW f \in Map(Nat, Record), NEW k \in Nat, NEW v \in Record
    PROVE  /\ WithInserted(f, k, v) \in Map(Nat, Record)
           /\ DOMAIN WithInserted(f, k, v) = DOMAIN f \cup {k}
           /\ WithInserted(f, k, v)[k] = v
           /\ \A x \in DOMAIN f : x # k => WithInserted(f, k, v)[x] = f[x]
  <1>1. PICK D, R : D = Nat /\ R = Record OBVIOUS
  <1>2. f \in Map(D, R) /\ k \in D /\ v \in R BY <1>1
  <1>3. WithInserted(f, k, v) \in Map(D, R)
    BY ONLY <1>2, Inserted
  <1> QED BY <1>1, <1>3 DEF WithInserted

LEMMA InsertedRoot ==
    ASSUME NEW f \in Map(Support, Nat), NEW k \in Support, NEW v \in Nat
    PROVE  /\ WithInserted(f, k, v) \in Map(Support, Nat)
           /\ DOMAIN WithInserted(f, k, v) = DOMAIN f \cup {k}
           /\ WithInserted(f, k, v)[k] = v
           /\ \A x \in DOMAIN f : x # k => WithInserted(f, k, v)[x] = f[x]
  <1>1. PICK D, R : D = Support /\ R = Nat OBVIOUS
  <1>2. f \in Map(D, R) /\ k \in D /\ v \in R BY <1>1
  <1>3. WithInserted(f, k, v) \in Map(D, R)
    BY ONLY <1>2, Inserted
  <1> QED BY <1>1, <1>3 DEF WithInserted

LEMMA InsertedCount ==
    ASSUME NEW f \in Map(Participant, Nat), NEW k \in Participant, NEW v \in Nat
    PROVE  /\ WithInserted(f, k, v) \in Map(Participant, Nat)
           /\ DOMAIN WithInserted(f, k, v) = DOMAIN f \cup {k}
           /\ WithInserted(f, k, v)[k] = v
           /\ \A x \in DOMAIN f : x # k => WithInserted(f, k, v)[x] = f[x]
  <1>1. PICK D, R : D = Participant /\ R = Nat OBVIOUS
  <1>2. f \in Map(D, R) /\ k \in D /\ v \in R BY <1>1
  <1>3. WithInserted(f, k, v) \in Map(D, R)
    BY ONLY <1>2, Inserted
  <1> QED BY <1>1, <1>3 DEF WithInserted

\* Removal of an entry.
LEMMA Removed ==
    ASSUME NEW D, NEW R, NEW f \in Map(D, R), NEW k
    PROVE  /\ WithoutKey(f, k) \in Map(D, R)
           /\ DOMAIN WithoutKey(f, k) = DOMAIN f \ {k}
           /\ \A x \in DOMAIN f \ {k} : WithoutKey(f, k)[x] = f[x]
  <1>1. WithoutKey(f, k) \in [DOMAIN f \ {k} -> R]
    BY MapFacts DEF WithoutKey
  <1>2. DOMAIN f \ {k} \subseteq D
    BY MapFacts
  <1> QED BY <1>1, <1>2, MapIntro DEF WithoutKey

\* The fields of a record of the ledger.
LEMMA Fields ==
    ASSUME NEW a, NEW b, NEW s, NEW c, NEW d
    PROVE  /\ Reference(a, b, s, c, d).parent = a
           /\ Reference(a, b, s, c, d).plan = b
           /\ Reference(a, b, s, c, d).support = s
           /\ Reference(a, b, s, c, d).active = c
           /\ Reference(a, b, s, c, d).child = d
  BY DEF Reference

LEMMA ReferenceTyped ==
    ASSUME NEW a \in Nat \cup {None}, NEW b \in PlanKey \cup {None},
           NEW s \in Support, NEW c \in BOOLEAN, NEW d \in Nat \cup {None}
    PROVE  Reference(a, b, s, c, d) \in Record
  BY DEF Reference, Record

\* A record is made of its fields; changes of it keep its type.
LEMMA RecordFacts ==
    ASSUME NEW r \in Record
    PROVE  /\ r = Reference(r.parent, r.plan, r.support, r.active, r.child)
           /\ r.parent \in Nat \cup {None} /\ r.plan \in PlanKey \cup {None}
           /\ r.support \in Support /\ r.active \in BOOLEAN
           /\ r.child \in Nat \cup {None}
  BY DEF Reference, Record

LEMMA Changed ==
    ASSUME NEW r \in Record
    PROVE  /\ Inactive(r) \in Record
           /\ WithoutChild(r) \in Record
           /\ Inactive(WithoutChild(r)) \in Record
  <1>1. /\ r.parent \in Nat \cup {None} /\ r.plan \in PlanKey \cup {None}
        /\ r.support \in Support /\ r.active \in BOOLEAN
        /\ r.child \in Nat \cup {None}
    BY RecordFacts
  <1>2. \A x \in Record : Inactive(x) \in Record
    BY RecordFacts, ReferenceTyped DEF Inactive
  <1>3. WithoutChild(r) \in Record
    BY <1>1, ReferenceTyped DEF WithoutChild
  <1> QED BY <1>2, <1>3

----------------------------------------------------------------------------
(* Births and borrows, as changes of the maps of a ledger                  *)

\* A root n and its first lease n + 1 for the owner s.
BornRefs(r, r2, n, s, plan) ==
    /\ DOMAIN r2 = DOMAIN r \cup {n, n + 1}
    /\ n \notin DOMAIN r /\ n + 1 \notin DOMAIN r
    /\ r2[n] = Reference(None, None, s, TRUE, n + 1)
    /\ r2[n + 1] = Reference(n, plan, s, TRUE, None)
    /\ \A i \in DOMAIN r : r2[i] = r[i]

\* A lease n borrowed from the usable reference i.
LentRefs(r, r2, n, i, plan) ==
    /\ DOMAIN r2 = DOMAIN r \cup {n}
    /\ n \notin DOMAIN r /\ i \in DOMAIN r /\ UsableIn(r, i)
    /\ r2[n] = Reference(i, plan, r[i].support, TRUE, None)
    /\ r2[i] = Reference(r[i].parent, r[i].plan, r[i].support, TRUE, n)
    /\ \A j \in DOMAIN r : j # i => r2[j] = r[j]

\* The lease i goes back to its parent.
BackRefs(r, r2, i, par) ==
    /\ DOMAIN r2 = DOMAIN r
    /\ i \in DOMAIN r /\ par \in DOMAIN r /\ i # par
    /\ UsableIn(r, i) /\ r[par].active
    /\ r[i].parent = par /\ r[par].child = i
    /\ r2[i] = Inactive(r[i])
    /\ \A j \in DOMAIN r : j # i /\ j # par => r2[j] = r[j]

LEMMA BirthSound ==
    ASSUME NEW r \in Map(Nat, Record), NEW r2 \in Map(Nat, Record), NEW o, NEW o2,
           NEW n \in Nat, NEW s, NEW plan, s \notin DOMAIN o,
           Chained(r), Leased(r, o), Rooted(r, o),
           BornRefs(r, r2, n, s, plan),
           DOMAIN o2 = DOMAIN o \cup {s}, o2[s] = n,
           \A x \in DOMAIN o : o2[x] = o[x]
    PROVE  Chained(r2) /\ Leased(r2, o2) /\ Rooted(r2, o2)
<1>1. /\ DOMAIN r2 = DOMAIN r \cup {n, n + 1}
      /\ n \notin DOMAIN r /\ n + 1 \notin DOMAIN r /\ n # n + 1
      /\ \A i \in DOMAIN r : r2[i] = r[i]
      /\ r2[n].parent = None /\ r2[n].plan = None /\ r2[n].support = s /\ r2[n].active /\ r2[n].child = n + 1
      /\ r2[n + 1].parent = n /\ r2[n + 1].support = s /\ r2[n + 1].active
      /\ r2[n + 1].child = None
  BY DEF BornRefs, Reference
<1>2. None # n /\ None # n + 1
  BY LocalReferenceAssumption
<1>3. Chained(r2)
  BY <1>1, <1>2 DEF Chained
<1>4. Leased(r2, o2)
  <2>1. \A i \in DOMAIN r2 : UsableIn(r2, i) => r2[i].support \in DOMAIN o2
    BY <1>1 DEF Leased, UsableIn
  <2>2. ASSUME NEW x \in DOMAIN o2
        PROVE  \E i \in DOMAIN r2 : \A j \in DOMAIN r2 :
                  (UsableIn(r2, j) /\ r2[j].support = x) <=> j = i
    <3>1. CASE x = s
      <4>1. \A j \in DOMAIN r2 : (UsableIn(r2, j) /\ r2[j].support = x) <=> j = n + 1
        BY <1>1, <1>2, <3>1 DEF Leased, UsableIn
      <4> QED BY <1>1, <4>1
    <3>2. CASE x # s
      <4>1. PICK i \in DOMAIN r : \A j \in DOMAIN r :
                    (UsableIn(r, j) /\ r[j].support = x) <=> j = i
        BY <3>2 DEF Leased
      <4>2. \A j \in DOMAIN r2 : (UsableIn(r2, j) /\ r2[j].support = x) <=> j = i
        BY <1>1, <1>2, <3>2, <4>1 DEF UsableIn
      <4> QED BY <1>1, <4>2
    <3> QED BY <3>1, <3>2
  <2> QED BY <2>1, <2>2 DEF Leased
<1>5. Rooted(r2, o2)
  BY <1>1 DEF Rooted
<1> QED BY <1>3, <1>4, <1>5

LEMMA BorrowSound ==
    ASSUME NEW r \in Map(Nat, Record), NEW r2 \in Map(Nat, Record), NEW o,
           NEW n \in Nat, NEW i, NEW plan,
           Chained(r), Leased(r, o), Rooted(r, o),
           LentRefs(r, r2, n, i, plan)
    PROVE  Chained(r2) /\ Leased(r2, o) /\ Rooted(r2, o)
<1>1. /\ DOMAIN r2 = DOMAIN r \cup {n}
      /\ n \notin DOMAIN r /\ i \in DOMAIN r /\ i # n
      /\ r[i].active /\ r[i].child = None
      /\ \A j \in DOMAIN r : j # i => r2[j] = r[j]
      /\ r2[n].parent = i /\ r2[n].support = r[i].support /\ r2[n].active
      /\ r2[n].child = None
      /\ r2[i].parent = r[i].parent /\ r2[i].plan = r[i].plan
      /\ r2[i].support = r[i].support /\ r2[i].active
      /\ r2[i].child = n
  BY DEF LentRefs, UsableIn, Reference
<1>2. None # n /\ i \in Nat /\ None # i
  BY <1>1, MapFacts, LocalReferenceAssumption
<1>3. Chained(r2)
  <2> SUFFICES ASSUME NEW j \in DOMAIN r2
               PROVE  /\ r2[j].parent # None =>
                            /\ r2[j].parent \in DOMAIN r2
                            /\ r2[r2[j].parent].support = r2[j].support
                      /\ r2[j].child # None =>
                            /\ r2[j].child \in DOMAIN r2
                            /\ r2[r2[j].child].parent = j
    BY DEF Chained
  <2>1. CASE j = n BY <1>1, <1>2, <2>1
  <2>2. CASE j = i BY <1>1, <1>2, <2>2 DEF Chained
  <2>3. CASE j # n /\ j # i BY <1>1, <1>2, <2>3 DEF Chained
  <2> QED BY <2>1, <2>2, <2>3
<1>4. Leased(r2, o)
  <2>1. \A j \in DOMAIN r2 : UsableIn(r2, j) => r2[j].support \in DOMAIN o
    BY <1>1, <1>2 DEF Leased, UsableIn
  <2>2. ASSUME NEW x \in DOMAIN o
        PROVE  \E k \in DOMAIN r2 : \A j \in DOMAIN r2 :
                  (UsableIn(r2, j) /\ r2[j].support = x) <=> j = k
    <3>1. PICK k \in DOMAIN r : \A j \in DOMAIN r :
                  (UsableIn(r, j) /\ r[j].support = x) <=> j = k
      BY DEF Leased
    <3>2. CASE x = r[i].support
      <4>1. i = k BY <1>1, <3>1, <3>2 DEF UsableIn
      <4>2. \A j \in DOMAIN r2 : (UsableIn(r2, j) /\ r2[j].support = x) <=> j = n
        BY <1>1, <1>2, <3>1, <3>2, <4>1 DEF UsableIn
      <4> QED BY <1>1, <4>2
    <3>3. CASE x # r[i].support
      <4>1. \A j \in DOMAIN r2 : (UsableIn(r2, j) /\ r2[j].support = x) <=> j = k
        BY <1>1, <1>2, <3>1, <3>3 DEF UsableIn
      <4> QED BY <1>1, <4>1
    <3> QED BY <3>2, <3>3
  <2> QED BY <2>1, <2>2 DEF Leased
<1>5. Rooted(r2, o)
  BY <1>1 DEF Rooted
<1> QED BY <1>3, <1>4, <1>5

----------------------------------------------------------------------------
(* Endings, as changes of the maps of a ledger                             *)

LEMMA BackSound ==
    ASSUME NEW r \in Map(Nat, Record), NEW r2 \in Map(Nat, Record), NEW o,
           NEW i, NEW par, r[i].support \in DOMAIN o, par # o[r[i].support],
           Chained(r), Leased(r, o), Rooted(r, o),
           BackRefs(r, r2, i, par), r2[par] = WithoutChild(r[par])
    PROVE  Chained(r2) /\ Leased(r2, o) /\ Rooted(r2, o)
<1>1. /\ DOMAIN r2 = DOMAIN r
      /\ i \in DOMAIN r /\ par \in DOMAIN r /\ i # par
      /\ r[i].active /\ r[i].child = None /\ r[i].parent = par
      /\ r[par].active /\ r[par].child = i
      /\ \A j \in DOMAIN r : j # i /\ j # par => r2[j] = r[j]
      /\ r2[i].parent = par /\ r2[i].support = r[i].support /\ ~r2[i].active
      /\ r2[i].child = None
      /\ r2[par].parent = r[par].parent /\ r2[par].plan = r[par].plan
      /\ r2[par].support = r[par].support
      /\ (r2[par].active <=> r[par].active) /\ r2[par].child = None
  BY DEF BackRefs, UsableIn, Inactive, WithoutChild, Reference
<1>2. par # None /\ r[par].support = r[i].support
  BY <1>1, MapFacts, LocalReferenceAssumption DEF Chained
<1>3. Chained(r2)
  <2> SUFFICES ASSUME NEW j \in DOMAIN r2
               PROVE  /\ r2[j].parent # None =>
                            /\ r2[j].parent \in DOMAIN r2
                            /\ r2[r2[j].parent].support = r2[j].support
                      /\ r2[j].child # None =>
                            /\ r2[j].child \in DOMAIN r2
                            /\ r2[r2[j].child].parent = j
    BY DEF Chained
  <2>1. \A k \in DOMAIN r : r2[k].parent = r[k].parent /\ r2[k].support = r[k].support
    BY <1>1
  <2>2. r2[j].child # None => r2[j].child = r[j].child
    BY <1>1
  <2> QED BY <1>1, <2>1, <2>2 DEF Chained
<1>4. Leased(r2, o)
  <2>1. \A j \in DOMAIN r2 : UsableIn(r2, j) => r2[j].support \in DOMAIN o
    BY <1>1, <1>2 DEF Leased, UsableIn
  <2>2. ASSUME NEW x \in DOMAIN o
        PROVE  \E k \in DOMAIN r2 : \A j \in DOMAIN r2 :
                  (UsableIn(r2, j) /\ r2[j].support = x) <=> j = k
    <3>1. PICK k \in DOMAIN r : \A j \in DOMAIN r :
                  (UsableIn(r, j) /\ r[j].support = x) <=> j = k
      BY DEF Leased
    <3>2. CASE x = r[i].support
      <4>1. i = k BY <1>1, <3>1, <3>2 DEF UsableIn
      <4>2. \A j \in DOMAIN r2 : (UsableIn(r2, j) /\ r2[j].support = x) <=> j = par
        BY <1>1, <1>2, <3>1, <3>2, <4>1 DEF UsableIn
      <4> QED BY <1>1, <4>2
    <3>3. CASE x # r[i].support
      <4>1. \A j \in DOMAIN r2 : (UsableIn(r2, j) /\ r2[j].support = x) <=> j = k
        BY <1>1, <1>2, <3>1, <3>3 DEF UsableIn
      <4> QED BY <1>1, <4>1
    <3> QED BY <3>2, <3>3
  <2> QED BY <2>1, <2>2 DEF Leased
<1>5. Rooted(r2, o)
  BY <1>1, <1>2 DEF Rooted
<1> QED BY <1>3, <1>4, <1>5

LEMMA RetireSound ==
    ASSUME NEW r \in Map(Nat, Record), NEW r2 \in Map(Nat, Record), NEW o, NEW o2,
           NEW i, NEW par, NEW s, s = r[i].support, s \in DOMAIN o, par = o[s],
           Chained(r), Leased(r, o), Rooted(r, o),
           BackRefs(r, r2, i, par), r2[par] = Inactive(WithoutChild(r[par])),
           DOMAIN o2 = DOMAIN o \ {s}, \A x \in DOMAIN o2 : o2[x] = o[x]
    PROVE  Chained(r2) /\ Leased(r2, o2) /\ Rooted(r2, o2)
<1>1. /\ DOMAIN r2 = DOMAIN r
      /\ i \in DOMAIN r /\ par \in DOMAIN r /\ i # par
      /\ r[i].active /\ r[i].child = None /\ r[i].parent = par
      /\ r[par].active /\ r[par].child = i
      /\ \A j \in DOMAIN r : j # i /\ j # par => r2[j] = r[j]
      /\ r2[i].parent = par /\ r2[i].support = r[i].support /\ ~r2[i].active
      /\ r2[i].child = None
      /\ r2[par].parent = r[par].parent /\ r2[par].plan = r[par].plan
      /\ r2[par].support = r[par].support
      /\ ~r2[par].active /\ r2[par].child = None
  BY DEF BackRefs, UsableIn, Inactive, WithoutChild, Reference
<1>2. par # None /\ r[par].support = r[i].support
  BY <1>1, MapFacts, LocalReferenceAssumption DEF Chained
<1>3. Chained(r2)
  <2> SUFFICES ASSUME NEW j \in DOMAIN r2
               PROVE  /\ r2[j].parent # None =>
                            /\ r2[j].parent \in DOMAIN r2
                            /\ r2[r2[j].parent].support = r2[j].support
                      /\ r2[j].child # None =>
                            /\ r2[j].child \in DOMAIN r2
                            /\ r2[r2[j].child].parent = j
    BY DEF Chained
  <2>1. \A k \in DOMAIN r : r2[k].parent = r[k].parent /\ r2[k].support = r[k].support
    BY <1>1
  <2>2. r2[j].child # None => r2[j].child = r[j].child
    BY <1>1
  <2> QED BY <1>1, <2>1, <2>2 DEF Chained
<1>4. PICK k \in DOMAIN r : \A j \in DOMAIN r :
              (UsableIn(r, j) /\ r[j].support = s) <=> j = k
  BY DEF Leased
<1>5. i = k BY <1>1, <1>4 DEF UsableIn
<1>6. Leased(r2, o2)
  <2>1. \A j \in DOMAIN r2 : UsableIn(r2, j) => r2[j].support \in DOMAIN o2
    BY <1>1, <1>2, <1>4, <1>5 DEF Leased, UsableIn
  <2>2. ASSUME NEW x \in DOMAIN o2
        PROVE  \E m \in DOMAIN r2 : \A j \in DOMAIN r2 :
                  (UsableIn(r2, j) /\ r2[j].support = x) <=> j = m
    <3>1. PICK m \in DOMAIN r : \A j \in DOMAIN r :
                  (UsableIn(r, j) /\ r[j].support = x) <=> j = m
      BY DEF Leased
    <3>2. \A j \in DOMAIN r2 : (UsableIn(r2, j) /\ r2[j].support = x) <=> j = m
      BY <1>1, <1>2, <3>1 DEF UsableIn
    <3> QED BY <1>1, <3>2
  <2> QED BY <2>1, <2>2 DEF Leased
<1>7. Rooted(r2, o2)
  <2>1. \A x \in DOMAIN o2 : o[x] # i /\ o[x] # par
    BY <1>1, <1>2 DEF Rooted
  <2> QED BY <1>1, <2>1 DEF Rooted
<1> QED BY <1>3, <1>6, <1>7

----------------------------------------------------------------------------
(* Holder counts and source plans                                          *)

LEMMA OwnedFinite ==
    ASSUME NEW o, IsFiniteSet(DOMAIN o), NEW p
    PROVE  /\ IsFiniteSet(OwnedBy(o, p))
           /\ Cardinality(OwnedBy(o, p)) \in Nat
           /\ Cardinality(OwnedBy(o, p)) = 0 <=> OwnedBy(o, p) = {}
  <1>1. OwnedBy(o, p) \subseteq DOMAIN o
    BY DEF OwnedBy
  <1>2. IsFiniteSet(OwnedBy(o, p))
    BY <1>1, FS_Subset
  <1> QED BY <1>2, FS_CardinalityType, FS_EmptySet

LEMMA BirthNumbered ==
    ASSUME NEW o, NEW o2, NEW h, NEW h2, Numbered(o, h), NEW s \in Support,
           s \notin DOMAIN o, DOMAIN o2 = DOMAIN o \cup {s},
           NEW p \in Participant, OwnerOf[s] = p,
           DOMAIN h2 = DOMAIN h \cup {p},
           h2[p] = IF p \in DOMAIN h THEN h[p] + 1 ELSE 1,
           \A x \in DOMAIN h : x # p => h2[x] = h[x]
    PROVE  Numbered(o2, h2)
<1>1. IsFiniteSet(DOMAIN o) /\ IsFiniteSet(DOMAIN o2)
  BY FS_AddElement DEF Numbered
<1>2. /\ OwnedBy(o2, p) = OwnedBy(o, p) \cup {s}
      /\ s \notin OwnedBy(o, p)
      /\ \A x \in Participant : x # p => OwnedBy(o2, x) = OwnedBy(o, x)
  BY DEF OwnedBy
<1>3. DOMAIN h2 = {x \in Participant : OwnedBy(o2, x) # {}}
  BY <1>2 DEF Numbered
<1>4. Cardinality(OwnedBy(o2, p)) = Cardinality(OwnedBy(o, p)) + 1
  <2>1. PICK X : X = OwnedBy(o, p) OBVIOUS
  <2>2. IsFiniteSet(X) BY <1>1, <2>1, OwnedFinite
  <2>3. Cardinality(X \cup {s}) = Cardinality(X) + 1
    BY <1>2, <2>1, <2>2, FS_AddElement
  <2> QED BY <1>2, <2>1, <2>3
<1>5. p \notin DOMAIN h => Cardinality(OwnedBy(o, p)) = 0
  BY <1>1, OwnedFinite DEF Numbered
<1>6. h2[p] = Cardinality(OwnedBy(o2, p))
  BY <1>4, <1>5 DEF Numbered
<1> QED BY <1>1, <1>2, <1>3, <1>6 DEF Numbered

LEMMA RetireNumbered ==
    ASSUME NEW o, NEW o2, NEW h, NEW h2, Numbered(o, h), NEW s \in Support,
           s \in DOMAIN o, DOMAIN o2 = DOMAIN o \ {s},
           NEW p \in Participant, OwnerOf[s] = p,
           DOMAIN h2 = IF h[p] = 1 THEN DOMAIN h \ {p} ELSE DOMAIN h,
           h[p] # 1 => h2[p] = h[p] - 1,
           \A x \in DOMAIN h : x # p => h2[x] = h[x]
    PROVE  Numbered(o2, h2)
<1>1. IsFiniteSet(DOMAIN o) /\ IsFiniteSet(DOMAIN o2)
  BY FS_RemoveElement DEF Numbered
<1>2. /\ OwnedBy(o2, p) = OwnedBy(o, p) \ {s}
      /\ s \in OwnedBy(o, p)
      /\ \A x \in Participant : x # p => OwnedBy(o2, x) = OwnedBy(o, x)
  BY DEF OwnedBy
<1>3. Cardinality(OwnedBy(o2, p)) = Cardinality(OwnedBy(o, p)) - 1
  <2>1. PICK X : X = OwnedBy(o, p) OBVIOUS
  <2>2. IsFiniteSet(X) BY <1>1, <2>1, OwnedFinite
  <2>3. Cardinality(X \ {s}) = Cardinality(X) - 1
    BY <1>2, <2>1, <2>2, FS_RemoveElement
  <2> QED BY <1>2, <2>1, <2>3
<1>4. p \in DOMAIN h /\ h[p] = Cardinality(OwnedBy(o, p))
  BY <1>2 DEF Numbered
<1>5. /\ Cardinality(OwnedBy(o, p)) \in Nat
      /\ Cardinality(OwnedBy(o2, p)) = 0 <=> OwnedBy(o2, p) = {}
  BY <1>1, OwnedFinite
<1>6. OwnedBy(o2, p) = {} <=> h[p] = 1
  BY <1>3, <1>4, <1>5
<1>7. DOMAIN h2 = {x \in Participant : OwnedBy(o2, x) # {}}
  BY <1>2, <1>4, <1>6 DEF Numbered
<1>8. ASSUME NEW x \in DOMAIN h2
      PROVE  h2[x] = Cardinality(OwnedBy(o2, x))
  <2>1. CASE x = p
    <3>1. h[p] # 1 BY <1>6, <1>7, <2>1
    <3> QED BY <1>3, <1>4, <2>1, <3>1
  <2>2. CASE x # p
    <3>1. x \in DOMAIN h /\ OwnedBy(o2, x) = OwnedBy(o, x) /\ h2[x] = h[x]
      BY <1>2, <1>7, <2>2 DEF Numbered
    <3> QED BY <3>1 DEF Numbered
  <2> QED BY <2>1, <2>2
<1> QED BY <1>1, <1>7, <1>8 DEF Numbered

\* New references A, of which only n has a source plan.
LEMMA PlannedGrows ==
    ASSUME NEW r, NEW r2, NEW q, NEW q2, Planned(r, q), NEW A, NEW n \in A,
           NEW p, NEW plan, A \cap DOMAIN r = {}, DOMAIN r2 = DOMAIN r \cup A,
           \A i \in DOMAIN r : /\ r2[i].active <=> r[i].active
                               /\ r2[i].plan = r[i].plan
                               /\ r2[i].support = r[i].support,
           \A i \in A : i # n => r2[i].plan = None,
           r2[n].active, r2[n].plan = plan, OwnerOf[r2[n].support] = p,
           plan = None => q2 = q,
           plan # None => /\ <<p, plan>> \notin DOMAIN q
                          /\ DOMAIN q2 = DOMAIN q \cup {<<p, plan>>}
                          /\ q2[<<p, plan>>] = n
                          /\ \A k \in DOMAIN q : q2[k] = q[k]
    PROVE  Planned(r2, q2)
<1>1. PICK key : key = <<p, plan>> OBVIOUS
<1>2. /\ \A i \in DOMAIN r : PlanOf(r2, i) = PlanOf(r, i) /\ (i \in Alive(r2) <=> i \in Alive(r))
      /\ PlanOf(r2, n) = key /\ n \in Alive(r2)
  <2>1. \A i \in DOMAIN r : i \in Alive(r2) <=> i \in Alive(r)
    BY DEF Alive
  <2>2. n \in Alive(r2) BY DEF Alive
  <2>3. \A i \in DOMAIN r : PlanOf(r2, i) = PlanOf(r, i)
    BY DEF PlanOf
  <2>4. PlanOf(r2, n) = key BY <1>1 DEF PlanOf
  <2> QED BY <2>1, <2>2, <2>3, <2>4
<1>3. /\ \A i \in Alive(r2) : i \in DOMAIN r \cup A
      /\ \A i \in Alive(r) : i \in DOMAIN r
  BY DEF Alive
<1>4. CASE plan = None
  <2>1. \A i \in A : r2[i].plan = None BY <1>4
  <2> QED BY <1>2, <1>3, <1>4, <2>1 DEF Planned
<1>5. CASE plan # None
  <2>1. /\ key \notin DOMAIN q /\ DOMAIN q2 = DOMAIN q \cup {key}
        /\ q2[key] = n /\ \A k \in DOMAIN q : q2[k] = q[k]
    BY <1>1, <1>5
  <2>2. \A k \in DOMAIN q2 : /\ q2[k] \in Alive(r2)
                             /\ r2[q2[k]].plan # None /\ k = PlanOf(r2, q2[k])
    BY <1>2, <1>3, <1>5, <2>1 DEF Planned
  <2>3. ASSUME NEW i \in Alive(r2), r2[i].plan # None
        PROVE  PlanOf(r2, i) \in DOMAIN q2 /\ q2[PlanOf(r2, i)] = i
    <3>1. CASE i \in DOMAIN r BY <1>2, <1>3, <2>1, <2>3, <3>1 DEF Planned
    <3>2. CASE i \in A BY <1>2, <2>1, <2>3, <3>2
    <3> QED BY <1>3, <3>1, <3>2
  <2> QED BY <2>2, <2>3 DEF Planned
<1> QED BY <1>4, <1>5

\* The references E end, of which only i has a source plan.
LEMMA PlannedShrinks ==
    ASSUME NEW r, NEW r2, NEW q, NEW q2, Planned(r, q), NEW E, NEW i \in E,
           i \in Alive(r), DOMAIN r2 = DOMAIN r,
           \A j \in DOMAIN r : /\ r2[j].active <=> (r[j].active /\ j \notin E)
                               /\ r2[j].plan = r[j].plan
                               /\ r2[j].support = r[j].support,
           \A j \in E : j # i => r[j].plan = None,
           r[i].plan = None => q2 = q,
           r[i].plan # None => /\ DOMAIN q2 = DOMAIN q \ {PlanOf(r, i)}
                               /\ \A k \in DOMAIN q2 : q2[k] = q[k]
    PROVE  Planned(r2, q2)
<1>1. /\ \A j \in DOMAIN r : /\ PlanOf(r2, j) = PlanOf(r, j)
                             /\ j \in Alive(r2) <=> j \in Alive(r) /\ j \notin E
      /\ \A j \in Alive(r2) : j \in DOMAIN r
      /\ \A j \in Alive(r) : j \in DOMAIN r
  BY DEF PlanOf, Alive
<1>2. CASE r[i].plan = None
  <2>1. \A j \in E : r[j].plan = None BY <1>2
  <2> QED BY <1>1, <1>2, <2>1 DEF Planned
<1>3. CASE r[i].plan # None
  <2>1. PICK key : key = PlanOf(r, i) OBVIOUS
  <2>2. /\ DOMAIN q2 = DOMAIN q \ {key} /\ \A k \in DOMAIN q2 : q2[k] = q[k]
        /\ key \in DOMAIN q /\ q[key] = i
    BY <1>3, <2>1 DEF Planned
  <2>3. ASSUME NEW k \in DOMAIN q2
        PROVE  /\ q2[k] \in Alive(r2)
               /\ r2[q2[k]].plan # None /\ k = PlanOf(r2, q2[k])
    <3>1. /\ q[k] \in Alive(r) /\ r[q[k]].plan # None /\ k = PlanOf(r, q[k])
          /\ q2[k] = q[k] /\ k # key
      BY <2>2, <2>3 DEF Planned
    <3>2. q[k] # i BY <2>1, <3>1
    <3> QED BY <1>1, <3>1, <3>2
  <2>4. ASSUME NEW j \in Alive(r2), r2[j].plan # None
        PROVE  PlanOf(r2, j) \in DOMAIN q2 /\ q2[PlanOf(r2, j)] = j
    <3>1. /\ j \in Alive(r) /\ j # i /\ r[j].plan # None
          /\ PlanOf(r2, j) = PlanOf(r, j)
      BY <1>1, <2>4
    <3>2. PlanOf(r, j) \in DOMAIN q /\ q[PlanOf(r, j)] = j
      BY <3>1 DEF Planned
    <3> QED BY <2>2, <3>1, <3>2
  <2> QED BY <2>3, <2>4 DEF Planned
<1> QED BY <1>2, <1>3

----------------------------------------------------------------------------
(* The innermost frame follows the ledger                                  *)

LEMMA FrameFacts ==
    ASSUME NEW F \in FrameType
    PROVE  /\ F.holder \in Participant /\ F.key \in ScopeKey
           /\ F.issued \in SUBSET Nat /\ F.active \in Nat
           /\ F.restored \in SUBSET Support /\ F.base \in LedgerType
           /\ F.base.refs \in Map(Nat, Record) /\ F.base.roots \in Map(Support, Nat)
           /\ F.base.holders \in Map(Participant, Nat)
           /\ F.base.sources \in Map(Participant \X PlanKey, Nat)
           /\ F.base.rest \in Nat
  BY DEF FrameType, LedgerType

\* What the proofs below use of Advanced.
Follows(F, G, ids, n) ==
    /\ G.issued = F.issued \cup ids
    /\ G.active = F.active + n
    /\ G.base = F.base

LEMMA AdvancedTyped ==
    ASSUME NEW F \in FrameType, NEW ids \in SUBSET Nat, NEW n \in Int,
           F.active + n \in Nat, NEW back \in SUBSET Support
    PROVE  Advanced(F, ids, n, back) \in FrameType
  <1>1. /\ F.holder \in Participant /\ F.key \in ScopeKey
        /\ F.issued \cup ids \in SUBSET Nat
        /\ F.restored \cup back \in SUBSET Support /\ F.base \in LedgerType
    BY FrameFacts
  <1> QED BY <1>1 DEF Advanced, FrameType

\* The active references X of the scope and new ones.
LEMMA ActiveGrows ==
    ASSUME NEW I, NEW X, NEW A, IsFiniteSet(I), IsFiniteSet(A),
           I \cap A = {}, X \subseteq I
    PROVE  /\ IsFiniteSet(I \cup A)
           /\ Cardinality(X \cup A) = Cardinality(X) + Cardinality(A)
<1>1. IsFiniteSet(X) BY FS_Subset
<1>2. Cardinality(X \cup A) = Cardinality(X) + Cardinality(A) - Cardinality(X \cap A)
  BY <1>1, FS_Union
<1>3. Cardinality(X \cap A) = 0
  <2>1. X \cap A = {} OBVIOUS
  <2> QED BY <2>1, FS_EmptySet
<1>4. Cardinality(X) \in Nat /\ Cardinality(A) \in Nat
  BY <1>1, FS_CardinalityType
<1>5. IsFiniteSet(I \cup A) BY FS_Union
<1> QED BY <1>2, <1>3, <1>4, <1>5

\* Active references of the scope end.
LEMMA ActiveShrinks ==
    ASSUME NEW F, NEW G, NEW r, NEW r2, NEW E, IsFiniteSet(F.issued),
           E \subseteq ActiveIn(F, r), G.issued = F.issued,
           \A i \in F.issued : r2[i].active <=> (r[i].active /\ i \notin E)
    PROVE  /\ IsFiniteSet(E)
           /\ Cardinality(ActiveIn(G, r2)) = Cardinality(ActiveIn(F, r)) - Cardinality(E)
<1>1. PICK X : X = ActiveIn(F, r) OBVIOUS
<1>2. X \subseteq F.issued /\ E \subseteq X BY <1>1 DEF ActiveIn
<1>3. IsFiniteSet(X) /\ IsFiniteSet(E) BY <1>2, FS_Subset
<1>4. ActiveIn(G, r2) = X \ E BY <1>1 DEF ActiveIn
<1>5. Cardinality(X \ E) = Cardinality(X) - Cardinality(X \cap E)
  BY <1>3, FS_Difference
<1>6. X \cap E = E BY <1>2
<1> QED BY <1>1, <1>3, <1>4, <1>5, <1>6

LEMMA BirthWithin ==
    ASSUME NEW r \in Map(Nat, Record), NEW r2 \in Map(Nat, Record), NEW o, NEW o2, NEW t,
           NEW F \in FrameType, NEW n \in Nat, NEW s, NEW plan, s \notin DOMAIN o,
           BornRefs(r, r2, n, s, plan), Within(F, r, o, t),
           DOMAIN o2 = DOMAIN o \cup {s}, o2[s] = n,
           \A x \in DOMAIN o : o2[x] = o[x],
           NEW G, Follows(F, G, {n, n + 1}, Cardinality({n, n + 1}))
    PROVE  Within(G, r2, o2, t)
<1>1. PICK A : A = {n, n + 1} OBVIOUS
<1>2. IsFiniteSet(A) /\ Cardinality(A) \in Nat
  <2>1. IsFiniteSet({n} \cup {n + 1}) BY FS_EmptySet, FS_AddElement, FS_Singleton
  <2>2. A = {n} \cup {n + 1} BY <1>1
  <2> QED BY <2>1, <2>2, FS_CardinalityType
<1>3. Follows(F, G, A, Cardinality(A)) BY <1>1
<1>4. /\ G.issued = F.issued \cup A /\ G.active = F.active + Cardinality(A)
      /\ G.base = F.base
  BY <1>3 DEF Follows
<1>5. /\ DOMAIN r2 = DOMAIN r \cup A /\ DOMAIN r \cap A = {}
      /\ \A i \in DOMAIN r : r2[i] = r[i]
      /\ \A i \in A : r2[i].active
  <2>1. r2[n].active /\ r2[n + 1].active
    BY DEF BornRefs, Reference
  <2>2. \A i \in A : r2[i].active
    BY <1>1, <2>1
  <2> QED BY <1>1, <2>2 DEF BornRefs
<1>6. /\ DOMAIN r = DOMAIN F.base.refs \cup F.issued
      /\ DOMAIN F.base.refs \cap F.issued = {} /\ IsFiniteSet(F.issued)
      /\ F.active = Cardinality(ActiveIn(F, r))
  BY DEF Within
<1>7. /\ DOMAIN r2 = DOMAIN G.base.refs \cup G.issued
      /\ DOMAIN G.base.refs \cap G.issued = {}
  BY <1>4, <1>5, <1>6
<1>8. /\ IsFiniteSet(G.issued)
      /\ Cardinality(ActiveIn(G, r2)) = Cardinality(ActiveIn(F, r)) + Cardinality(A)
  <2>1. IsFiniteSet(A) /\ F.issued \cap A = {} /\ G.issued = F.issued \cup A
    BY <1>2, <1>4, <1>5, <1>6
  <2>2. \A i \in F.issued : r2[i].active <=> r[i].active
    BY <1>5, <1>6
  <2>3. ActiveIn(G, r2) = ActiveIn(F, r) \cup A
    BY <1>5, <2>1, <2>2 DEF ActiveIn
  <2>5. PICK I, X : I = F.issued /\ X = ActiveIn(F, r) OBVIOUS
  <2>6. X \subseteq I BY <2>5 DEF ActiveIn
  <2>8. IsFiniteSet(I) /\ IsFiniteSet(A) /\ I \cap A = {}
    BY <1>6, <2>1, <2>5
  <2>7. /\ IsFiniteSet(I \cup A)
        /\ Cardinality(X \cup A) = Cardinality(X) + Cardinality(A)
    BY ONLY <2>6, <2>8, ActiveGrows
  <2> QED BY <2>1, <2>3, <2>5, <2>7
<1>9. Kept(G, r2)
  BY <1>4, <1>5, <1>6 DEF Within, Kept
<1>10. /\ \A x \in DOMAIN G.base.roots : x \in DOMAIN o2 /\ o2[x] = G.base.roots[x]
       /\ \A x \in DOMAIN o2 : x \notin DOMAIN G.base.roots => o2[x] \in G.issued
  BY <1>1, <1>4 DEF Within
<1>11. Within(G, r2, o2, t)
  BY <1>4, <1>6, <1>7, <1>8, <1>9, <1>10 DEF Within
<1> QED BY <1>11

LEMMA BorrowWithin ==
    ASSUME NEW r \in Map(Nat, Record), NEW r2 \in Map(Nat, Record), NEW o, NEW t,
           NEW F \in FrameType, NEW n \in Nat, NEW i, NEW plan,
           LentRefs(r, r2, n, i, plan), Within(F, r, o, t),
           NEW G, Follows(F, G, {n}, Cardinality({n}))
    PROVE  Within(G, r2, o, t)
<1>1. PICK A : A = {n} OBVIOUS
<1>2. IsFiniteSet(A) /\ Cardinality(A) \in Nat
  <2>1. IsFiniteSet({n}) /\ Cardinality({n}) = 1
    BY FS_Singleton
  <2> QED BY <1>1, <2>1
<1>3. Follows(F, G, A, Cardinality(A)) BY <1>1
<1>4. /\ G.issued = F.issued \cup A /\ G.active = F.active + Cardinality(A)
      /\ G.base = F.base
  BY <1>3 DEF Follows
<1>5. /\ DOMAIN r2 = DOMAIN r \cup A /\ n \notin DOMAIN r /\ n \in A
      /\ i \in DOMAIN r /\ r[i].active /\ r[i].child = None
      /\ \A j \in DOMAIN r : j # i => r2[j] = r[j]
      /\ r2[i].active /\ r2[n].active /\ r2[i].child = n
  BY <1>1 DEF LentRefs, UsableIn, Reference
<1>6. /\ DOMAIN r = DOMAIN F.base.refs \cup F.issued
      /\ DOMAIN F.base.refs \cap F.issued = {} /\ IsFiniteSet(F.issued)
      /\ F.active = Cardinality(ActiveIn(F, r))
  BY DEF Within
<1>7. /\ DOMAIN r2 = DOMAIN G.base.refs \cup G.issued
      /\ DOMAIN G.base.refs \cap G.issued = {} /\ F.issued \cap A = {}
  BY <1>1, <1>4, <1>5, <1>6
<1>8. /\ IsFiniteSet(G.issued)
      /\ Cardinality(ActiveIn(G, r2)) = Cardinality(ActiveIn(F, r)) + Cardinality(A)
  <2>1. \A j \in F.issued : r2[j].active <=> r[j].active
    BY <1>5, <1>6
  <2>2. \A j \in A : r2[j].active BY <1>1, <1>5
  <2>3. /\ IsFiniteSet(A) /\ F.issued \cap A = {} /\ G.issued = F.issued \cup A
        /\ IsFiniteSet(F.issued)
    BY <1>2, <1>4, <1>6, <1>7
  <2>4. ActiveIn(G, r2) = ActiveIn(F, r) \cup A
    BY <2>1, <2>2, <2>3 DEF ActiveIn
  <2>5. PICK I, X : I = F.issued /\ X = ActiveIn(F, r) OBVIOUS
  <2>6. X \subseteq I BY <2>5 DEF ActiveIn
  <2>8. IsFiniteSet(I) /\ IsFiniteSet(A) /\ I \cap A = {}
    BY <1>6, <2>3, <2>5
  <2>7. /\ IsFiniteSet(I \cup A)
        /\ Cardinality(X \cup A) = Cardinality(X) + Cardinality(A)
    BY ONLY <2>6, <2>8, ActiveGrows
  <2> QED BY <2>3, <2>4, <2>5, <2>7
<1>9. Kept(G, r2)
  <2> SUFFICES ASSUME NEW j \in DOMAIN F.base.refs
               PROVE  \/ r2[j] = F.base.refs[j]
                      \/ /\ r2[j].child \in G.issued /\ r2[r2[j].child].active
                         /\ F.base.refs[j] = WithoutChild(r2[j])
    BY <1>4 DEF Kept
  <2>1. \/ r[j] = F.base.refs[j]
        \/ /\ r[j].child \in F.issued /\ r[r[j].child].active
           /\ F.base.refs[j] = WithoutChild(r[j])
    BY DEF Within, Kept
  <2>2. CASE j # i
    <3>1. r2[j] = r[j] BY <1>5, <1>6, <2>2
    <3>2. r[j].child \in F.issued /\ r[r[j].child].active => r2[r[j].child].active
      BY <1>5, <1>6
    <3> QED BY <1>4, <2>1, <3>1, <3>2
  <2>3. CASE j = i
    <3>1. None \notin F.issued BY FrameFacts, LocalReferenceAssumption
    <3>2. r[i] = F.base.refs[i] BY <1>5, <2>1, <2>3, <3>1
    <3>3. r[i] \in Record BY <1>5, MapFacts
    <3>4. r[i].active = TRUE BY <1>5, <3>3, RecordFacts
    <3>5. r[i] = Reference(r[i].parent, r[i].plan, r[i].support, TRUE, None)
      BY <1>5, <3>3, <3>4, RecordFacts
    <3>6. WithoutChild(r2[i]) = Reference(r[i].parent, r[i].plan, r[i].support, TRUE, None)
      <4>1. r2[i] = Reference(r[i].parent, r[i].plan, r[i].support, TRUE, n)
        BY DEF LentRefs
      <4> QED BY <4>1 DEF WithoutChild, Reference
    <3> QED BY <1>4, <1>5, <2>3, <3>2, <3>5, <3>6
  <2> QED BY <2>2, <2>3
<1>10. /\ \A x \in DOMAIN G.base.roots : x \in DOMAIN o /\ o[x] = G.base.roots[x]
       /\ \A x \in DOMAIN o : x \notin DOMAIN G.base.roots => o[x] \in G.issued
  BY <1>4 DEF Within
<1>11. Within(G, r2, o, t)
  BY <1>4, <1>6, <1>7, <1>8, <1>9, <1>10 DEF Within
<1> QED BY <1>11

LEMMA BackWithin ==
    ASSUME NEW r \in Map(Nat, Record), NEW r2 \in Map(Nat, Record), NEW o, NEW t,
           NEW F \in FrameType, NEW i, NEW par, Chained(r), Chained(F.base.refs),
           BackRefs(r, r2, i, par), r2[par] = WithoutChild(r[par]),
           Within(F, r, o, t), {i} \subseteq F.issued,
           NEW G, Follows(F, G, {}, -Cardinality({i}))
    PROVE  Within(G, r2, o, t)
<1>1. PICK E : E = {i} OBVIOUS
<1>11. PICK m : m = -Cardinality(E) OBVIOUS
<1>2. Follows(F, G, {}, m) BY <1>1, <1>11
<1>3. /\ G.issued = F.issued /\ G.active = F.active + m
      /\ G.base = F.base
  BY <1>2 DEF Follows
<1>4. /\ DOMAIN r2 = DOMAIN r
      /\ i \in DOMAIN r /\ par \in DOMAIN r /\ i # par
      /\ r[i].active /\ r[i].parent = par /\ r[par].active /\ r[par].child = i
      /\ \A j \in DOMAIN r : j # i /\ j # par => r2[j] = r[j]
      /\ ~r2[i].active /\ (r2[par].active <=> r[par].active)
  BY DEF BackRefs, UsableIn, Inactive, WithoutChild, Reference
<1>5. /\ DOMAIN r = DOMAIN F.base.refs \cup F.issued
      /\ DOMAIN F.base.refs \cap F.issued = {} /\ IsFiniteSet(F.issued)
      /\ F.active = Cardinality(ActiveIn(F, r))
  BY DEF Within
<1>6. /\ IsFiniteSet(E)
      /\ Cardinality(ActiveIn(G, r2)) = Cardinality(ActiveIn(F, r)) - Cardinality(E)
  <2>1. E \subseteq ActiveIn(F, r) BY <1>1, <1>4 DEF ActiveIn
  <2>2. \A j \in F.issued : r2[j].active <=> (r[j].active /\ j \notin E)
    BY <1>1, <1>4, <1>5
  <2> QED BY <1>3, <1>5, <2>1, <2>2, ActiveShrinks
<1>7. Cardinality(E) \in Nat /\ F.active \in Nat
  BY <1>6, FS_CardinalityType, FrameFacts
<1>8. Kept(G, r2)
  <2> SUFFICES ASSUME NEW j \in DOMAIN F.base.refs
               PROVE  \/ r2[j] = F.base.refs[j]
                      \/ /\ r2[j].child \in F.issued /\ r2[r2[j].child].active
                         /\ F.base.refs[j] = WithoutChild(r2[j])
    BY <1>3 DEF Kept
  <2>1. \/ r[j] = F.base.refs[j]
        \/ /\ r[j].child \in F.issued /\ r[r[j].child].active
           /\ F.base.refs[j] = WithoutChild(r[j])
    BY DEF Within, Kept
  <2>2. j # i /\ j \in DOMAIN r BY <1>5
  <2>3. CASE j # par
    <3>1. r2[j] = r[j] BY <1>4, <2>2, <2>3
    <3>2. CASE r[j] = F.base.refs[j] BY <3>1, <3>2
    <3>3. CASE r[j] # F.base.refs[j]
      <4>1. /\ r[j].child \in F.issued /\ r[r[j].child].active
            /\ F.base.refs[j] = WithoutChild(r[j])
        BY <2>1, <3>3
      <4>2. r[j].child # i
        <5>1. r[j].child # None
          BY <4>1, FrameFacts, LocalReferenceAssumption
        <5>2. r[r[j].child].parent = j BY <2>2, <5>1 DEF Chained
        <5> QED BY <1>4, <2>3, <5>2
      <4>3. r2[r[j].child].active BY <1>4, <1>5, <4>1, <4>2
      <4> QED BY <3>1, <4>1, <4>3
    <3> QED BY <3>2, <3>3
  <2>4. CASE j = par
    <3>1. r[j] # F.base.refs[j]
      <4>1. i # None BY FrameFacts, LocalReferenceAssumption
      <4>2. F.base.refs[j].child # None => F.base.refs[j].child \in DOMAIN F.base.refs
        BY DEF Chained
      <4> QED BY <1>4, <1>5, <2>4, <4>1, <4>2
    <3> QED BY <2>1, <2>4, <3>1
  <2> QED BY <2>3, <2>4
<1>9. /\ \A x \in DOMAIN G.base.roots : x \in DOMAIN o /\ o[x] = G.base.roots[x]
      /\ \A x \in DOMAIN o : x \notin DOMAIN G.base.roots => o[x] \in G.issued
  BY <1>3 DEF Within
<1>10. Within(G, r2, o, t)
  <2>1. G.active = Cardinality(ActiveIn(G, r2))
    BY <1>3, <1>5, <1>6, <1>7, <1>11
  <2> QED BY <1>3, <1>4, <1>5, <1>8, <1>9, <2>1 DEF Within
<1> QED BY <1>10

LEMMA RetireWithin ==
    ASSUME NEW r \in Map(Nat, Record), NEW r2 \in Map(Nat, Record), NEW o, NEW o2, NEW t,
           NEW F \in FrameType, NEW i, NEW par, NEW s,
           s = r[i].support, s \in DOMAIN o, par = o[s],
           Chained(r), Rooted(r, o), Rooted(F.base.refs, F.base.roots),
           BackRefs(r, r2, i, par), r2[par] = Inactive(WithoutChild(r[par])),
           DOMAIN o2 = DOMAIN o \ {s}, \A x \in DOMAIN o2 : o2[x] = o[x],
           Within(F, r, o, t), {i, par} \subseteq F.issued,
           NEW G, Follows(F, G, {}, -Cardinality({i, par}))
    PROVE  Within(G, r2, o2, t)
<1>1. PICK E : E = {i, par} OBVIOUS
<1>11. PICK m : m = -Cardinality(E) OBVIOUS
<1>2. Follows(F, G, {}, m) BY <1>1, <1>11
<1>3. /\ G.issued = F.issued /\ G.active = F.active + m
      /\ G.base = F.base
  BY <1>2 DEF Follows
<1>4. /\ DOMAIN r2 = DOMAIN r
      /\ i \in DOMAIN r /\ par \in DOMAIN r /\ i # par
      /\ r[i].active /\ r[i].parent = par /\ r[par].active /\ r[par].child = i
      /\ \A j \in DOMAIN r : j # i /\ j # par => r2[j] = r[j]
      /\ ~r2[i].active /\ ~r2[par].active
  BY DEF BackRefs, UsableIn, Inactive, WithoutChild, Reference
<1>5. /\ DOMAIN r = DOMAIN F.base.refs \cup F.issued
      /\ DOMAIN F.base.refs \cap F.issued = {} /\ IsFiniteSet(F.issued)
      /\ F.active = Cardinality(ActiveIn(F, r))
  BY DEF Within
<1>6. /\ IsFiniteSet(E)
      /\ Cardinality(ActiveIn(G, r2)) = Cardinality(ActiveIn(F, r)) - Cardinality(E)
  <2>1. E \subseteq ActiveIn(F, r) BY <1>1, <1>4 DEF ActiveIn
  <2>2. \A j \in F.issued : r2[j].active <=> (r[j].active /\ j \notin E)
    BY <1>1, <1>4, <1>5
  <2> QED BY <1>3, <1>5, <2>1, <2>2, ActiveShrinks
<1>7. Cardinality(E) \in Nat /\ F.active \in Nat
  BY <1>6, FS_CardinalityType, FrameFacts
<1>8. Kept(G, r2)
  <2> SUFFICES ASSUME NEW j \in DOMAIN F.base.refs
               PROVE  \/ r2[j] = F.base.refs[j]
                      \/ /\ r2[j].child \in F.issued /\ r2[r2[j].child].active
                         /\ F.base.refs[j] = WithoutChild(r2[j])
    BY <1>3 DEF Kept
  <2>1. \/ r[j] = F.base.refs[j]
        \/ /\ r[j].child \in F.issued /\ r[r[j].child].active
           /\ F.base.refs[j] = WithoutChild(r[j])
    BY DEF Within, Kept
  <2>2. j # i /\ j # par /\ j \in DOMAIN r BY <1>5
  <2>3. r2[j] = r[j] BY <1>4, <2>2
  <2>4. CASE r[j] = F.base.refs[j] BY <2>3, <2>4
  <2>5. CASE r[j] # F.base.refs[j]
    <3>1. /\ r[j].child \in F.issued /\ r[r[j].child].active
          /\ F.base.refs[j] = WithoutChild(r[j])
      BY <2>1, <2>5
    <3>2. r[j].child # None
      BY <3>1, FrameFacts, LocalReferenceAssumption
    <3>3. r[r[j].child].parent = j /\ j # None
      BY <2>2, <3>2, MapFacts, LocalReferenceAssumption DEF Chained
    <3>4. r[j].child # i BY <1>4, <2>2, <3>3
    <3>5. r[j].child # par BY <3>3 DEF Rooted
    <3>6. r2[r[j].child].active BY <1>4, <1>5, <3>1, <3>4, <3>5
    <3> QED BY <2>3, <3>1, <3>6
  <2> QED BY <2>4, <2>5
<1>9. /\ \A x \in DOMAIN G.base.roots : x \in DOMAIN o2 /\ o2[x] = G.base.roots[x]
      /\ \A x \in DOMAIN o2 : x \notin DOMAIN G.base.roots => o2[x] \in G.issued
  <2>1. s \notin DOMAIN F.base.roots
    BY <1>5 DEF Within, Rooted
  <2> QED BY <1>3, <2>1 DEF Within
<1>10. Within(G, r2, o2, t)
  <2>1. G.active = Cardinality(ActiveIn(G, r2))
    BY <1>3, <1>5, <1>6, <1>7, <1>11
  <2> QED BY <1>3, <1>4, <1>5, <1>8, <1>9, <2>1 DEF Within
<1> QED BY <1>10

----------------------------------------------------------------------------
(* Steps of the stack of frames                                            *)

\* The ledgers the frames remember are the same.
BasesKept ==
    /\ Len(frames') = Len(frames)
    /\ \A k \in 1 .. Len(frames) : frames'[k].base = frames[k].base

LEMMA TopFacts ==
    ASSUME Typed, frames # <<>>
    PROVE  /\ Len(frames) \in Nat /\ Len(frames) >= 1
           /\ Top = frames[Len(frames)] /\ Top \in FrameType
  BY DEF Typed, Top

\* A step of the ledger that the innermost frame follows.
LEMMA FramesFollow ==
    ASSUME Typed, Nested, NEW G,
           \/ frames = <<>> /\ frames' = frames
           \/ /\ frames # <<>> /\ G \in FrameType /\ G.base = Top.base
              /\ frames' = WithTop(G) /\ Within(G, refs', roots', rest')
    PROVE  frames' \in Seq(FrameType) /\ Nested' /\ TopWithin' /\ BasesKept
<1>1. CASE frames = <<>> /\ frames' = frames
  <2>1. Nested' /\ TopWithin'
    BY <1>1 DEF Nested, TopWithin, SoundBase
  <2> QED BY <1>1, <2>1 DEF Typed, BasesKept
<1>2. CASE /\ frames # <<>> /\ G \in FrameType /\ G.base = Top.base
           /\ frames' = WithTop(G) /\ Within(G, refs', roots', rest')
  <2>1. /\ frames' \in Seq(FrameType) /\ frames' # <<>>
        /\ Len(frames') = Len(frames) /\ Len(frames) \in Nat
        /\ frames'[Len(frames)] = G
        /\ \A k \in 1 .. Len(frames) : k # Len(frames) => frames'[k] = frames[k]
    BY <1>2, TopFacts DEF WithTop, Typed
  <2>2. BasesKept
    BY <1>2, <2>1, TopFacts DEF BasesKept
  <2>3. Nested'
    <3> SUFFICES ASSUME NEW k \in 1 .. Len(frames)
                 PROVE  /\ SoundBase(frames'[k])
                        /\ k + 1 \in 1 .. Len(frames) =>
                              Within(frames'[k], frames'[k + 1].base.refs,
                                     frames'[k + 1].base.roots, frames'[k + 1].base.rest)
      BY <2>1 DEF Nested, SoundBase
    <3>1. SoundBase(frames'[k])
      BY <2>2 DEF Nested, SoundBase, BasesKept
    <3>2. ASSUME k + 1 \in 1 .. Len(frames)
          PROVE  Within(frames'[k], frames'[k + 1].base.refs,
                        frames'[k + 1].base.roots, frames'[k + 1].base.rest)
      <4>1. frames'[k] = frames[k] /\ frames'[k + 1].base = frames[k + 1].base
        BY <2>1, <2>2, <3>2 DEF BasesKept
      <4> QED BY <3>2, <4>1 DEF Nested
    <3> QED BY <3>1, <3>2
  <2>4. TopWithin'
    BY <1>2, <2>1 DEF TopWithin, Top
  <2> QED BY <2>1, <2>2, <2>3, <2>4
<1> QED BY <1>1, <1>2

\* Identities of remembered ledgers stay below the counter.
LEMMA IssuedFollows ==
    ASSUME Typed, Issued, BasesKept, nextRef' \in Nat, nextRef <= nextRef',
           \A i \in DOMAIN refs' \cup ended' : i \in DOMAIN refs \cup ended \/ i < nextRef'
    PROVE  Issued'
<1>1. /\ \A i \in DOMAIN refs \cup ended : i \in Nat
      /\ \A k \in 1 .. Len(frames) : \A i \in DOMAIN frames[k].base.refs : i \in Nat
  <2>1. ASSUME NEW k \in 1 .. Len(frames)
        PROVE  \A i \in DOMAIN frames[k].base.refs : i \in Nat
    <3>1. frames[k] \in FrameType BY DEF Typed
    <3>2. frames[k].base.refs \in Map(Nat, Record) BY <3>1, FrameFacts
    <3> QED BY <3>2, MapFacts
  <2> QED BY <2>1, MapFacts DEF Typed
<1>2. \A i \in DOMAIN refs' \cup ended' : i < nextRef'
  BY <1>1 DEF Issued, Typed
<1>3. \A k \in 1 .. Len(frames') : \A i \in DOMAIN frames'[k].base.refs : i < nextRef'
  BY <1>1 DEF Issued, Typed, BasesKept
<1> QED BY <1>2, <1>3 DEF Issued

----------------------------------------------------------------------------
(* Births and borrows keep the invariant                                   *)

LEMMA SourceAdded ==
    ASSUME Typed, NEW p \in Participant, NEW plan \in PlanKey \cup {None},
           NEW n \in Nat, SourceFree(p, plan), sources' = WithSource(p, plan, n)
    PROVE  /\ sources' \in Map(Participant \X PlanKey, Nat)
           /\ plan = None => sources' = sources
           /\ plan # None => /\ <<p, plan>> \notin DOMAIN sources
                             /\ DOMAIN sources' = DOMAIN sources \cup {<<p, plan>>}
                             /\ sources'[<<p, plan>>] = n
                             /\ \A k \in DOMAIN sources : sources'[k] = sources[k]
<1>1. CASE plan = None BY <1>1 DEF WithSource, Typed
<1>2. CASE plan # None
  <2>1. PICK key : key = <<p, plan>> OBVIOUS
  <2>2. key \in Participant \X PlanKey BY <1>2, <2>1
  <2>3. sources' = WithInserted(sources, key, n) /\ key \notin DOMAIN sources
    BY <1>2, <2>1 DEF WithSource, SourceFree
  <2>4. /\ sources' \in Map(Participant \X PlanKey, Nat)
        /\ DOMAIN sources' = DOMAIN sources \cup {key} /\ sources'[key] = n
        /\ \A k \in DOMAIN sources : k # key => sources'[k] = sources[k]
    <3>1. PICK K : K = Participant \X PlanKey OBVIOUS
    <3>2. sources \in Map(K, Nat) /\ key \in K BY <2>2, <3>1 DEF Typed
    <3>3. sources' = WithInserted(sources, key, n) BY <2>3
    <3>4. /\ sources' \in Map(K, Nat)
          /\ DOMAIN sources' = DOMAIN sources \cup {key} /\ sources'[key] = n
          /\ \A k \in DOMAIN sources : k # key => sources'[k] = sources[k]
      BY ONLY <3>2, <3>3, n \in Nat, Inserted
    <3> QED BY <3>1, <3>4
  <2> QED BY <1>2, <2>1, <2>3, <2>4
<1> QED BY <1>1, <1>2

LEMMA BirthStep ==
    ASSUME ScopeInv, NEW p \in Participant, NEW s \in Support,
           NEW plan \in PlanKey \cup {None}, Birth(p, s, plan)
    PROVE  ScopeInv'
<1>1. PICK n : n = nextRef OBVIOUS
<1>2. /\ Typed /\ LedgerSound /\ Nested /\ TopWithin /\ Issued /\ Placed /\ EndedInactive
      /\ n \in Nat /\ n + 1 \in Nat /\ n # n + 1
  BY <1>1 DEF ScopeInv, Typed
<1>20. /\ refs \in Map(Nat, Record) /\ roots \in Map(Support, Nat)
       /\ holders \in Map(Participant, Nat)
  BY <1>2 DEF Typed
<1>22. n \in Nat BY <1>2
<1>21. /\ Chained(refs) /\ Leased(refs, roots) /\ Rooted(refs, roots)
       /\ Numbered(roots, holders) /\ Planned(refs, sources)
  BY <1>2 DEF LedgerSound, Sound
<1>3. /\ OwnerOf[s] = p /\ place[s] = "held" /\ s \notin DOMAIN roots
      /\ SourceFree(p, plan) /\ AdvanceIssue(p, {n, n + 1}, {s})
      /\ refs' = WithInserted(WithInserted(refs, n, Reference(None, None, s, TRUE, n + 1)),
                              n + 1, Reference(n, plan, s, TRUE, None))
      /\ roots' = WithInserted(roots, s, n)
      /\ holders' = WithInserted(holders, p, IF p \in DOMAIN holders THEN holders[p] + 1 ELSE 1)
      /\ sources' = WithSource(p, plan, n + 1)
      /\ place' = [place EXCEPT ![s] = "reserved"]
      /\ nextRef' = n + 2 /\ rest' = rest /\ ended' = ended
  BY <1>1 DEF Birth, Fresh
<1>4. n \notin DOMAIN refs /\ n + 1 \notin DOMAIN refs
  <2>1. \A i \in DOMAIN refs : i \in Nat /\ i < n
    BY <1>1, <1>2, MapFacts DEF Issued, Typed
  <2> QED BY <1>2, <2>1
<1>5. refs' \in Map(Nat, Record) /\ BornRefs(refs, refs', n, s, plan)
  <2>1. PICK a, b : /\ a = Reference(None, None, s, TRUE, n + 1)
                    /\ b = Reference(n, plan, s, TRUE, None)
    OBVIOUS
  <2>2. a \in Record /\ b \in Record
    BY <1>2, <2>1, ReferenceTyped
  <2>3. PICK f : f = WithInserted(refs, n, a)
    OBVIOUS
  <2>4. /\ f \in Map(Nat, Record) /\ DOMAIN f = DOMAIN refs \cup {n} /\ f[n] = a
        /\ \A i \in DOMAIN refs : i # n => f[i] = refs[i]
    BY ONLY <1>20, <1>22, <2>2, <2>3, InsertedRef
  <2>5. PICK m : m = n + 1 OBVIOUS
  <2>6. refs' = WithInserted(f, m, b) /\ m \in Nat
    BY <1>2, <1>3, <2>1, <2>3, <2>5
  <2>7. /\ refs' \in Map(Nat, Record) /\ DOMAIN refs' = DOMAIN f \cup {m} /\ refs'[m] = b
        /\ \A i \in DOMAIN f : i # m => refs'[i] = f[i]
    BY ONLY <2>2, <2>4, <2>6, InsertedRef
  <2> QED BY <1>2, <1>4, <2>1, <2>4, <2>5, <2>7 DEF BornRefs
<1>6. /\ roots' \in Map(Support, Nat) /\ DOMAIN roots' = DOMAIN roots \cup {s}
      /\ roots'[s] = n /\ \A x \in DOMAIN roots : roots'[x] = roots[x]
  <2>1. /\ roots' \in Map(Support, Nat) /\ DOMAIN roots' = DOMAIN roots \cup {s}
        /\ roots'[s] = n /\ \A x \in DOMAIN roots : x # s => roots'[x] = roots[x]
    <3>1. roots' = WithInserted(roots, s, n) BY <1>3
    <3> QED BY ONLY <1>20, <1>22, <3>1, s \in Support, InsertedRoot
  <2> QED BY <1>3, <2>1
<1>7. Chained(refs') /\ Leased(refs', roots') /\ Rooted(refs', roots')
  <2>1. s \notin DOMAIN roots BY <1>3
  <2> QED BY ONLY <1>2, <1>5, <1>6, <1>20, <1>21, <2>1, BirthSound
<1>8. /\ holders' \in Map(Participant, Nat) /\ DOMAIN holders' = DOMAIN holders \cup {p}
      /\ holders'[p] = IF p \in DOMAIN holders THEN holders[p] + 1 ELSE 1
      /\ \A x \in DOMAIN holders : x # p => holders'[x] = holders[x]
  <2>1. PICK c : c = IF p \in DOMAIN holders THEN holders[p] + 1 ELSE 1 OBVIOUS
  <2>2. c \in Nat BY <1>20, <2>1, MapFacts
  <2>3. holders' = WithInserted(holders, p, c) BY <1>3, <2>1
  <2>4. /\ holders' \in Map(Participant, Nat) /\ DOMAIN holders' = DOMAIN holders \cup {p}
        /\ holders'[p] = c /\ \A x \in DOMAIN holders : x # p => holders'[x] = holders[x]
    BY ONLY <1>20, <2>2, <2>3, p \in Participant, InsertedCount
  <2> QED BY <2>1, <2>4
<1>9. Numbered(roots', holders')
  BY <1>3, <1>6, <1>8, <1>21, BirthNumbered
<1>10. /\ sources' \in Map(Participant \X PlanKey, Nat)
       /\ plan = None => sources' = sources
       /\ plan # None => /\ <<p, plan>> \notin DOMAIN sources
                         /\ DOMAIN sources' = DOMAIN sources \cup {<<p, plan>>}
                         /\ sources'[<<p, plan>>] = n + 1
                         /\ \A k \in DOMAIN sources : sources'[k] = sources[k]
  BY <1>2, <1>3, SourceAdded
<1>11. Planned(refs', sources')
  <2>1. PICK A : A = {n, n + 1} OBVIOUS
  <2>2. /\ A \cap DOMAIN refs = {} /\ DOMAIN refs' = DOMAIN refs \cup A
        /\ \A i \in DOMAIN refs : refs'[i] = refs[i]
    BY <1>4, <1>5, <2>1 DEF BornRefs
  <2>3. /\ refs'[n].plan = None /\ refs'[n + 1].plan = plan
        /\ refs'[n + 1].active /\ refs'[n + 1].support = s
    BY <1>5 DEF BornRefs, Reference
  <2>4. n + 1 \in A /\ \A i \in A : i # n + 1 => refs'[i].plan = None
    BY <2>1, <2>3
  <2>5. PICK lease : lease = n + 1 OBVIOUS
  <2>6. /\ lease \in A /\ \A i \in A : i # lease => refs'[i].plan = None
        /\ refs'[lease].active /\ refs'[lease].plan = plan
        /\ OwnerOf[refs'[lease].support] = p
    BY <1>3, <2>3, <2>4, <2>5
  <2>7. /\ plan = None => sources' = sources
        /\ plan # None => /\ <<p, plan>> \notin DOMAIN sources
                          /\ DOMAIN sources' = DOMAIN sources \cup {<<p, plan>>}
                          /\ sources'[<<p, plan>>] = lease
                          /\ \A k \in DOMAIN sources : sources'[k] = sources[k]
    BY <1>10, <2>5
  <2>8. \A i \in DOMAIN refs : /\ refs'[i].active <=> refs[i].active
                               /\ refs'[i].plan = refs[i].plan
                               /\ refs'[i].support = refs[i].support
    BY <2>2
  <2> QED BY ONLY <1>21, <2>2, <2>6, <2>7, <2>8, PlannedGrows
<1>12. PICK G : G = Advanced(Top, {n, n + 1}, Cardinality({n, n + 1}), {s}) OBVIOUS
<1>13. frames' \in Seq(FrameType) /\ Nested' /\ TopWithin' /\ BasesKept
  <2>1. CASE frames # <<>>
    <3>1. Top \in FrameType /\ Within(Top, refs, roots, rest)
      BY <1>2, <2>1, TopFacts DEF TopWithin
    <3>2. Within(G, refs', roots', rest)
      <4>1. s \notin DOMAIN roots BY <1>3
      <4>2. Follows(Top, G, {n, n + 1}, Cardinality({n, n + 1}))
        BY <1>12 DEF Advanced, Follows
      <4> QED BY ONLY <1>2, <1>5, <1>6, <1>20, <3>1, <4>1, <4>2, BirthWithin
    <3>3. Within(G, refs', roots', rest') BY <1>3, <3>2
    <3>4. G \in FrameType
      <4>1. PICK A : A = {n, n + 1} OBVIOUS
      <4>2. Cardinality(A) \in Nat
        <5>1. IsFiniteSet({n} \cup {n + 1}) BY FS_Singleton, FS_AddElement
        <5>2. A = {n} \cup {n + 1} BY <4>1
        <5> QED BY <5>1, <5>2, FS_CardinalityType
      <4>3. Top.active \in Nat BY <3>1, FrameFacts
      <4>4. A \in SUBSET Nat /\ {s} \in SUBSET Support BY <1>2, <4>1
      <4>5. Top.active + Cardinality(A) \in Nat /\ Cardinality(A) \in Int BY <4>2, <4>3
      <4>6. Advanced(Top, A, Cardinality(A), {s}) \in FrameType
        BY ONLY <3>1, <4>4, <4>5, AdvancedTyped
      <4> QED BY <1>12, <4>1, <4>6
    <3>5. G.base = Top.base BY <1>12 DEF Advanced
    <3>6. frames' = WithTop(G) BY <1>3, <1>12, <2>1 DEF AdvanceIssue
    <3> QED BY <1>2, <2>1, <3>3, <3>4, <3>5, <3>6, FramesFollow
  <2>2. CASE frames = <<>>
    <3>1. frames' = frames BY <1>3, <2>2 DEF AdvanceIssue
    <3> QED BY <1>2, <2>2, <3>1, FramesFollow
  <2> QED BY <2>1, <2>2
<1>14. Typed'
  <2>1. place' \in [Support -> {"held", "reserved", "away"}]
    BY <1>2, <1>3 DEF Typed
  <2>2. rest' \in Nat /\ nextRef' \in Nat /\ ended' \in SUBSET Nat
    BY <1>2, <1>3 DEF Typed
  <2> QED BY <1>5, <1>6, <1>8, <1>10, <1>13, <2>1, <2>2 DEF Typed
<1>15. LedgerSound'
  BY <1>7, <1>9, <1>11 DEF LedgerSound, Sound
<1>16. Issued'
  <2>1. nextRef' \in Nat /\ nextRef <= nextRef' /\ n < nextRef' /\ n + 1 < nextRef'
    BY <1>1, <1>2, <1>3
  <2>2. \A i \in DOMAIN refs' \cup ended' : i \in DOMAIN refs \cup ended \/ i < nextRef'
    BY <1>3, <1>5, <2>1 DEF BornRefs
  <2> QED BY <1>2, <1>13, <2>1, <2>2, IssuedFollows
<1>17. Placed'
  <2>1. \A x \in Support : place'[x] = IF x = s THEN "reserved" ELSE place[x]
    BY <1>2, <1>3 DEF Typed
  <2>2. \A x \in Support : place[x] = "reserved" <=> x \in DOMAIN roots
    BY <1>2 DEF Placed
  <2> QED BY <1>6, <2>1, <2>2 DEF Placed
<1>18. EndedInactive'
  <2>1. n \notin ended /\ n + 1 \notin ended
    <3>1. \A i \in ended : i \in Nat /\ i < n
      BY <1>1, <1>2 DEF Issued, Typed
    <3> QED BY <1>2, <3>1
  <2> QED BY <1>2, <1>3, <1>5, <2>1 DEF EndedInactive, Alive, BornRefs
<1> QED BY <1>13, <1>14, <1>15, <1>16, <1>17, <1>18 DEF ScopeInv

\* In a typed ledger the identity of a reference is a number.
LEMMA RefFacts ==
    ASSUME Typed, NEW i \in DOMAIN refs
    PROVE  /\ i \in Nat /\ i # None
           /\ refs[i] \in Record
  BY MapFacts, LocalReferenceAssumption DEF Typed

LEMMA ReborrowStep ==
    ASSUME ScopeInv, NEW p \in Participant, NEW i \in DOMAIN refs,
           NEW plan \in PlanKey \cup {None}, Reborrow(p, i, plan)
    PROVE  ScopeInv'
<1>1. PICK n : n = nextRef OBVIOUS
<1>2. /\ Typed /\ LedgerSound /\ Nested /\ TopWithin /\ Issued /\ Placed /\ EndedInactive
      /\ i \in Nat /\ i # None /\ refs[i] \in Record
  BY RefFacts DEF ScopeInv
<1>3. n \in Nat BY <1>1, <1>2 DEF Typed
<1>4. /\ refs \in Map(Nat, Record) /\ roots \in Map(Support, Nat)
      /\ holders \in Map(Participant, Nat)
  BY <1>2 DEF Typed
<1>5. /\ Chained(refs) /\ Leased(refs, roots) /\ Rooted(refs, roots)
      /\ Numbered(roots, holders) /\ Planned(refs, sources)
  BY <1>2 DEF LedgerSound, Sound
<1>6. /\ refs[i].active /\ refs[i].child = None /\ OwnerOf[refs[i].support] = p
      /\ SourceFree(p, plan) /\ AdvanceIssue(p, {n}, {})
      /\ refs' = WithInserted(
                     WithInserted(refs, i, Reference(refs[i].parent, refs[i].plan,
                                                     refs[i].support, TRUE, n)),
                     n, Reference(i, plan, refs[i].support, TRUE, None))
      /\ sources' = WithSource(p, plan, n)
      /\ nextRef' = n + 1 /\ roots' = roots /\ holders' = holders
      /\ rest' = rest /\ place' = place /\ ended' = ended
  BY <1>1 DEF Reborrow, Fresh, MayBorrow, MayAccess, Usable, HolderOf
<1>7. n \notin DOMAIN refs
  <2>1. \A j \in DOMAIN refs : j \in Nat /\ j < n
    BY <1>1, <1>2, RefFacts DEF Issued
  <2> QED BY <1>3, <2>1
<1>8. refs' \in Map(Nat, Record) /\ LentRefs(refs, refs', n, i, plan)
  <2>1. PICK a, b : /\ a = Reference(refs[i].parent, refs[i].plan, refs[i].support, TRUE, n)
                    /\ b = Reference(i, plan, refs[i].support, TRUE, None)
    OBVIOUS
  <2>2. a \in Record /\ b \in Record
    <3>1. /\ refs[i].parent \in Nat \cup {None} /\ refs[i].plan \in PlanKey \cup {None}
          /\ refs[i].support \in Support
      BY <1>2, RecordFacts
    <3> QED BY <1>2, <1>3, <2>1, <3>1, ReferenceTyped
  <2>3. PICK f : f = WithInserted(refs, i, a)
    OBVIOUS
  <2>4. i \in Nat BY <1>2
  <2>5. /\ f \in Map(Nat, Record) /\ DOMAIN f = DOMAIN refs \cup {i} /\ f[i] = a
        /\ \A j \in DOMAIN refs : j # i => f[j] = refs[j]
    BY ONLY <1>4, <2>2, <2>3, <2>4, InsertedRef
  <2>6. refs' = WithInserted(f, n, b)
    BY <1>6, <2>1, <2>3
  <2>7. /\ refs' \in Map(Nat, Record) /\ DOMAIN refs' = DOMAIN f \cup {n} /\ refs'[n] = b
        /\ \A j \in DOMAIN f : j # n => refs'[j] = f[j]
    BY ONLY <1>3, <2>2, <2>5, <2>6, InsertedRef
  <2> QED BY <1>6, <1>7, <2>1, <2>5, <2>7 DEF LentRefs, UsableIn
<1>9. Chained(refs') /\ Leased(refs', roots) /\ Rooted(refs', roots)
  BY ONLY <1>3, <1>4, <1>5, <1>8, BorrowSound
<1>10. /\ sources' \in Map(Participant \X PlanKey, Nat)
       /\ plan = None => sources' = sources
       /\ plan # None => /\ <<p, plan>> \notin DOMAIN sources
                         /\ DOMAIN sources' = DOMAIN sources \cup {<<p, plan>>}
                         /\ sources'[<<p, plan>>] = n
                         /\ \A k \in DOMAIN sources : sources'[k] = sources[k]
  BY <1>2, <1>3, <1>6, SourceAdded
<1>11. /\ DOMAIN refs' = DOMAIN refs \cup {n}
       /\ \A j \in DOMAIN refs : /\ refs'[j].active <=> refs[j].active
                                 /\ refs'[j].plan = refs[j].plan
                                 /\ refs'[j].support = refs[j].support
       /\ refs'[n].active /\ refs'[n].plan = plan /\ refs'[n].support = refs[i].support
  <2>1. /\ refs'[n].active /\ refs'[n].plan = plan /\ refs'[n].support = refs[i].support
        /\ refs'[i].active /\ refs'[i].plan = refs[i].plan
        /\ refs'[i].support = refs[i].support
    BY <1>8 DEF LentRefs, Reference
  <2>2. /\ DOMAIN refs' = DOMAIN refs \cup {n}
        /\ \A j \in DOMAIN refs : j # i => refs'[j] = refs[j]
    BY <1>8 DEF LentRefs
  <2> QED BY <1>6, <2>1, <2>2
<1>12. Planned(refs', sources')
  <2>1. PICK A : A = {n} OBVIOUS
  <2>2. /\ A \cap DOMAIN refs = {} /\ DOMAIN refs' = DOMAIN refs \cup A
        /\ n \in A /\ \A j \in A : j # n => refs'[j].plan = None
    BY <1>7, <1>11, <2>1
  <2>3. refs'[n].active /\ refs'[n].plan = plan /\ OwnerOf[refs'[n].support] = p
    BY <1>6, <1>11
  <2>4. \A j \in DOMAIN refs : /\ refs'[j].active <=> refs[j].active
                               /\ refs'[j].plan = refs[j].plan
                               /\ refs'[j].support = refs[j].support
    BY <1>11
  <2>5. /\ plan = None => sources' = sources
        /\ plan # None => /\ <<p, plan>> \notin DOMAIN sources
                          /\ DOMAIN sources' = DOMAIN sources \cup {<<p, plan>>}
                          /\ sources'[<<p, plan>>] = n
                          /\ \A k \in DOMAIN sources : sources'[k] = sources[k]
        /\ Planned(refs, sources)
    BY <1>5, <1>10
  <2> QED BY ONLY <2>2, <2>3, <2>4, <2>5, PlannedGrows
<1>13. frames' \in Seq(FrameType) /\ Nested' /\ TopWithin' /\ BasesKept
  <2>1. CASE frames # <<>>
    <3>1. Top \in FrameType /\ Within(Top, refs, roots, rest)
      BY <1>2, <2>1, TopFacts DEF TopWithin
    <3>2. PICK G : G = Advanced(Top, {n}, Cardinality({n}), {}) OBVIOUS
    <3>3. Within(G, refs', roots, rest)
      <4>1. Follows(Top, G, {n}, Cardinality({n}))
        BY <3>2 DEF Advanced, Follows
      <4> QED BY ONLY <1>3, <1>4, <1>8, <3>1, <4>1, BorrowWithin
    <3>4. Within(G, refs', roots', rest') BY <1>6, <3>3
    <3>5. G \in FrameType
      <4>1. PICK A, c, e : A = {n} /\ c = Cardinality(A) /\ e = {} OBVIOUS
      <4>2. c \in Nat
        <5>1. Cardinality({n}) = 1 BY FS_Singleton
        <5> QED BY <4>1, <5>1
      <4>3. Top.active \in Nat BY <3>1, FrameFacts
      <4>4. A \in SUBSET Nat /\ e \in SUBSET Support BY <1>3, <4>1
      <4>5. Top.active + c \in Nat /\ c \in Int BY <4>2, <4>3
      <4>6. Advanced(Top, A, c, e) \in FrameType
        BY ONLY <3>1, <4>4, <4>5, AdvancedTyped
      <4> QED BY <3>2, <4>1, <4>6
    <3>6. G.base = Top.base BY <3>2 DEF Advanced
    <3>7. frames' = WithTop(G) BY <1>6, <2>1, <3>2 DEF AdvanceIssue
    <3> QED BY <1>2, <2>1, <3>4, <3>5, <3>6, <3>7, FramesFollow
  <2>2. CASE frames = <<>>
    <3>1. frames' = frames BY <1>6, <2>2 DEF AdvanceIssue
    <3> QED BY <1>2, <2>2, <3>1, FramesFollow
  <2> QED BY <2>1, <2>2
<1>14. Typed'
  <2>1. nextRef' \in Nat BY <1>3, <1>6
  <2> QED BY <1>2, <1>6, <1>8, <1>10, <1>13, <2>1 DEF Typed
<1>15. LedgerSound'
  BY <1>5, <1>6, <1>9, <1>12 DEF LedgerSound, Sound
<1>16. Issued'
  <2>1. nextRef' \in Nat /\ nextRef <= nextRef' /\ n < nextRef'
    BY <1>1, <1>3, <1>6
  <2>2. \A j \in DOMAIN refs' \cup ended' : j \in DOMAIN refs \cup ended \/ j < nextRef'
    BY <1>6, <1>11, <2>1
  <2> QED BY <1>2, <1>13, <2>1, <2>2, IssuedFollows
<1>17. Placed'
  BY <1>2, <1>6 DEF Placed
<1>18. EndedInactive'
  <2>1. n \notin ended
    <3>1. \A j \in ended : j \in Nat /\ j < n
      BY <1>1, <1>2 DEF Issued, Typed
    <3> QED BY <1>3, <3>1
  <2> QED BY <1>2, <1>6, <1>11, <2>1 DEF EndedInactive, Alive
<1> QED BY <1>13, <1>14, <1>15, <1>16, <1>17, <1>18 DEF ScopeInv

----------------------------------------------------------------------------
(* Endings keep the invariant                                              *)

LEMMA RemovedSource ==
    ASSUME Typed, LedgerSound, NEW p, NEW i \in DOMAIN refs, refs[i].active,
           OwnerOf[refs[i].support] = p, sources' = SourcesWithout(p, i)
    PROVE  /\ sources' \in Map(Participant \X PlanKey, Nat)
           /\ refs[i].plan = None => sources' = sources
           /\ refs[i].plan # None => /\ DOMAIN sources' = DOMAIN sources \ {PlanOf(refs, i)}
                                     /\ \A k \in DOMAIN sources' : sources'[k] = sources[k]
<1>1. CASE refs[i].plan = None BY <1>1 DEF SourcesWithout, Typed
<1>2. CASE refs[i].plan # None
  <2>1. PICK K, key : K = Participant \X PlanKey /\ key = PlanOf(refs, i) OBVIOUS
  <2>2. sources \in Map(K, Nat) BY <2>1 DEF Typed
  <2>3. sources' = WithoutKey(sources, key)
    BY <1>2, <2>1 DEF SourcesWithout, PlanOf
  <2>4. /\ sources' \in Map(K, Nat) /\ DOMAIN sources' = DOMAIN sources \ {key}
        /\ \A k \in DOMAIN sources \ {key} : sources'[k] = sources[k]
    BY ONLY <2>2, <2>3, Removed
  <2> QED BY <1>2, <2>1, <2>4
<1> QED BY <1>1, <1>2

LEMMA EndBorrowStep ==
    ASSUME ScopeInv, NEW p \in Participant, NEW i \in DOMAIN refs, EndBorrow(p, i)
    PROVE  ScopeInv'
<1>1. PICK par : par = refs[i].parent OBVIOUS
<1>2. /\ Typed /\ LedgerSound /\ Nested /\ TopWithin /\ Issued /\ Placed /\ EndedInactive
      /\ i \in Nat /\ i # None /\ refs[i] \in Record
  BY RefFacts DEF ScopeInv
<1>3. /\ refs \in Map(Nat, Record) /\ roots \in Map(Support, Nat)
      /\ holders \in Map(Participant, Nat)
  BY <1>2 DEF Typed
<1>4. /\ Chained(refs) /\ Leased(refs, roots) /\ Rooted(refs, roots)
      /\ Numbered(roots, holders) /\ Planned(refs, sources)
  BY <1>2 DEF LedgerSound, Sound
<1>5. /\ refs[i].active /\ refs[i].child = None /\ OwnerOf[refs[i].support] = p
      /\ refs[i].support \in DOMAIN roots
      /\ par # None /\ par \in DOMAIN refs /\ refs[par].active /\ refs[par].child = i
      /\ par # roots[refs[i].support]
      /\ AdvanceEnd(p, {i})
      /\ refs' = WithInserted(WithInserted(refs, par, WithoutChild(refs[par])),
                              i, Inactive(refs[i]))
      /\ sources' = SourcesWithout(p, i) /\ ended' = ended \cup {i}
      /\ nextRef' = nextRef /\ roots' = roots /\ holders' = holders
      /\ rest' = rest /\ place' = place
  BY <1>1 DEF EndBorrow, MayEnd, MayAccess, Usable, HolderOf
<1>6. par \in Nat /\ refs[par] \in Record /\ i # par
  BY <1>2, <1>5, RefFacts
<1>7. /\ refs' \in Map(Nat, Record) /\ BackRefs(refs, refs', i, par)
      /\ refs'[par] = WithoutChild(refs[par])
  <2>1. PICK a, b : a = WithoutChild(refs[par]) /\ b = Inactive(refs[i])
    OBVIOUS
  <2>2. a \in Record /\ b \in Record
    BY <1>2, <1>6, <2>1, Changed
  <2>3. PICK f : f = WithInserted(refs, par, a)
    OBVIOUS
  <2>4. par \in Nat /\ i \in Nat BY <1>2, <1>6
  <2>5. /\ f \in Map(Nat, Record) /\ DOMAIN f = DOMAIN refs \cup {par} /\ f[par] = a
        /\ \A j \in DOMAIN refs : j # par => f[j] = refs[j]
    BY ONLY <1>3, <2>2, <2>3, <2>4, InsertedRef
  <2>6. refs' = WithInserted(f, i, b)
    BY <1>5, <2>1, <2>3
  <2>7. /\ refs' \in Map(Nat, Record) /\ DOMAIN refs' = DOMAIN f \cup {i} /\ refs'[i] = b
        /\ \A j \in DOMAIN f : j # i => refs'[j] = f[j]
    BY ONLY <2>2, <2>4, <2>5, <2>6, InsertedRef
  <2>8. UsableIn(refs, i) BY <1>5 DEF UsableIn
  <2> QED BY <1>1, <1>5, <1>6, <2>1, <2>5, <2>7, <2>8 DEF BackRefs
<1>8. Chained(refs') /\ Leased(refs', roots) /\ Rooted(refs', roots)
  <2>1. refs[i].support \in DOMAIN roots /\ par # roots[refs[i].support]
    BY <1>5
  <2> QED BY ONLY <1>3, <1>4, <1>7, <2>1, BackSound
<1>9. /\ sources' \in Map(Participant \X PlanKey, Nat)
      /\ refs[i].plan = None => sources' = sources
      /\ refs[i].plan # None => /\ DOMAIN sources' = DOMAIN sources \ {PlanOf(refs, i)}
                                /\ \A k \in DOMAIN sources' : sources'[k] = sources[k]
  BY <1>2, <1>5, RemovedSource
<1>10. /\ DOMAIN refs' = DOMAIN refs
       /\ \A j \in DOMAIN refs : /\ refs'[j].active <=> (refs[j].active /\ j # i)
                                 /\ refs'[j].plan = refs[j].plan
                                 /\ refs'[j].support = refs[j].support
  <2>1. /\ ~refs'[i].active /\ refs'[i].plan = refs[i].plan
        /\ refs'[i].support = refs[i].support
    BY <1>7 DEF BackRefs, Inactive, Reference
  <2>2. /\ refs'[par].active <=> refs[par].active
        /\ refs'[par].plan = refs[par].plan /\ refs'[par].support = refs[par].support
    BY <1>7 DEF WithoutChild, Reference
  <2>3. /\ DOMAIN refs' = DOMAIN refs
        /\ \A j \in DOMAIN refs : j # i /\ j # par => refs'[j] = refs[j]
    BY <1>7 DEF BackRefs
  <2> QED BY <1>6, <2>1, <2>2, <2>3
<1>11. Planned(refs', sources')
  <2>1. PICK E : E = {i} OBVIOUS
  <2>2. /\ i \in E /\ i \in Alive(refs) /\ \A j \in E : j # i => refs[j].plan = None
    BY <1>5, <2>1 DEF Alive
  <2>3. /\ DOMAIN refs' = DOMAIN refs
        /\ \A j \in DOMAIN refs : /\ refs'[j].active <=> (refs[j].active /\ j \notin E)
                                  /\ refs'[j].plan = refs[j].plan
                                  /\ refs'[j].support = refs[j].support
    BY <1>10, <2>1
  <2>4. /\ refs[i].plan = None => sources' = sources
        /\ refs[i].plan # None => /\ DOMAIN sources' = DOMAIN sources \ {PlanOf(refs, i)}
                                  /\ \A k \in DOMAIN sources' : sources'[k] = sources[k]
        /\ Planned(refs, sources)
    BY <1>4, <1>9
  <2> QED BY ONLY <2>2, <2>3, <2>4, PlannedShrinks
<1>12. frames' \in Seq(FrameType) /\ Nested' /\ TopWithin' /\ BasesKept
  <2>1. CASE frames # <<>>
    <3>1. Top \in FrameType /\ Within(Top, refs, roots, rest)
      BY <1>2, <2>1, TopFacts DEF TopWithin
    <3>2. {i} \subseteq Top.issued /\ Top.active >= Cardinality({i})
      BY <1>5, <2>1 DEF AdvanceEnd
    <3>3. PICK G : G = Advanced(Top, {}, -Cardinality({i}), {}) OBVIOUS
    <3>4. Chained(Top.base.refs)
      BY <1>2, <2>1, TopFacts DEF Nested, SoundBase, Sound
    <3>5. Within(G, refs', roots, rest)
      <4>1. Follows(Top, G, {}, -Cardinality({i}))
        BY <3>3 DEF Advanced, Follows
      <4>2. {i} \subseteq Top.issued BY <3>2
      <4> QED BY ONLY <1>3, <1>4, <1>7, <3>1, <3>4, <4>1, <4>2, BackWithin
    <3>6. Within(G, refs', roots', rest') BY <1>5, <3>5
    <3>7. G \in FrameType
      <4>1. PICK c, e : c = Cardinality({i}) /\ e = {} OBVIOUS
      <4>2. c \in Nat
        <5>1. Cardinality({i}) = 1 BY FS_Singleton
        <5> QED BY <4>1, <5>1
      <4>3. Top.active \in Nat /\ Top.active >= c BY <3>1, <3>2, <4>1, FrameFacts
      <4>4. e \in SUBSET Nat /\ e \in SUBSET Support BY <4>1
      <4>5. PICK m : m = -c OBVIOUS
      <4>6. Top.active + m \in Nat /\ m \in Int BY <4>2, <4>3, <4>5
      <4>7. Advanced(Top, e, m, e) \in FrameType
        BY ONLY <3>1, <4>4, <4>6, AdvancedTyped
      <4> QED BY <3>3, <4>1, <4>5, <4>7
    <3>8. G.base = Top.base BY <3>3 DEF Advanced
    <3>9. frames' = WithTop(G) BY <1>5, <2>1, <3>3 DEF AdvanceEnd
    <3> QED BY <1>2, <2>1, <3>6, <3>7, <3>8, <3>9, FramesFollow
  <2>2. CASE frames = <<>>
    <3>1. frames' = frames BY <1>5, <2>2 DEF AdvanceEnd
    <3> QED BY <1>2, <2>2, <3>1, FramesFollow
  <2> QED BY <2>1, <2>2
<1>13. Typed'
  <2>1. ended' \in SUBSET Nat BY <1>2, <1>5 DEF Typed
  <2> QED BY <1>2, <1>5, <1>7, <1>9, <1>12, <2>1 DEF Typed
<1>14. LedgerSound'
  BY <1>4, <1>5, <1>8, <1>11 DEF LedgerSound, Sound
<1>15. Issued'
  <2>1. nextRef' \in Nat /\ nextRef <= nextRef'
    BY <1>2, <1>5 DEF Typed
  <2>2. \A j \in DOMAIN refs' \cup ended' : j \in DOMAIN refs \cup ended \/ j < nextRef'
    BY <1>5, <1>10
  <2> QED BY <1>2, <1>12, <2>1, <2>2, IssuedFollows
<1>16. Placed'
  BY <1>2, <1>5 DEF Placed
<1>17. EndedInactive'
  BY <1>2, <1>5, <1>10 DEF EndedInactive, Alive
<1> QED BY <1>12, <1>13, <1>14, <1>15, <1>16, <1>17 DEF ScopeInv

LEMMA EndRootStep ==
    ASSUME ScopeInv, NEW p \in Participant, NEW i \in DOMAIN refs, EndRoot(p, i)
    PROVE  ScopeInv'
<1>1. PICK par, s : par = refs[i].parent /\ s = refs[i].support OBVIOUS
<1>2. /\ Typed /\ LedgerSound /\ Nested /\ TopWithin /\ Issued /\ Placed /\ EndedInactive
      /\ i \in Nat /\ i # None /\ refs[i] \in Record
  BY RefFacts DEF ScopeInv
<1>3. /\ refs \in Map(Nat, Record) /\ roots \in Map(Support, Nat)
      /\ holders \in Map(Participant, Nat)
  BY <1>2 DEF Typed
<1>4. /\ Chained(refs) /\ Leased(refs, roots) /\ Rooted(refs, roots)
      /\ Numbered(roots, holders) /\ Planned(refs, sources)
  BY <1>2 DEF LedgerSound, Sound
<1>5. /\ refs[i].active /\ refs[i].child = None /\ OwnerOf[s] = p
      /\ s \in DOMAIN roots
      /\ par # None /\ par \in DOMAIN refs /\ refs[par].active /\ refs[par].child = i
      /\ par = roots[s]
      /\ AdvanceEnd(p, {i, par})
      /\ refs' = WithInserted(WithInserted(refs, par, Inactive(WithoutChild(refs[par]))),
                              i, Inactive(refs[i]))
      /\ roots' = WithoutKey(roots, s) /\ holders' = HoldersWithout(p)
      /\ sources' = SourcesWithout(p, i) /\ ended' = ended \cup {i, par}
      /\ place' = [place EXCEPT ![s] = "held"]
      /\ nextRef' = nextRef /\ rest' = rest
  BY <1>1 DEF EndRoot, MayEnd, MayAccess, Usable, HolderOf
<1>6. par \in Nat /\ refs[par] \in Record /\ i # par
  BY <1>2, <1>5, RefFacts
<1>7. s \in Support
  BY <1>1, <1>2, RecordFacts
<1>8. /\ refs' \in Map(Nat, Record) /\ BackRefs(refs, refs', i, par)
      /\ refs'[par] = Inactive(WithoutChild(refs[par]))
  <2>1. PICK a, b : a = Inactive(WithoutChild(refs[par])) /\ b = Inactive(refs[i])
    OBVIOUS
  <2>2. a \in Record /\ b \in Record
    BY <1>2, <1>6, <2>1, Changed
  <2>3. PICK f : f = WithInserted(refs, par, a)
    OBVIOUS
  <2>4. par \in Nat /\ i \in Nat BY <1>2, <1>6
  <2>5. /\ f \in Map(Nat, Record) /\ DOMAIN f = DOMAIN refs \cup {par} /\ f[par] = a
        /\ \A j \in DOMAIN refs : j # par => f[j] = refs[j]
    BY ONLY <1>3, <2>2, <2>3, <2>4, InsertedRef
  <2>6. refs' = WithInserted(f, i, b)
    BY <1>5, <2>1, <2>3
  <2>7. /\ refs' \in Map(Nat, Record) /\ DOMAIN refs' = DOMAIN f \cup {i} /\ refs'[i] = b
        /\ \A j \in DOMAIN f : j # i => refs'[j] = f[j]
    BY ONLY <2>2, <2>4, <2>5, <2>6, InsertedRef
  <2>8. UsableIn(refs, i) BY <1>5 DEF UsableIn
  <2> QED BY <1>1, <1>5, <1>6, <2>1, <2>5, <2>7, <2>8 DEF BackRefs
<1>9. /\ roots' \in Map(Support, Nat) /\ DOMAIN roots' = DOMAIN roots \ {s}
      /\ \A x \in DOMAIN roots' : roots'[x] = roots[x]
  <2>1. PICK D : D = Support OBVIOUS
  <2>2. roots \in Map(D, Nat) /\ roots' = WithoutKey(roots, s) BY <1>3, <1>5, <2>1
  <2>3. /\ roots' \in Map(D, Nat) /\ DOMAIN roots' = DOMAIN roots \ {s}
        /\ \A x \in DOMAIN roots \ {s} : roots'[x] = roots[x]
    <3>1. WithoutKey(roots, s) \in Map(D, Nat)
      BY ONLY <2>2, Removed
    <3> QED BY <2>2, <3>1 DEF WithoutKey
  <2> QED BY <2>1, <2>3
<1>10. Chained(refs') /\ Leased(refs', roots') /\ Rooted(refs', roots')
  <2>1. s = refs[i].support /\ s \in DOMAIN roots /\ par = roots[s]
    BY <1>1, <1>5
  <2> QED BY ONLY <1>3, <1>4, <1>8, <1>9, <2>1, RetireSound
<1>11. /\ holders' \in Map(Participant, Nat)
       /\ DOMAIN holders' = IF holders[p] = 1 THEN DOMAIN holders \ {p} ELSE DOMAIN holders
       /\ holders[p] # 1 => holders'[p] = holders[p] - 1
       /\ \A x \in DOMAIN holders : x # p => holders'[x] = holders[x]
  <2>1. p \in DOMAIN holders /\ holders[p] \in Nat /\ holders[p] # 0
    <3>1. s \in OwnedBy(roots, p) BY <1>5 DEF OwnedBy
    <3>2. p \in DOMAIN holders /\ holders[p] = Cardinality(OwnedBy(roots, p))
      BY <1>4, <3>1 DEF Numbered
    <3>3. IsFiniteSet(DOMAIN roots) BY <1>4 DEF Numbered
    <3> QED BY <3>1, <3>2, <3>3, OwnedFinite
  <2>2. CASE holders[p] = 1
    <3>1. PICK D : D = Participant OBVIOUS
    <3>2. holders \in Map(D, Nat) /\ holders' = WithoutKey(holders, p)
      BY <1>3, <1>5, <2>2, <3>1 DEF HoldersWithout
    <3>3. /\ holders' \in Map(D, Nat) /\ DOMAIN holders' = DOMAIN holders \ {p}
          /\ \A x \in DOMAIN holders \ {p} : holders'[x] = holders[x]
      <4>1. WithoutKey(holders, p) \in Map(D, Nat)
        BY ONLY <3>2, Removed
      <4> QED BY <3>2, <4>1 DEF WithoutKey
    <3> QED BY <2>2, <3>1, <3>3
  <2>3. CASE holders[p] # 1
    <3>1. PICK c : c = holders[p] - 1 OBVIOUS
    <3>2. c \in Nat /\ holders' = WithInserted(holders, p, c)
      BY <1>5, <2>1, <2>3, <3>1 DEF HoldersWithout
    <3>3. /\ holders' \in Map(Participant, Nat) /\ DOMAIN holders' = DOMAIN holders \cup {p}
          /\ holders'[p] = c /\ \A x \in DOMAIN holders : x # p => holders'[x] = holders[x]
      BY ONLY <1>3, <3>2, p \in Participant, InsertedCount
    <3> QED BY <2>1, <2>3, <3>1, <3>3
  <2> QED BY <2>2, <2>3
<1>12. Numbered(roots', holders')
  <2>1. s \in DOMAIN roots /\ OwnerOf[s] = p BY <1>5
  <2> QED BY <1>4, <1>7, <1>9, <1>11, <2>1, RetireNumbered
<1>13. /\ sources' \in Map(Participant \X PlanKey, Nat)
       /\ refs[i].plan = None => sources' = sources
       /\ refs[i].plan # None => /\ DOMAIN sources' = DOMAIN sources \ {PlanOf(refs, i)}
                                 /\ \A k \in DOMAIN sources' : sources'[k] = sources[k]
  BY <1>1, <1>2, <1>5, RemovedSource
<1>14. /\ DOMAIN refs' = DOMAIN refs
       /\ \A j \in DOMAIN refs : /\ refs'[j].active <=> (refs[j].active /\ j # i /\ j # par)
                                 /\ refs'[j].plan = refs[j].plan
                                 /\ refs'[j].support = refs[j].support
  <2>1. /\ ~refs'[i].active /\ refs'[i].plan = refs[i].plan
        /\ refs'[i].support = refs[i].support
    BY <1>8 DEF BackRefs, Inactive, Reference
  <2>2. /\ ~refs'[par].active
        /\ refs'[par].plan = refs[par].plan /\ refs'[par].support = refs[par].support
    BY <1>8 DEF Inactive, WithoutChild, Reference
  <2>3. /\ DOMAIN refs' = DOMAIN refs
        /\ \A j \in DOMAIN refs : j # i /\ j # par => refs'[j] = refs[j]
    BY <1>8 DEF BackRefs
  <2> QED BY <2>1, <2>2, <2>3
<1>15. Planned(refs', sources')
  <2>1. PICK E : E = {i, par} OBVIOUS
  <2>2. /\ i \in E /\ i \in Alive(refs) /\ \A j \in E : j # i => refs[j].plan = None
    BY <1>4, <1>5, <2>1 DEF Alive, Rooted
  <2>3. /\ DOMAIN refs' = DOMAIN refs
        /\ \A j \in DOMAIN refs : /\ refs'[j].active <=> (refs[j].active /\ j \notin E)
                                  /\ refs'[j].plan = refs[j].plan
                                  /\ refs'[j].support = refs[j].support
    BY <1>14, <2>1
  <2>4. /\ refs[i].plan = None => sources' = sources
        /\ refs[i].plan # None => /\ DOMAIN sources' = DOMAIN sources \ {PlanOf(refs, i)}
                                  /\ \A k \in DOMAIN sources' : sources'[k] = sources[k]
        /\ Planned(refs, sources)
    BY <1>4, <1>13
  <2> QED BY ONLY <2>2, <2>3, <2>4, PlannedShrinks
<1>16. frames' \in Seq(FrameType) /\ Nested' /\ TopWithin' /\ BasesKept
  <2>1. CASE frames # <<>>
    <3>1. Top \in FrameType /\ Within(Top, refs, roots, rest)
      BY <1>2, <2>1, TopFacts DEF TopWithin
    <3>2. {i, par} \subseteq Top.issued /\ Top.active >= Cardinality({i, par})
      BY <1>5, <2>1 DEF AdvanceEnd
    <3>3. PICK G : G = Advanced(Top, {}, -Cardinality({i, par}), {}) OBVIOUS
    <3>4. Rooted(Top.base.refs, Top.base.roots)
      BY <1>2, <2>1, TopFacts DEF Nested, SoundBase, Sound
    <3>5. Within(G, refs', roots', rest)
      <4>1. Follows(Top, G, {}, -Cardinality({i, par}))
        BY <3>3 DEF Advanced, Follows
      <4>2. {i, par} \subseteq Top.issued BY <3>2
      <4>3. s = refs[i].support /\ s \in DOMAIN roots /\ par = roots[s]
        BY <1>1, <1>5
      <4> QED BY ONLY <1>3, <1>4, <1>8, <1>9, <3>1, <3>4, <4>1, <4>2, <4>3, RetireWithin
    <3>6. Within(G, refs', roots', rest') BY <1>5, <3>5
    <3>7. G \in FrameType
      <4>1. PICK c, e : c = Cardinality({i, par}) /\ e = {} OBVIOUS
      <4>2. c \in Nat
        <5>1. IsFiniteSet({i} \cup {par}) BY FS_Singleton, FS_AddElement
        <5>2. {i} \cup {par} = {i, par} OBVIOUS
        <5> QED BY <4>1, <5>1, <5>2, FS_CardinalityType
      <4>3. Top.active \in Nat /\ Top.active >= c BY <3>1, <3>2, <4>1, FrameFacts
      <4>4. e \in SUBSET Nat /\ e \in SUBSET Support BY <4>1
      <4>5. PICK m : m = -c OBVIOUS
      <4>6. Top.active + m \in Nat /\ m \in Int BY <4>2, <4>3, <4>5
      <4>7. Advanced(Top, e, m, e) \in FrameType
        BY ONLY <3>1, <4>4, <4>6, AdvancedTyped
      <4> QED BY <3>3, <4>1, <4>5, <4>7
    <3>8. G.base = Top.base BY <3>3 DEF Advanced
    <3>9. frames' = WithTop(G) BY <1>5, <2>1, <3>3 DEF AdvanceEnd
    <3> QED BY <1>2, <2>1, <3>6, <3>7, <3>8, <3>9, FramesFollow
  <2>2. CASE frames = <<>>
    <3>1. frames' = frames BY <1>5, <2>2 DEF AdvanceEnd
    <3> QED BY <1>2, <2>2, <3>1, FramesFollow
  <2> QED BY <2>1, <2>2
<1>17. Typed'
  <2>1. ended' \in SUBSET Nat /\ place' \in [Support -> {"held", "reserved", "away"}]
    BY <1>2, <1>5, <1>6 DEF Typed
  <2>2. rest' \in Nat /\ nextRef' \in Nat BY <1>2, <1>5 DEF Typed
  <2> QED BY <1>8, <1>9, <1>11, <1>13, <1>16, <2>1, <2>2 DEF Typed
<1>18. LedgerSound'
  BY <1>10, <1>12, <1>15 DEF LedgerSound, Sound
<1>19. Issued'
  <2>1. nextRef' \in Nat /\ nextRef <= nextRef'
    BY <1>2, <1>5 DEF Typed
  <2>2. \A j \in DOMAIN refs' \cup ended' : j \in DOMAIN refs \cup ended \/ j < nextRef'
    BY <1>5, <1>14
  <2> QED BY <1>2, <1>16, <2>1, <2>2, IssuedFollows
<1>20. Placed'
  <2>1. \A x \in Support : place'[x] = IF x = s THEN "held" ELSE place[x]
    BY <1>2, <1>5 DEF Typed
  <2>2. \A x \in Support : place[x] = "reserved" <=> x \in DOMAIN roots
    BY <1>2 DEF Placed
  <2> QED BY <1>9, <2>1, <2>2 DEF Placed
<1>21. EndedInactive'
  BY <1>2, <1>5, <1>14 DEF EndedInactive, Alive
<1> QED BY <1>16, <1>17, <1>18, <1>19, <1>20, <1>21 DEF ScopeInv

----------------------------------------------------------------------------
(* Scopes                                                                  *)

\* A balanced scope is at its entry again, but for references it forgets.
LEMMA Balanced ==
    ASSUME ScopeInv, frames # <<>>, Top.active = 0
    PROVE  /\ Alive(refs) = Alive(Top.base.refs)
           /\ \A i \in Alive(refs) : refs[i] = Top.base.refs[i]
           /\ roots = Top.base.roots
           /\ holders = Top.base.holders
           /\ sources = Top.base.sources
           /\ rest = Top.base.rest
<1>1. PICK F : F = Top OBVIOUS
<1>2. /\ Typed /\ LedgerSound /\ Nested /\ F \in FrameType /\ F.active = 0
      /\ Within(F, refs, roots, rest)
  BY <1>1, TopFacts DEF ScopeInv, TopWithin
<1>3. PICK B : B = F.base OBVIOUS
<1>4. /\ B.refs \in Map(Nat, Record) /\ B.roots \in Map(Support, Nat)
      /\ B.holders \in Map(Participant, Nat)
      /\ B.sources \in Map(Participant \X PlanKey, Nat)
  BY <1>2, <1>3, FrameFacts
<1>5. Sound(B.refs, B.roots, B.holders, B.sources)
  BY <1>1, <1>2, <1>3, TopFacts DEF Nested, SoundBase
<1>6. \A i \in F.issued : ~refs[i].active
  <2>1. IsFiniteSet(F.issued) /\ Cardinality(ActiveIn(F, refs)) = 0
    BY <1>2 DEF Within
  <2>2. ActiveIn(F, refs) \subseteq F.issued BY DEF ActiveIn
  <2>3. IsFiniteSet(ActiveIn(F, refs)) BY <2>1, <2>2, FS_Subset
  <2>4. ActiveIn(F, refs) = {} BY <2>1, <2>3, FS_EmptySet
  <2> QED BY <2>4 DEF ActiveIn
<1>7. \A i \in DOMAIN B.refs : refs[i] = B.refs[i]
  BY <1>2, <1>3, <1>6 DEF Within, Kept
<1>8. DOMAIN refs = DOMAIN B.refs \cup F.issued
  BY <1>2, <1>3 DEF Within
<1>9. Alive(refs) = Alive(B.refs)
  BY <1>6, <1>7, <1>8 DEF Alive
<1>10. \A i \in Alive(refs) : i \in DOMAIN B.refs /\ refs[i] = B.refs[i]
  BY <1>7, <1>9 DEF Alive
<1>11. roots = B.roots
  <2>1. \A s \in DOMAIN B.roots : s \in DOMAIN roots /\ roots[s] = B.roots[s]
    BY <1>2, <1>3 DEF Within
  <2>2. \A s \in DOMAIN roots : s \in DOMAIN B.roots
    BY <1>2, <1>3, <1>6 DEF Within, LedgerSound, Sound, Rooted
  <2>3. roots \in Map(Support, Nat) BY <1>2 DEF Typed
  <2>4. DOMAIN roots = DOMAIN B.roots BY <2>1, <2>2
  <2> QED BY <1>4, <2>1, <2>3, <2>4, MapsEqual
<1>12. holders = B.holders
  <2>1. Numbered(roots, holders) /\ Numbered(roots, B.holders)
    BY <1>2, <1>5, <1>11 DEF LedgerSound, Sound
  <2>2. /\ DOMAIN holders = DOMAIN B.holders
        /\ \A q \in DOMAIN holders : holders[q] = B.holders[q]
    BY <2>1 DEF Numbered
  <2>3. holders \in Map(Participant, Nat) BY <1>2 DEF Typed
  <2> QED BY <1>4, <2>2, <2>3, MapsEqual
<1>13. sources = B.sources
  <2>1. Planned(refs, sources) /\ Planned(B.refs, B.sources)
    BY <1>2, <1>5 DEF LedgerSound, Sound
  <2>2. \A i \in Alive(refs) : PlanOf(refs, i) = PlanOf(B.refs, i)
    BY <1>10 DEF PlanOf
  <2>3. \A k \in DOMAIN sources : k \in DOMAIN B.sources /\ B.sources[k] = sources[k]
    <3> SUFFICES ASSUME NEW k \in DOMAIN sources
                 PROVE  k \in DOMAIN B.sources /\ B.sources[k] = sources[k]
      OBVIOUS
    <3>1. PICK i : i = sources[k] OBVIOUS
    <3>2. i \in Alive(refs) /\ refs[i].plan # None /\ k = PlanOf(refs, i)
      BY <2>1, <3>1 DEF Planned
    <3>3. i \in Alive(B.refs) /\ B.refs[i].plan # None /\ k = PlanOf(B.refs, i)
      BY <1>9, <1>10, <2>2, <3>2
    <3> QED BY <2>1, <3>1, <3>3 DEF Planned
  <2>4. \A k \in DOMAIN B.sources : k \in DOMAIN sources
    <3> SUFFICES ASSUME NEW k \in DOMAIN B.sources
                 PROVE  k \in DOMAIN sources
      OBVIOUS
    <3>1. PICK i : i = B.sources[k] OBVIOUS
    <3>2. i \in Alive(B.refs) /\ B.refs[i].plan # None /\ k = PlanOf(B.refs, i)
      BY <2>1, <3>1 DEF Planned
    <3>3. i \in Alive(refs) /\ refs[i].plan # None /\ k = PlanOf(refs, i)
      BY <1>9, <1>10, <2>2, <3>2
    <3> QED BY <2>1, <3>3 DEF Planned
  <2>5. PICK K : K = Participant \X PlanKey OBVIOUS
  <2>6. sources \in Map(K, Nat) /\ B.sources \in Map(K, Nat)
    BY <1>2, <1>4, <2>5 DEF Typed
  <2>7. DOMAIN sources = DOMAIN B.sources
    BY <2>3, <2>4
  <2>8. \A k \in DOMAIN sources : sources[k] = B.sources[k]
    BY <2>3
  <2> QED BY ONLY <2>6, <2>7, <2>8, MapsEqual
<1>14. rest = B.rest
  BY <1>2, <1>3 DEF Within
<1> QED BY <1>1, <1>3, <1>9, <1>10, <1>11, <1>12, <1>13, <1>14

LEMMA BeginScopeStep ==
    ASSUME ScopeInv, NEW p \in Participant, NEW key \in ScopeKey, BeginScope(p, key)
    PROVE  ScopeInv'
<1>1. /\ Typed /\ LedgerSound /\ Nested /\ TopWithin /\ Issued /\ Placed /\ EndedInactive
  BY DEF ScopeInv
<1>2. /\ refs' = refs /\ roots' = roots /\ holders' = holders /\ sources' = sources
      /\ rest' = rest /\ place' = place /\ nextRef' = nextRef /\ ended' = ended
  BY DEF BeginScope
<1>3. PICK N : N = NewFrame(p, key) OBVIOUS
<1>4. frames' = Append(frames, N) BY <1>3 DEF BeginScope
<1>5. /\ N.holder = p /\ N.key = key /\ N.issued = {} /\ N.active = 0 /\ N.restored = {}
      /\ N.base.refs = refs /\ N.base.roots = roots /\ N.base.holders = holders
      /\ N.base.sources = sources /\ N.base.rest = rest
  BY <1>3 DEF NewFrame
<1>6. N \in FrameType
  BY <1>1, <1>3 DEF NewFrame, FrameType, LedgerType, Typed
<1>7. /\ frames' \in Seq(FrameType) /\ Len(frames') = Len(frames) + 1
      /\ Len(frames) \in Nat /\ frames' # <<>>
      /\ frames'[Len(frames) + 1] = N
      /\ \A k \in 1 .. Len(frames) : frames'[k] = frames[k]
  BY <1>1, <1>4, <1>6 DEF Typed
<1>8. Within(N, refs, roots, rest)
  <2>1. ActiveIn(N, refs) = {} BY <1>5 DEF ActiveIn
  <2>2. IsFiniteSet(N.issued) /\ N.active = Cardinality(ActiveIn(N, refs))
    BY <1>5, <2>1, FS_EmptySet
  <2> QED BY <1>5, <2>2 DEF Within, Kept
<1>9. TopWithin'
  BY <1>2, <1>7, <1>8 DEF TopWithin, Top
<1>10. Nested'
  <2> SUFFICES ASSUME NEW k \in 1 .. Len(frames')
               PROVE  /\ SoundBase(frames'[k])
                      /\ k + 1 \in 1 .. Len(frames') =>
                            Within(frames'[k], frames'[k + 1].base.refs,
                                   frames'[k + 1].base.roots, frames'[k + 1].base.rest)
    BY DEF Nested, SoundBase
  <2>1. CASE k = Len(frames) + 1
    <3>1. SoundBase(N) BY <1>1, <1>5 DEF SoundBase, LedgerSound
    <3> QED BY <1>7, <2>1, <3>1
  <2>2. CASE k # Len(frames) + 1
    <3>1. k \in 1 .. Len(frames) /\ frames'[k] = frames[k] BY <1>7, <2>2
    <3>2. SoundBase(frames[k]) BY <1>1, <3>1 DEF Nested
    <3>3. CASE k = Len(frames)
      <4>1. frames # <<>> /\ Within(frames[k], refs, roots, rest)
        BY <1>1, <3>1, <3>3 DEF TopWithin, Top
      <4> QED BY <1>5, <1>7, <3>1, <3>2, <3>3, <4>1
    <3>4. CASE k # Len(frames)
      <4>1. k + 1 \in 1 .. Len(frames) /\ frames'[k + 1] = frames[k + 1]
        BY <1>7, <3>1, <3>4
      <4>2. Within(frames[k], frames[k + 1].base.refs, frames[k + 1].base.roots,
                   frames[k + 1].base.rest)
        BY <1>1, <3>1, <4>1 DEF Nested
      <4> QED BY <3>1, <3>2, <4>1, <4>2
    <3> QED BY <3>3, <3>4
  <2> QED BY <2>1, <2>2
<1>11. Issued'
  <2>1. \A k \in 1 .. Len(frames') : \A i \in DOMAIN frames'[k].base.refs : i < nextRef
    <3> SUFFICES ASSUME NEW k \in 1 .. Len(frames')
                 PROVE  \A i \in DOMAIN frames'[k].base.refs : i < nextRef
      OBVIOUS
    <3>1. CASE k = Len(frames) + 1 BY <1>1, <1>5, <1>7, <3>1 DEF Issued
    <3>2. CASE k # Len(frames) + 1
      <4>1. k \in 1 .. Len(frames) /\ frames'[k] = frames[k] BY <1>7, <3>2
      <4> QED BY <1>1, <4>1 DEF Issued
    <3> QED BY <3>1, <3>2
  <2> QED BY <1>1, <1>2, <2>1 DEF Issued
<1>12. Typed' /\ LedgerSound' /\ Placed' /\ EndedInactive'
  BY <1>1, <1>2, <1>7 DEF Typed, LedgerSound, Placed, EndedInactive
<1> QED BY <1>9, <1>10, <1>11, <1>12 DEF ScopeInv

LEMMA CloseScopeStep ==
    ASSUME ScopeInv, NEW p \in Participant, NEW key \in ScopeKey, CloseScope(p, key)
    PROVE  ScopeInv'
<1>1. /\ Typed /\ LedgerSound /\ Nested /\ TopWithin /\ Issued /\ Placed /\ EndedInactive
  BY DEF ScopeInv
<1>2. /\ frames # <<>> /\ Top.active = 0
      /\ refs' = Top.base.refs /\ roots' = Top.base.roots /\ holders' = Top.base.holders
      /\ sources' = Top.base.sources /\ rest' = Top.base.rest
      /\ frames' = SubSeq(frames, 1, Len(frames) - 1)
      /\ place' = place /\ nextRef' = nextRef /\ ended' = ended
  BY DEF CloseScope, MayClose
<1>3. /\ Alive(refs) = Alive(Top.base.refs) /\ roots = Top.base.roots
  BY <1>2, Balanced
<1>4. PICK n : n = Len(frames) OBVIOUS
<1>5. /\ n \in Nat /\ n >= 1 /\ Top = frames[n] /\ Top \in FrameType
  BY <1>1, <1>2, <1>4, TopFacts
<1>6. /\ frames' \in Seq(FrameType) /\ Len(frames') = n - 1
      /\ \A k \in 1 .. n - 1 : frames'[k] = frames[k]
  BY <1>1, <1>2, <1>4, <1>5 DEF Typed
<1>7. Typed'
  <2>1. /\ refs' \in Map(Nat, Record) /\ roots' \in Map(Support, Nat)
        /\ holders' \in Map(Participant, Nat)
        /\ sources' \in Map(Participant \X PlanKey, Nat) /\ rest' \in Nat
    BY <1>2, <1>5, FrameFacts
  <2> QED BY <1>1, <1>2, <1>6, <2>1 DEF Typed
<1>8. LedgerSound'
  <2>1. SoundBase(frames[n]) BY <1>1, <1>4, <1>5 DEF Nested
  <2> QED BY <1>2, <1>5, <2>1 DEF LedgerSound, SoundBase
<1>9. Nested'
  <2> SUFFICES ASSUME NEW k \in 1 .. n - 1
               PROVE  /\ SoundBase(frames'[k])
                      /\ k + 1 \in 1 .. n - 1 =>
                            Within(frames'[k], frames'[k + 1].base.refs,
                                   frames'[k + 1].base.roots, frames'[k + 1].base.rest)
    BY <1>6 DEF Nested, SoundBase
  <2>1. k \in 1 .. n /\ frames'[k] = frames[k] BY <1>5, <1>6
  <2>2. k + 1 \in 1 .. n - 1 => k + 1 \in 1 .. n /\ frames'[k + 1] = frames[k + 1]
    BY <1>5, <1>6
  <2> QED BY <1>1, <1>4, <2>1, <2>2 DEF Nested
<1>10. TopWithin'
  <2> SUFFICES ASSUME frames' # <<>>
               PROVE  Within(frames'[Len(frames')], refs', roots', rest')
    BY DEF TopWithin, Top
  <2>1. n - 1 \in 1 .. n /\ n - 1 \in 1 .. n - 1
    BY <1>5, <1>6
  <2>2. frames'[Len(frames')] = frames[n - 1]
    BY <1>6, <2>1
  <2>3. PICK k : k = n - 1 OBVIOUS
  <2>4. k \in 1 .. Len(frames) /\ k + 1 \in 1 .. Len(frames) /\ k + 1 = n
    BY <1>4, <1>5, <2>1, <2>3
  <2>5. Within(frames[k], frames[k + 1].base.refs, frames[k + 1].base.roots,
               frames[k + 1].base.rest)
    BY <1>1, <2>4 DEF Nested
  <2> QED BY <1>2, <1>5, <2>2, <2>3, <2>4, <2>5
<1>11. Issued'
  <2>1. \A k \in 1 .. n : \A i \in DOMAIN frames[k].base.refs : i < nextRef
    BY <1>1, <1>4 DEF Issued
  <2>2. \A i \in DOMAIN refs' : i < nextRef
    BY <1>2, <1>5, <2>1
  <2>3. \A k \in 1 .. n - 1 : \A i \in DOMAIN frames'[k].base.refs : i < nextRef
    BY <1>5, <1>6, <2>1
  <2> QED BY <1>1, <1>2, <1>6, <2>2, <2>3 DEF Issued
<1>12. Placed' /\ EndedInactive'
  BY <1>1, <1>2, <1>3 DEF Placed, EndedInactive
<1> QED BY <1>7, <1>8, <1>9, <1>10, <1>11, <1>12 DEF ScopeInv

----------------------------------------------------------------------------
(* The invariant and the theorems                                          *)

LEMMA ScopeInit == ASSUME Init PROVE ScopeInv
<1>1. /\ refs = EmptyMap /\ roots = EmptyMap /\ holders = EmptyMap /\ sources = EmptyMap
      /\ frames = <<>> /\ rest = 0 /\ place = [s \in Support |-> "held"]
      /\ nextRef = 0 /\ ended = {}
  BY DEF Init
<1>2. DOMAIN EmptyMap = {} /\ \A D, R : EmptyMap \in Map(D, R)
  <2>1. DOMAIN EmptyMap = {} BY DEF EmptyMap
  <2>2. ASSUME NEW D, NEW R PROVE EmptyMap \in Map(D, R)
    <3>1. PICK X : X = {} OBVIOUS
    <3>2. EmptyMap \in [X -> R] /\ X \subseteq D BY <3>1 DEF EmptyMap
    <3> QED BY ONLY <3>2, MapIntro
  <2> QED BY <2>1, <2>2
<1>3. Typed
  BY <1>1, <1>2 DEF Typed
<1>4. Chained(refs) /\ Leased(refs, roots) /\ Rooted(refs, roots)
  BY <1>1, <1>2 DEF Chained, Leased, Rooted
<1>5. Numbered(roots, holders)
  <2>1. \A p : OwnedBy(roots, p) = {} BY <1>1, <1>2 DEF OwnedBy
  <2>2. IsFiniteSet(DOMAIN roots) BY <1>1, <1>2, FS_EmptySet
  <2> QED BY <1>1, <1>2, <2>1, <2>2 DEF Numbered
<1>6. Planned(refs, sources)
  BY <1>1, <1>2 DEF Planned, Alive
<1>7. LedgerSound
  BY <1>4, <1>5, <1>6 DEF LedgerSound, Sound
<1>8. Nested /\ TopWithin /\ Issued /\ Placed /\ EndedInactive
  BY <1>1, <1>2 DEF Nested, TopWithin, Issued, Placed, EndedInactive
<1> QED BY <1>3, <1>7, <1>8 DEF ScopeInv

\* Steps that leave references, roots and frames alone.
LEMMA QuietStep ==
    ASSUME ScopeInv, place' \in [Support -> {"held", "reserved", "away"}],
           \A s \in Support : place'[s] = "reserved" <=> place[s] = "reserved",
           rest' \in Nat, frames # <<>> => rest' = rest,
           UNCHANGED <<refs, roots, holders, sources, frames, nextRef, ended>>
    PROVE  ScopeInv'
<1>1. Typed' /\ LedgerSound' /\ Nested' /\ Issued' /\ EndedInactive'
  BY DEF ScopeInv, Typed, LedgerSound, Nested, SoundBase, Issued, EndedInactive
<1>2. TopWithin' BY DEF ScopeInv, TopWithin, Top
<1>3. Placed' BY DEF ScopeInv, Placed
<1> QED BY <1>1, <1>2, <1>3 DEF ScopeInv

LEMMA ScopeStep == ASSUME ScopeInv, [Next]_vars PROVE ScopeInv'
<1>1. ASSUME NEW p \in Participant, NEW s \in Support, NEW plan \in PlanKey \cup {None},
             Birth(p, s, plan)
      PROVE  ScopeInv'
  BY <1>1, BirthStep
<1>2. ASSUME NEW p \in Participant, NEW i \in DOMAIN refs,
             NEW plan \in PlanKey \cup {None}, Reborrow(p, i, plan)
      PROVE  ScopeInv'
  BY <1>2, ReborrowStep
<1>3. ASSUME NEW p \in Participant, NEW i \in DOMAIN refs, EndBorrow(p, i) \/ EndRoot(p, i)
      PROVE  ScopeInv'
  BY <1>3, EndBorrowStep, EndRootStep
<1>4. ASSUME NEW p \in Participant, NEW key \in ScopeKey,
             BeginScope(p, key) \/ CloseScope(p, key)
      PROVE  ScopeInv'
  BY <1>4, BeginScopeStep, CloseScopeStep
<1>5. ASSUME OtherTransition PROVE ScopeInv'
  BY <1>5, QuietStep DEF OtherTransition, ScopeInv, Typed
<1>6. ASSUME NEW s \in Support, GiveAway(s) \/ TakeBack(s) PROVE ScopeInv'
  <2>1. /\ rest' = rest /\ rest \in Nat
        /\ UNCHANGED <<refs, roots, holders, sources, frames, nextRef, ended>>
        /\ place \in [Support -> {"held", "reserved", "away"}]
        /\ place[s] # "reserved"
        /\ \/ place' = [place EXCEPT ![s] = "away"]
           \/ place' = [place EXCEPT ![s] = "held"]
    BY <1>6 DEF GiveAway, TakeBack, ScopeInv, Typed
  <2>2. /\ place' \in [Support -> {"held", "reserved", "away"}]
        /\ \A x \in Support : place'[x] = "reserved" <=> place[x] = "reserved"
    BY <2>1
  <2> QED BY <2>1, <2>2, QuietStep
<1>7. ASSUME UNCHANGED vars PROVE ScopeInv'
  BY <1>7, QuietStep DEF vars, ScopeInv, Typed
<1> QED BY <1>1, <1>2, <1>3, <1>4, <1>5, <1>6, <1>7 DEF Next

LEMMA ScopeInvariant == Spec => []ScopeInv
  BY ScopeInit, ScopeStep, PTL DEF Spec

\* A scope whose references have all ended is at the ledger it was entered
\* with, so restoring that ledger (close_local_reference_scope) forgets
\* nothing but ended references.
THEOREM ScopesBalance == Spec => []BalancedScopeIsEntry
<1>1. ASSUME ScopeInv PROVE BalancedScopeIsEntry
  BY <1>1, Balanced DEF BalancedScopeIsEntry
<1> QED BY <1>1, ScopeInvariant, PTL

\* An owner is out of the context exactly while a root stands for it, and the
\* chain of borrows of that root has exactly one usable end.
THEOREM OwnersHaveOneLease == Spec => []OneLeasePerOwner
<1>1. ASSUME ScopeInv PROVE OneLeasePerOwner
  <2> SUFFICES ASSUME NEW s \in Support
               PROVE  LET leases == {i \in DOMAIN refs : Usable(i) /\ refs[i].support = s} IN
                      /\ place[s] = "reserved" <=> s \in DOMAIN roots
                      /\ Cardinality(leases) = IF place[s] = "reserved" THEN 1 ELSE 0
    BY DEF OneLeasePerOwner
  <2> DEFINE leases == {i \in DOMAIN refs : Usable(i) /\ refs[i].support = s}
  <2>1. place[s] = "reserved" <=> s \in DOMAIN roots
    BY <1>1 DEF ScopeInv, Placed
  <2>2. Leased(refs, roots)
    BY <1>1 DEF ScopeInv, LedgerSound, Sound
  <2>3. CASE s \in DOMAIN roots
    <3>1. PICK i \in DOMAIN refs : \A j \in DOMAIN refs :
                  (UsableIn(refs, j) /\ refs[j].support = s) <=> j = i
      BY <2>2, <2>3 DEF Leased
    <3>2. leases = {i} BY <3>1 DEF Usable, UsableIn
    <3>3. Cardinality({i}) = 1 BY FS_Singleton
    <3> QED BY <2>1, <2>3, <3>2, <3>3
  <2>4. CASE s \notin DOMAIN roots
    <3>1. leases = {} BY <2>2, <2>4 DEF Leased, Usable, UsableIn
    <3>2. Cardinality({}) = 0 BY FS_EmptySet
    <3> QED BY <2>1, <2>4, <3>1, <3>2
  <2> QED BY <2>3, <2>4
<1> QED BY <1>1, ScopeInvariant, PTL

\* A pointer that still names an ended lease never becomes usable again,
\* although scopes roll the ledger back (LocalReferenceId::fresh does not).
THEOREM EndedStayEnded == Spec => []EndedLeasesStayUnusable
<1>1. ASSUME ScopeInv PROVE EndedLeasesStayUnusable
  BY <1>1 DEF ScopeInv, EndedInactive, EndedLeasesStayUnusable, Usable, Alive
<1> QED BY <1>1, ScopeInvariant, PTL
=============================================================================
