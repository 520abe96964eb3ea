-------------------------- MODULE LoanLedgerProofs ---------------------------
EXTENDS LoanLedger, FiniteSetTheorems, WellFoundedInduction, TLAPS

----------------------------------------------------------------------------
(* Types                                                                   *)

LEMMA InsertedType ==
    ASSUME NEW n \in Nat, NEW T, NEW f \in [Ids(n) -> T], NEW v \in T
    PROVE  WithInserted(f, n, v) \in [Ids(n + 1) -> T]
  BY DEF WithInserted, Ids

LEMMA NonlocalType ==
    ASSUME NEW ranges \in SUBSET Memory
    PROVE  Nonlocal(ranges) \in Nat
  <1>1. IsFiniteSet((ranges \cap Indexed) \ LocalBlock)
    BY FS_Subset, ConstantAssumption DEF Memory
  <1> QED BY <1>1, FS_CardinalityType DEF Nonlocal

LEMMA RegisterType ==
    ASSUME TypeOK, NEW l \in Nat, NEW backing \in SUBSET Memory,
           NEW permitted, NEW entersSymbolic,
           Register(l, backing, permitted, entersSymbolic)
    PROVE  /\ index' \subseteq Memory \X Nat
           /\ unindexed' \subseteq Memory \X Nat
           /\ count' \in [loans : Nat, nonlocal : Nat]
  <1>1. Nonlocal(backing) \in Nat BY NonlocalType
  <1>2. index' \subseteq Memory \X Nat /\ unindexed' \subseteq Memory \X Nat
    BY DEF Register, TypeOK, SymbolicRanges
  <1>3. count' \in [loans : Nat, nonlocal : Nat]
    BY <1>1 DEF Register, TypeOK
  <1> QED BY <1>2, <1>3

LEMMA OpenRootType ==
    ASSUME TypeOK, NEW b \in Participant, NEW closeRight \in Option(Participant),
           NEW o \in Occurrence, NEW head \in Option(Resource),
           NEW permitted \in SUBSET Resource, NEW backing \in SUBSET Memory,
           NEW mutexRoot \in Option(Nat), NEW origin \in Origins,
           OpenRoot(b, closeRight, o, head, permitted, backing, mutexRoot, origin),
           owner' \in [Owned -> Option(Participant)]
    PROVE  TypeOK'
  <1>1. next \in [loan : Nat, share : Nat, hold : Nat] BY DEF TypeOK
  <1>2. /\ next' \in [loan : Nat, share : Nat, hold : Nat]
        /\ next'.loan = next.loan + 1 /\ next'.share = next.share + 1
        /\ next'.hold = next.hold
    BY <1>1 DEF OpenRoot, Advance
  <1>3. scopes' \in [Ids(next'.loan) -> ScopeRecord]
    <2>1. NewScope(closeRight, None, None) \in ScopeRecord
      BY <1>1 DEF NewScope, ScopeRecord, Option
    <2> QED BY <1>1, <1>2, <2>1, InsertedType DEF OpenRoot, TypeOK
  <1>4. loans' \in [Ids(next'.loan) -> LoanRecord]
    <2> DEFINE rec == [support |-> o, head |-> head, permitted |-> permitted,
                       backing |-> backing, mutexRoot |-> mutexRoot,
                       origin |-> origin, right |-> closeRight,
                       recovered |-> FALSE]
    <2>1. rec \in LoanRecord
      BY DEF LoanRecord
    <2>2. loans' = WithInserted(loans, next.loan, rec) BY DEF OpenRoot
    <2> HIDE DEF rec
    <2> QED BY <1>1, <1>2, <2>1, <2>2, InsertedType DEF TypeOK
  <1>5. shares' \in [Ids(next'.share) -> ShareRecord]
    <2>1. RootShare(next.loan, b) \in ShareRecord
      BY <1>1 DEF RootShare, ShareRecord, Option
    <2> QED BY <1>1, <1>2, <2>1, InsertedType DEF OpenRoot, TypeOK
  <1>6. /\ index' \subseteq Memory \X Nat
        /\ unindexed' \subseteq Memory \X Nat
        /\ count' \in [loans : Nat, nonlocal : Nat]
    <2>1. Register(next.loan, backing, permitted, TRUE) BY DEF OpenRoot
    <2> QED BY <1>1, <2>1, RegisterType
  <1> QED
    BY <1>2, <1>3, <1>4, <1>5, <1>6 DEF OpenRoot, TypeOK

LEMMA OpenChildType ==
    ASSUME TypeOK, NEW p \in Participant, NEW b \in Participant,
           NEW sh \in DOMAIN shares, NEW head \in Option(Resource),
           NEW permitted \in SUBSET Resource, NEW backing \in SUBSET Memory,
           NEW mutexRoot \in Option(Nat), loans[shares[sh].scope].support \in Occurrence,
           OpenChild(p, b, sh, head, permitted, backing, mutexRoot)
    PROVE  TypeOK'
  <1>1. /\ next \in [loan : Nat, share : Nat, hold : Nat]
        /\ scopes \in [Ids(next.loan) -> ScopeRecord]
        /\ loans \in [Ids(next.loan) -> LoanRecord]
        /\ shares \in [Ids(next.share) -> ShareRecord]
        /\ shares[sh].scope \in Nat /\ sh \in Nat
    BY DEF TypeOK, ShareRecord, Ids
  <1>2. /\ next' \in [loan : Nat, share : Nat, hold : Nat]
        /\ next'.loan = next.loan + 1 /\ next'.share = next.share + 1
        /\ next'.hold = next.hold
    BY <1>1 DEF OpenChild, Advance
  <1>3. scopes' \in [Ids(next'.loan) -> ScopeRecord]
    <2> DEFINE up == shares[sh].scope
               base == [scopes EXCEPT ![up].dependencies = @ \cup {next.loan}]
    <2>1. NewScope(p, up, sh) \in ScopeRecord
      BY <1>1 DEF NewScope, ScopeRecord, Option
    <2>2. base \in [Ids(next.loan) -> ScopeRecord]
      BY <1>1 DEF ScopeRecord
    <2>3. scopes' = WithInserted(base, next.loan, NewScope(p, up, sh))
      BY DEF OpenChild
    <2> HIDE DEF base, up
    <2> QED BY <1>1, <1>2, <2>1, <2>2, <2>3, InsertedType
  <1>4. loans' \in [Ids(next'.loan) -> LoanRecord]
    <2> DEFINE rec == [support |-> loans[shares[sh].scope].support, head |-> head,
                       permitted |-> permitted, backing |-> backing,
                       mutexRoot |-> mutexRoot, origin |-> "Reborrowed",
                       right |-> None, recovered |-> FALSE]
    <2>1. rec \in LoanRecord
      BY DEF LoanRecord, Origins, Option
    <2>2. loans' = WithInserted(loans, next.loan, rec) BY DEF OpenChild
    <2> HIDE DEF rec
    <2> QED BY <1>1, <1>2, <2>1, <2>2, InsertedType
  <1>5. shares' \in [Ids(next'.share) -> ShareRecord]
    <2> DEFINE base == [shares EXCEPT ![sh] = ShareAs(sh, @.children, None, next.loan)]
    <2>1. RootShare(next.loan, b) \in ShareRecord
      BY <1>1 DEF RootShare, ShareRecord, Option
    <2>2. base \in [Ids(next.share) -> ShareRecord]
      BY <1>1 DEF ShareRecord, ShareAs, Option
    <2>3. shares' = WithInserted(base, next.share, RootShare(next.loan, b))
      BY DEF OpenChild
    <2> HIDE DEF base
    <2> QED BY <1>1, <1>2, <2>1, <2>2, <2>3, InsertedType
  <1>6. /\ index' \subseteq Memory \X Nat
        /\ unindexed' \subseteq Memory \X Nat
        /\ count' \in [loans : Nat, nonlocal : Nat]
    <2>1. Register(next.loan, backing, permitted, FALSE) BY DEF OpenChild
    <2> QED BY <1>1, <2>1, RegisterType
  <1> QED
    BY <1>2, <1>3, <1>4, <1>5, <1>6 DEF OpenChild, TypeOK

\* Every share belongs to a scope that was opened.
ScopesOpened == \A sh \in Ids(next.share) : shares[sh].scope \in Ids(next.loan)

TypeInv == TypeOK /\ ScopesOpened

LEMMA OpenRootScopes ==
    ASSUME TypeInv, NEW b, NEW closeRight, NEW o, NEW head, NEW permitted,
           NEW backing, NEW mutexRoot, NEW origin,
           OpenRoot(b, closeRight, o, head, permitted, backing, mutexRoot, origin)
    PROVE  ScopesOpened'
  BY DEF TypeInv, TypeOK, ScopesOpened, OpenRoot, Advance, WithInserted, RootShare, Ids

LEMMA OpenChildScopes ==
    ASSUME TypeInv, NEW p, NEW b, NEW sh \in DOMAIN shares, NEW head, NEW permitted,
           NEW backing, NEW mutexRoot,
           OpenChild(p, b, sh, head, permitted, backing, mutexRoot)
    PROVE  ScopesOpened'
  BY DEF TypeInv, TypeOK, ScopesOpened, OpenChild, Advance, WithInserted, RootShare,
         ShareAs, Ids

LEMMA TypeInvInit == Init => TypeInv
  BY DEF Init, TypeInv, TypeOK, ScopesOpened, EmptyMap, Ids, Option

LEMMA UnregisterType ==
    ASSUME TypeOK, NEW l \in DOMAIN loans, Unregister(l)
    PROVE  /\ index' \subseteq Memory \X Nat
           /\ unindexed' \subseteq Memory \X Nat
           /\ count' \in [loans : Nat, nonlocal : Nat]
  <1>1. loans[l].backing \in SUBSET Memory BY DEF TypeOK, LoanRecord
  <1>2. Nonlocal(loans[l].backing) \in Nat BY <1>1, NonlocalType
  <1>3. index' \subseteq Memory \X Nat /\ unindexed' \subseteq Memory \X Nat
    BY DEF Unregister, TypeOK
  <1>4. count' \in [loans : Nat, nonlocal : Nat]
    BY <1>2 DEF Unregister, TypeOK
  <1> QED BY <1>3, <1>4

LEMMA ShareAsType ==
    ASSUME TypeOK, NEW sh \in DOMAIN shares, NEW c \in Option(Nat \X Nat),
           NEW h \in Option(Participant), NEW n \in Option(Nat)
    PROVE  /\ ShareAs(sh, c, h, n) \in ShareRecord
           /\ ShareAs(sh, c, h, n).scope = shares[sh].scope
           /\ Held(sh, h) \in ShareRecord
           /\ Held(sh, h).scope = shares[sh].scope
  BY DEF TypeOK, ShareAs, Held, ShareRecord

LEMMA SplitType ==
    ASSUME TypeInv, NEW p \in Participant, NEW sh \in DOMAIN shares,
           NEW lh \in Participant, NEW rh \in Participant, Split(p, sh, lh, rh)
    PROVE  TypeInv'
  <1> DEFINE n == next.share
             Child(h) == [scope |-> shares[sh].scope, parent |-> sh,
                          children |-> None, holder |-> h, pinnedBy |-> None]
             base == [shares EXCEPT ![sh] = ShareAs(sh, <<n, n + 1>>, None, @.pinnedBy)]
  <1>1. /\ next \in [loan : Nat, share : Nat, hold : Nat]
        /\ shares \in [Ids(n) -> ShareRecord] /\ sh \in Ids(n) /\ sh \in Nat
        /\ shares[sh].scope \in Ids(next.loan) /\ shares[sh].scope \in Nat
        /\ shares[sh].pinnedBy \in Option(Nat)
    BY DEF TypeInv, TypeOK, ScopesOpened, Ids, ShareRecord
  <1>2. /\ Child(lh) \in ShareRecord /\ Child(rh) \in ShareRecord
    BY <1>1 DEF ShareRecord, Option
  <1>3. <<n, n + 1>> \in Option(Nat \X Nat) /\ None \in Option(Participant)
    BY <1>1 DEF Option
  <1>4. base \in [Ids(n) -> ShareRecord]
    BY <1>1, <1>3, ShareAsType DEF TypeInv
  <1>5. shares' = WithInserted(WithInserted(base, n, Child(lh)), n + 1, Child(rh))
    BY DEF Split
  <1>6. /\ next'.loan = next.loan /\ next'.share = n + 2 /\ next'.hold = next.hold
        /\ next' \in [loan : Nat, share : Nat, hold : Nat]
    BY <1>1 DEF Split, Advance
  <1>7. \A x \in Ids(n) : base[x].scope = shares[x].scope
    BY <1>1, <1>3, ShareAsType DEF TypeInv
  <1>8. /\ shares' \in [Ids(n + 2) -> ShareRecord]
        /\ shares'[n] = Child(lh) /\ shares'[n + 1] = Child(rh)
        /\ \A x \in Ids(n) : shares'[x] = base[x]
    <2> DEFINE u == Child(lh)
               v == Child(rh)
               m == n + 1
               k == n + 2
    <2>1. n \in Nat /\ u \in ShareRecord /\ v \in ShareRecord
      BY <1>1, <1>2
    <2>2. shares' = WithInserted(WithInserted(base, n, u), m, v)
      BY <1>5
    <2>3. n # m /\ Ids(k) = Ids(n) \cup {n} \cup {m} /\ n \notin Ids(n) /\ m \notin Ids(n)
      BY <2>1 DEF Ids
    <2> HIDE DEF base, u, v, n, m, k
    <2>4. /\ shares' \in [Ids(k) -> ShareRecord]
          /\ shares'[n] = u /\ shares'[m] = v
          /\ \A x \in Ids(n) : shares'[x] = base[x]
      BY <1>4, <2>1, <2>2, <2>3 DEF WithInserted
    <2> QED BY <2>4 DEF u, v, m, k
  <1>9. ScopesOpened'
    <2>1. Child(lh).scope = shares[sh].scope /\ Child(rh).scope = shares[sh].scope
      OBVIOUS
    <2>2. \A x \in Ids(n + 2) : x \in Ids(n) \/ x = n \/ x = n + 1
      BY <1>1 DEF Ids
    <2>3. \A x \in Ids(n) : shares[x].scope \in Ids(next.loan)
      BY DEF TypeInv, ScopesOpened
    <2> HIDE DEF base, Child
    <2> QED BY <1>1, <1>6, <1>7, <1>8, <2>1, <2>2, <2>3 DEF ScopesOpened
  <1> QED
    BY <1>6, <1>8, <1>9 DEF Split, TypeInv, TypeOK

LEMMA JoinType ==
    ASSUME TypeInv, NEW p \in Participant, NEW left \in DOMAIN shares,
           NEW right \in DOMAIN shares, Join(p, left, right)
    PROVE  TypeInv'
  <1> DEFINE up == shares[left].parent
             both == [shares EXCEPT ![left] = Held(left, None), ![right] = Held(right, None)]
  <1>1. shares \in [Ids(next.share) -> ShareRecord] BY DEF TypeInv, TypeOK
  <1>2. shares' = [both EXCEPT ![up] = Held(up, p)]
    BY DEF Join
  <1>3. /\ Held(left, None) \in ShareRecord /\ Held(left, None).scope = shares[left].scope
        /\ Held(right, None) \in ShareRecord /\ Held(right, None).scope = shares[right].scope
    BY ShareAsType DEF TypeInv, Option
  <1>4. /\ both \in [Ids(next.share) -> ShareRecord]
        /\ \A x \in Ids(next.share) : both[x].scope = shares[x].scope
    BY <1>1, <1>3
  <1>5. /\ shares' \in [Ids(next.share) -> ShareRecord]
        /\ \A x \in Ids(next.share) : shares'[x].scope = shares[x].scope
    <2>1. CASE up \in Ids(next.share)
      <3>1. Held(up, p) \in ShareRecord /\ Held(up, p).scope = shares[up].scope
        BY <1>1, <2>1, ShareAsType DEF TypeInv, Option
      <3> HIDE DEF both, up
      <3> QED BY <1>2, <1>4, <2>1, <3>1
    <2>2. CASE up \notin Ids(next.share)
      <3> HIDE DEF both, up
      <3> QED BY <1>2, <1>4, <2>2
    <2> QED BY <2>1, <2>2
  <1>6. ScopesOpened' BY <1>5 DEF Join, TypeInv, ScopesOpened
  <1> QED BY <1>5, <1>6 DEF Join, TypeInv, TypeOK

LEMMA EndType ==
    ASSUME TypeInv, NEW p \in Participant, NEW s \in DOMAIN scopes, End(p, s)
    PROVE  TypeInv'
  <1> DEFINE root == scopes[s].root
             pin == scopes[s].parentShare
             up == scopes[s].parent
             closed == [shares EXCEPT ![root] = Held(root, None)]
             ended == [scopes EXCEPT ![s].active = FALSE]
  <1>1. /\ scopes \in [Ids(next.loan) -> ScopeRecord]
        /\ shares \in [Ids(next.share) -> ShareRecord]
        /\ DOMAIN loans = DOMAIN scopes
    BY DEF TypeInv, TypeOK
  <1>2. /\ closed \in [Ids(next.share) -> ShareRecord]
        /\ \A x \in Ids(next.share) : closed[x].scope = shares[x].scope
    <2>1. CASE root \in Ids(next.share)
      <3>1. Held(root, None) \in ShareRecord /\ Held(root, None).scope = shares[root].scope
        BY <1>1, <2>1, ShareAsType DEF TypeInv, Option
      <3> QED BY <1>1, <2>1, <3>1
    <2>2. CASE root \notin Ids(next.share)
      BY <1>1, <2>2
    <2> QED BY <2>1, <2>2
  <1>3. /\ [closed EXCEPT ![pin] = ShareAs(pin, @.children, p, None)]
              \in [Ids(next.share) -> ShareRecord]
        /\ \A x \in Ids(next.share) :
             [closed EXCEPT ![pin] = ShareAs(pin, @.children, p, None)][x].scope
                = shares[x].scope
    <2>1. CASE pin \in Ids(next.share)
      <3>1. closed[pin].children \in Option(Nat \X Nat)
        BY <1>2, <2>1 DEF ShareRecord
      <3>2. /\ ShareAs(pin, closed[pin].children, p, None) \in ShareRecord
            /\ ShareAs(pin, closed[pin].children, p, None).scope = shares[pin].scope
        <4> HIDE DEF closed
        <4>1. p \in Option(Participant) /\ None \in Option(Nat) /\ pin \in DOMAIN shares
          BY <1>1, <2>1 DEF Option
        <4> QED BY <3>1, <4>1, ShareAsType DEF TypeInv
      <3> HIDE DEF closed
      <3> QED BY <1>2, <2>1, <3>2
    <2>2. CASE pin \notin Ids(next.share)
      <3> HIDE DEF closed
      <3> QED BY <1>2, <2>2
    <2> QED BY <2>1, <2>2
  <1>4. /\ shares' \in [Ids(next.share) -> ShareRecord]
        /\ \A x \in Ids(next.share) : shares'[x].scope = shares[x].scope
    <2>1. \/ shares' = closed
          \/ shares' = [closed EXCEPT ![pin] = ShareAs(pin, @.children, p, None)]
      BY DEF End
    <2> HIDE DEF closed
    <2> QED BY <1>2, <1>3, <2>1
  <1>5. scopes' \in [Ids(next.loan) -> ScopeRecord]
    <2>1. ended \in [Ids(next.loan) -> ScopeRecord]
      BY <1>1 DEF ScopeRecord
    <2>2. [ended EXCEPT ![up].dependencies = @ \ {s}] \in [Ids(next.loan) -> ScopeRecord]
      <3> HIDE DEF ended
      <3> QED BY <2>1 DEF ScopeRecord
    <2>3. scopes' = ended \/ scopes' = [ended EXCEPT ![up].dependencies = @ \ {s}]
      BY DEF End
    <2> HIDE DEF ended
    <2> QED BY <2>1, <2>2, <2>3
  <1>6. /\ index' \subseteq Memory \X Nat
        /\ unindexed' \subseteq Memory \X Nat
        /\ count' \in [loans : Nat, nonlocal : Nat]
    <2>1. Unregister(s) BY DEF End
    <2> QED BY <1>1, <2>1, UnregisterType DEF TypeInv
  <1>7. ScopesOpened' BY <1>4 DEF End, TypeInv, ScopesOpened
  <1> QED BY <1>4, <1>5, <1>6, <1>7 DEF End, TypeInv, TypeOK

\* Openings of loans that have no parent.
LEMMA RootTypes ==
    ASSUME TypeInv, NEW p \in Participant, NEW b \in Participant, NEW o \in Occurrence,
           \/ o \in Owned /\ (Lend(p, b, o) \/ LendMutexUse(p, b, o) \/ LendComposite(p, b, o))
           \/ BorrowedContractInput(p, o) \/ BorrowedMutexUse(p, o)
           \/ OpenLocalView(p, b, o)
    PROVE  TypeInv'
  <1> DEFINE r == Head[o]
  <1>1. /\ r \in Resource /\ r \in Option(Resource) /\ None \in Option(Resource)
        /\ None \in Option(Nat) /\ next.loan \in Option(Nat)
        /\ p \in Option(Participant) /\ None \in Option(Participant)
        /\ "Escrowed" \in Origins /\ "LocalStorage" \in Origins
        /\ "BorrowedContractInput" \in Origins
        /\ {} \in SUBSET Resource /\ {} \in SUBSET Memory
        /\ Kind[r] = "memory" => {r} \in SUBSET Memory
        /\ {r} \in SUBSET Resource /\ {r} \cup Frontier[r] \in SUBSET Resource
        /\ Frontier[r] \cap Memory \in SUBSET Memory
        /\ ({r} \cup Frontier[r]) \cap Memory \in SUBSET Memory
    BY ConstantAssumption DEF Option, Origins, Memory, TypeInv, TypeOK
  <1>2. owner \in [Owned -> Option(Participant)] BY DEF TypeInv, TypeOK
  <1>3. [owner EXCEPT ![o] = None] \in [Owned -> Option(Participant)]
    BY <1>1, <1>2
  <1> HIDE DEF r
  <1>4. CASE Lend(p, b, o)
    <2> DEFINE backing == IF Kind[r] = "memory" THEN {r} ELSE {}
    <2>1. OpenRoot(b, p, o, r, {r}, backing, None, "Escrowed")
          /\ owner' = [owner EXCEPT ![o] = None]
      BY <1>4 DEF Lend, r
    <2>2. backing \in SUBSET Memory BY <1>1
    <2> HIDE DEF backing
    <2>3. TypeOK' BY <1>1, <1>3, <2>1, <2>2, OpenRootType DEF TypeInv
    <2> QED BY <2>1, <2>3, OpenRootScopes DEF TypeInv
  <1>5. CASE LendMutexUse(p, b, o)
    <2>1. OpenRoot(b, p, o, None, {}, {}, next.loan, "Escrowed")
          /\ owner' = [owner EXCEPT ![o] = None]
      BY <1>5 DEF LendMutexUse
    <2>2. TypeOK' BY <1>1, <1>3, <2>1, OpenRootType DEF TypeInv
    <2> QED BY <2>1, <2>2, OpenRootScopes DEF TypeInv
  <1>6. CASE LendComposite(p, b, o)
    <2>1. OpenRoot(b, p, o, r, {r} \cup Frontier[r], Frontier[r] \cap Memory, None, "Escrowed")
          /\ owner' = [owner EXCEPT ![o] = None]
      BY <1>6 DEF LendComposite, r
    <2>2. TypeOK' BY <1>1, <1>3, <2>1, OpenRootType DEF TypeInv
    <2> QED BY <2>1, <2>2, OpenRootScopes DEF TypeInv
  <1>7. CASE BorrowedContractInput(p, o)
    <2>1. OpenRoot(p, None, o, r, {r} \cup Frontier[r], ({r} \cup Frontier[r]) \cap Memory,
                   None, "BorrowedContractInput") /\ owner' = owner
      BY <1>7 DEF BorrowedContractInput, r
    <2>2. TypeOK' BY <1>1, <1>2, <2>1, OpenRootType DEF TypeInv
    <2> QED BY <2>1, <2>2, OpenRootScopes DEF TypeInv
  <1>8. CASE BorrowedMutexUse(p, o)
    <2>1. OpenRoot(p, None, o, None, {}, {}, next.loan, "BorrowedContractInput")
          /\ owner' = owner
      BY <1>8 DEF BorrowedMutexUse
    <2>2. TypeOK' BY <1>1, <1>2, <2>1, OpenRootType DEF TypeInv
    <2> QED BY <2>1, <2>2, OpenRootScopes DEF TypeInv
  <1>9. CASE OpenLocalView(p, b, o)
    <2>1. OpenRoot(b, p, o, r, {r}, {r}, None, "LocalStorage") /\ owner' = owner
      BY <1>9 DEF OpenLocalView, r
    <2>2. {r} \in SUBSET Memory
      BY <1>1, <1>9, ConstantAssumption DEF OpenLocalView, r
    <2>3. TypeOK' BY <1>1, <1>2, <2>1, <2>2, OpenRootType DEF TypeInv
    <2> QED BY <2>1, <2>3, OpenRootScopes DEF TypeInv
  <1> QED BY <1>4, <1>5, <1>6, <1>7, <1>8, <1>9

\* Openings under a share.
LEMMA ChildTypes ==
    ASSUME TypeInv, NEW p \in Participant, NEW b \in Participant,
           NEW sh \in DOMAIN shares,
           \/ \E v \in Resource : Reborrow(p, b, sh, v)
           \/ ReborrowMutexUse(p, b, sh)
    PROVE  TypeInv'
  <1> DEFINE up == shares[sh].scope
  <1>1. /\ loans[up] \in LoanRecord /\ loans[up].support \in Occurrence
        /\ loans[up].backing \in SUBSET Memory /\ loans[up].mutexRoot \in Option(Nat)
    BY DEF TypeInv, TypeOK, ScopesOpened, LoanRecord
  <1>2. CASE \E v \in Resource : Reborrow(p, b, sh, v)
    <2>1. PICK v \in Resource : Reborrow(p, b, sh, v) BY <1>2
    <2> DEFINE backing == ReborrowedBacking(loans[up], v)
    <2>2. OpenChild(p, b, sh, v, {v}, backing, None) BY <2>1 DEF Reborrow
    <2>3. backing \in SUBSET Memory /\ {v} \in SUBSET Resource
      BY <1>1 DEF ReborrowedBacking, Memory
    <2>4. v \in Option(Resource) /\ None \in Option(Nat) BY DEF Option
    <2> HIDE DEF backing
    <2>5. TypeOK' BY <1>1, <2>2, <2>3, <2>4, OpenChildType DEF TypeInv
    <2> QED BY <2>2, <2>5, OpenChildScopes DEF TypeInv
  <1>3. CASE ReborrowMutexUse(p, b, sh)
    <2>1. OpenChild(p, b, sh, None, {}, {}, loans[up].mutexRoot)
      BY <1>3 DEF ReborrowMutexUse
    <2>2. /\ None \in Option(Resource) /\ {} \in SUBSET Resource
          /\ {} \in SUBSET Memory
      BY DEF Option
    <2>3. TypeOK' BY <1>1, <2>1, <2>2, OpenChildType DEF TypeInv
    <2> QED BY <2>1, <2>3, OpenChildScopes DEF TypeInv
  <1> QED BY <1>2, <1>3

LEMMA TransferType ==
    ASSUME TypeInv, NEW p \in Participant, NEW sh \in DOMAIN shares,
           NEW to \in Participant, Transfer(p, sh, to)
    PROVE  TypeInv'
  <1>1. Held(sh, to) \in ShareRecord /\ Held(sh, to).scope = shares[sh].scope
    BY ShareAsType DEF TypeInv, Option
  <1>2. /\ shares' \in [Ids(next.share) -> ShareRecord]
        /\ \A x \in Ids(next.share) : shares'[x].scope = shares[x].scope
    BY <1>1 DEF Transfer, TypeInv, TypeOK
  <1> QED BY <1>2 DEF Transfer, TypeInv, TypeOK, ScopesOpened

LEMMA HoldType ==
    ASSUME TypeInv, NEW p \in Participant, NEW sh \in DOMAIN shares, Hold(p, sh)
    PROVE  TypeInv'
  <1>1. /\ next \in [loan : Nat, share : Nat, hold : Nat]
        /\ next' \in [loan : Nat, share : Nat, hold : Nat]
        /\ next'.loan = next.loan /\ next'.share = next.share
        /\ next'.hold = next.hold + 1
    BY DEF Hold, Advance, TypeInv, TypeOK
  <1>2. shares[sh].scope \in Nat BY DEF TypeInv, TypeOK, ShareRecord
  <1>3. scopes' \in [Ids(next.loan) -> ScopeRecord]
    <2>1. scopes \in [Ids(next.loan) -> ScopeRecord] BY DEF TypeInv, TypeOK
    <2>2. scopes' = [scopes EXCEPT ![shares[sh].scope].holds = @ \cup {next.hold}]
      BY DEF Hold
    <2>3. next.hold \in Nat BY <1>1
    <2> QED BY <2>1, <2>2, <2>3 DEF ScopeRecord
  <1>4. /\ DOMAIN holds' \subseteq Ids(next'.hold)
        /\ \A h \in DOMAIN holds' : holds'[h] \in [scope : Nat, by : Participant]
    BY <1>1, <1>2 DEF Hold, TypeInv, TypeOK, WithInserted, Ids
  <1> QED BY <1>1, <1>3, <1>4 DEF Hold, TypeInv, TypeOK, ScopesOpened

LEMMA ReleaseType ==
    ASSUME TypeInv, NEW p \in Participant, NEW h \in DOMAIN holds, Release(p, h)
    PROVE  TypeInv'
  <1>1. scopes' \in [Ids(next.loan) -> ScopeRecord]
    <2>1. scopes \in [Ids(next.loan) -> ScopeRecord] BY DEF TypeInv, TypeOK
    <2>2. scopes' = [scopes EXCEPT ![holds[h].scope].holds = @ \ {h}]
      BY DEF Release
    <2> QED BY <2>1, <2>2 DEF ScopeRecord
  <1>2. /\ DOMAIN holds' \subseteq Ids(next.hold)
        /\ \A k \in DOMAIN holds' : holds'[k] \in [scope : Nat, by : Participant]
    BY DEF Release, TypeInv, TypeOK, WithoutKey
  <1> QED BY <1>1, <1>2 DEF Release, TypeInv, TypeOK, ScopesOpened

LEMMA RecoverType ==
    ASSUME TypeInv, NEW p \in Participant, NEW l \in DOMAIN loans, Recover(p, l)
    PROVE  TypeInv'
  <1>1. loans' \in [Ids(next.loan) -> LoanRecord]
    <2>1. loans \in [Ids(next.loan) -> LoanRecord] BY DEF TypeInv, TypeOK
    <2>2. loans' = [loans EXCEPT ![l].recovered = TRUE] BY DEF Recover
    <2> QED BY <2>1, <2>2 DEF LoanRecord
  <1>2. owner' \in [Owned -> Option(Participant)]
    BY DEF Recover, TypeInv, TypeOK, Option
  <1> QED BY <1>1, <1>2 DEF Recover, TypeInv, TypeOK, ScopesOpened

LEMMA ProjectType ==
    ASSUME TypeInv, NEW l \in DOMAIN loans, NEW c \in Resource, NEW child \in Resource,
           Project(l, c, child)
    PROVE  TypeInv'
  <1>1. loans' \in [Ids(next.loan) -> LoanRecord]
    BY DEF Project, TypeInv, TypeOK, LoanRecord
  <1> QED BY <1>1 DEF Project, TypeInv, TypeOK, ScopesOpened

LEMMA TypeInvStep ==
    ASSUME TypeInv, [Next]_vars
    PROVE  TypeInv'
  <1>1. ASSUME NEW p \in Participant, Step(p)
        PROVE  TypeInv'
    BY <1>1, RootTypes, ChildTypes, SplitType, TransferType, JoinType, HoldType,
       ReleaseType, EndType, RecoverType DEF Step, Occurrence
  <1>2. ASSUME NEW l \in DOMAIN loans, NEW c \in Resource, NEW child \in Resource,
               Project(l, c, child)
        PROVE  TypeInv'
    BY <1>2, ProjectType
  <1>3. CASE UNCHANGED vars
    BY <1>3 DEF vars, TypeInv, TypeOK, ScopesOpened
  <1> QED BY <1>1, <1>2, <1>3 DEF Next

LEMMA TypeInvariant == Spec => []TypeInv
  BY TypeInvInit, TypeInvStep, PTL DEF Spec

\* Every reachable ledger is well typed: in particular each counter stays the
\* length of its map, so no ordinal is issued twice, and the barrier counters
\* never go below zero.
THEOREM TypeCorrect == Spec => []TypeOK
  BY TypeInvariant, PTL DEF TypeInv

----------------------------------------------------------------------------
(* A nonempty set of ordinals has a smallest                               *)

LEMMA SmallestOf ==
    ASSUME NEW T \in SUBSET Nat, T # {}
    PROVE  \E m \in T : \A x \in T : m <= x
  <1> DEFINE R == {ss \in Nat \X Nat : ss[1] < ss[2]}
  <1>1. IsWellFoundedOn(R, Nat)
    BY NatLessThanWellFounded, Zenon DEF OpToRel
  <1> HIDE DEF R
  <1>2. \E x \in T : \A y \in T : ~(<<y, x>> \in R)
    BY <1>1, WFMin
  <1>3. \A x, y \in Nat : y < x => <<y, x>> \in R
    BY DEF R
  <1>4. PICK m \in T : \A y \in T : ~(<<y, m>> \in R) BY <1>2
  <1>5. \A y \in T : y \in Nat /\ m \in Nat /\ ~(y < m) BY <1>3, <1>4
  <1>6. \A y \in T : m <= y BY <1>5
  <1> QED BY <1>6

----------------------------------------------------------------------------
(* The invariant: how scopes, shares, loans and owners refer to each other *)

\* A reborrowed scope names the scope and the share it was opened under; the
\* scope above is older and its loan has the same support.
Reborrows ==
    \A s \in Ids(next.loan) : scopes[s].parent # None =>
        /\ scopes[s].parent \in Ids(s)
        /\ scopes[s].parentShare \in Ids(next.share)
        /\ shares[scopes[s].parentShare].scope = scopes[s].parent
        /\ loans[s].support = loans[scopes[s].parent].support
        /\ loans[s].origin = "Reborrowed"

\* A loan without a parent on an owned occurrence keeps its owner in escrow.
Roots ==
    \A s \in Ids(next.loan) : scopes[s].parent = None =>
        /\ loans[s].origin # "Reborrowed"
        /\ loans[s].support \in Owned => loans[s].origin = "Escrowed"

\* An open reborrow pins its share and is a dependency of the open scope above.
Pins ==
    \A s \in Ids(next.loan) : scopes[s].active /\ scopes[s].parent # None =>
        /\ scopes[scopes[s].parent].active
        /\ s \in scopes[scopes[s].parent].dependencies
        /\ shares[scopes[s].parentShare].pinnedBy = s

\* Dependencies are open reborrows.
Dependencies ==
    \A s \in Ids(next.loan) : \A d \in scopes[s].dependencies :
        d \in Ids(next.loan) /\ scopes[d].active /\ scopes[d].parent = s

OpenLoans ==
    \A s \in Ids(next.loan) : scopes[s].active => ~loans[s].recovered

Escrowed(r) == r.origin = "Escrowed" /\ ~r.recovered

\* An occurrence is in escrow exactly while no context has it, in one loan.
Escrow ==
    /\ \A l \in Ids(next.loan) : Escrowed(loans[l]) =>
          loans[l].support \in Owned /\ owner[loans[l].support] = None
    /\ \A l, k \in Ids(next.loan) :
          Escrowed(loans[l]) /\ Escrowed(loans[k]) /\ loans[l].support = loans[k].support => l = k
    /\ \A o \in Owned : owner[o] = None =>
          \E l \in Ids(next.loan) : Escrowed(loans[l]) /\ loans[l].support = o

HoldsOpen ==
    /\ \A h \in DOMAIN holds : /\ holds[h].scope \in Ids(next.loan)
                               /\ scopes[holds[h].scope].active
                               /\ h \in scopes[holds[h].scope].holds
    /\ \A s \in Ids(next.loan) : \A h \in scopes[s].holds :
          h \in DOMAIN holds /\ holds[h].scope = s

Structure == Reborrows /\ Roots /\ Pins /\ Dependencies

SafeInv == TypeInv /\ Structure /\ OpenLoans /\ Escrow /\ HoldsOpen

----------------------------------------------------------------------------
(* What the actions change, field by field                                 *)

LEMMA OpenRootEffect ==
    ASSUME TypeInv, NEW b, NEW closeRight, NEW o, NEW head, NEW permitted,
           NEW backing, NEW mutexRoot, NEW origin,
           OpenRoot(b, closeRight, o, head, permitted, backing, mutexRoot, origin)
    PROVE  /\ next.loan \in Nat /\ next.share \in Nat
           /\ next'.loan = next.loan + 1 /\ next'.share = next.share + 1
           /\ holds' = holds
           /\ \A s \in Ids(next.loan) : scopes'[s] = scopes[s] /\ loans'[s] = loans[s]
           /\ \A x \in Ids(next.share) : shares'[x] = shares[x]
           /\ scopes'[next.loan].active /\ scopes'[next.loan].parent = None
           /\ scopes'[next.loan].dependencies = {} /\ scopes'[next.loan].holds = {}
           /\ loans'[next.loan].support = o /\ loans'[next.loan].origin = origin
           /\ ~loans'[next.loan].recovered
  <1>1. next.loan \in Nat /\ next.share \in Nat /\ DOMAIN scopes = Ids(next.loan)
        /\ DOMAIN loans = Ids(next.loan) /\ DOMAIN shares = Ids(next.share)
    BY DEF TypeInv, TypeOK
  <1>2. next.loan \notin Ids(next.loan) /\ next.share \notin Ids(next.share)
    BY <1>1 DEF Ids
  <1>3. next'.loan = next.loan + 1 /\ next'.share = next.share + 1 /\ holds' = holds
    BY DEF OpenRoot, Advance
  <1>4. \A s \in Ids(next.loan) : scopes'[s] = scopes[s] /\ loans'[s] = loans[s]
    BY <1>1, <1>2 DEF OpenRoot, WithInserted
  <1>5. \A x \in Ids(next.share) : shares'[x] = shares[x]
    BY <1>1, <1>2 DEF OpenRoot, WithInserted
  <1>6. scopes'[next.loan] = NewScope(closeRight, None, None)
    BY DEF OpenRoot, WithInserted
  <1>7. loans'[next.loan] =
            [support |-> o, head |-> head, permitted |-> permitted,
             backing |-> backing, mutexRoot |-> mutexRoot,
             origin |-> origin, right |-> closeRight, recovered |-> FALSE]
    BY DEF OpenRoot, WithInserted
  <1> QED BY <1>1, <1>3, <1>4, <1>5, <1>6, <1>7 DEF NewScope

ChildOpened(sh) ==
    LET n == next.loan
        up == shares[sh].scope
    IN  /\ next.loan \in Nat /\ next.share \in Nat
        /\ next'.loan = next.loan + 1 /\ next'.share = next.share + 1
        /\ holds' = holds /\ owner' = owner
        /\ \A s \in Ids(n) :
              /\ loans'[s] = loans[s]
              /\ (scopes'[s].active <=> scopes[s].active)
              /\ scopes'[s].parent = scopes[s].parent
              /\ scopes'[s].parentShare = scopes[s].parentShare
              /\ scopes'[s].holds = scopes[s].holds
              /\ scopes'[s].dependencies =
                    IF s = up THEN scopes[s].dependencies \cup {n}
                    ELSE scopes[s].dependencies
        /\ \A x \in Ids(next.share) :
              /\ shares'[x].scope = shares[x].scope
              /\ shares'[x].pinnedBy = IF x = sh THEN n ELSE shares[x].pinnedBy
        /\ scopes'[n].active /\ scopes'[n].parent = up
        /\ scopes'[n].parentShare = sh
        /\ scopes'[n].dependencies = {} /\ scopes'[n].holds = {}
        /\ loans'[n].support = loans[up].support
        /\ loans'[n].origin = "Reborrowed" /\ ~loans'[n].recovered

LEMMA OpenChildEffect ==
    ASSUME TypeInv, NEW p, NEW b, NEW sh \in DOMAIN shares, NEW head,
           NEW permitted, NEW backing, NEW mutexRoot,
           OpenChild(p, b, sh, head, permitted, backing, mutexRoot)
    PROVE  ChildOpened(sh)
  <1> DEFINE n == next.loan
             up == shares[sh].scope
             based == [scopes EXCEPT ![up].dependencies = @ \cup {n}]
             pinned == [shares EXCEPT ![sh] = ShareAs(sh, @.children, None, n)]
  <1>1. /\ next.loan \in Nat /\ next.share \in Nat /\ DOMAIN loans = Ids(n)
        /\ scopes \in [Ids(n) -> ScopeRecord] /\ shares \in [Ids(next.share) -> ShareRecord]
        /\ n \notin Ids(n) /\ next.share \notin Ids(next.share)
    BY DEF TypeInv, TypeOK, Ids
  <1>2. next'.loan = next.loan + 1 /\ next'.share = next.share + 1
        /\ holds' = holds /\ owner' = owner
    BY DEF OpenChild, Advance
  <1>3. \A s \in Ids(n) : loans'[s] = loans[s]
    BY <1>1 DEF OpenChild, WithInserted
  <1>4. loans'[n] = [support |-> loans[up].support, head |-> head,
                     permitted |-> permitted, backing |-> backing,
                     mutexRoot |-> mutexRoot, origin |-> "Reborrowed",
                     right |-> None, recovered |-> FALSE]
    BY DEF OpenChild, WithInserted
  <1>5. scopes' = WithInserted(based, n, NewScope(p, up, sh))
    BY DEF OpenChild
  <1>6. DOMAIN based = Ids(n) /\ DOMAIN pinned = Ids(next.share)
    BY <1>1
  <1>7. \A s \in Ids(n) :
             /\ (based[s].active <=> scopes[s].active)
             /\ based[s].parent = scopes[s].parent
             /\ based[s].parentShare = scopes[s].parentShare
             /\ based[s].holds = scopes[s].holds
             /\ based[s].dependencies = IF s = up THEN scopes[s].dependencies \cup {n}
                                        ELSE scopes[s].dependencies
    BY <1>1 DEF ScopeRecord
  <1>8. shares' = WithInserted(pinned, next.share, RootShare(n, b))
    BY DEF OpenChild
  <1>9. \A x \in Ids(next.share) :
             /\ pinned[x].scope = shares[x].scope
             /\ pinned[x].pinnedBy = IF x = sh THEN n ELSE shares[x].pinnedBy
    BY <1>1 DEF ShareRecord, ShareAs
  <1> HIDE DEF based, pinned
  <1>10. scopes'[n] = NewScope(p, up, sh) /\ \A s \in Ids(n) : scopes'[s] = based[s]
    BY <1>1, <1>5, <1>6 DEF WithInserted
  <1>11. \A x \in Ids(next.share) : shares'[x] = pinned[x]
    BY <1>1, <1>6, <1>8 DEF WithInserted
  <1>12. \A s \in Ids(n) :
             /\ (scopes'[s].active <=> scopes[s].active)
             /\ scopes'[s].parent = scopes[s].parent
             /\ scopes'[s].parentShare = scopes[s].parentShare
             /\ scopes'[s].holds = scopes[s].holds
             /\ scopes'[s].dependencies = IF s = up THEN scopes[s].dependencies \cup {n}
                                          ELSE scopes[s].dependencies
    BY <1>7, <1>10
  <1>13. /\ scopes'[n].active /\ scopes'[n].parent = up /\ scopes'[n].parentShare = sh
         /\ scopes'[n].dependencies = {} /\ scopes'[n].holds = {}
    BY <1>10 DEF NewScope
  <1>14. /\ loans'[n].support = loans[up].support
         /\ loans'[n].origin = "Reborrowed" /\ ~loans'[n].recovered
    BY <1>4
  <1>15. \A x \in Ids(next.share) :
             /\ shares'[x].scope = shares[x].scope
             /\ shares'[x].pinnedBy = IF x = sh THEN n ELSE shares[x].pinnedBy
    BY <1>9, <1>11
  <1> QED BY <1>1, <1>2, <1>3, <1>12, <1>13, <1>14, <1>15 DEF ChildOpened

\* Splits, transfers and joins move holders only.
LEMMA ShareMoveEffect ==
    ASSUME TypeInv, NEW p \in Participant,
           \/ \E sh \in DOMAIN shares, lh, rh \in Participant : Split(p, sh, lh, rh)
           \/ \E sh \in DOMAIN shares, to \in Participant : Transfer(p, sh, to)
           \/ \E left, right \in DOMAIN shares : Join(p, left, right)
    PROVE  /\ next.share \in Nat /\ next'.share \in Nat /\ next'.share >= next.share
           /\ next'.loan = next.loan
           /\ UNCHANGED <<scopes, loans, holds, owner>>
           /\ \A x \in Ids(next.share) : /\ shares'[x].scope = shares[x].scope
                                         /\ shares'[x].pinnedBy = shares[x].pinnedBy
  <1>1. /\ next.share \in Nat /\ next \in [loan : Nat, share : Nat, hold : Nat]
        /\ shares \in [Ids(next.share) -> ShareRecord]
    BY DEF TypeInv, TypeOK
  <1>2. CASE \E sh \in DOMAIN shares, lh, rh \in Participant : Split(p, sh, lh, rh)
    <2>1. PICK sh \in DOMAIN shares, lh \in Participant, rh \in Participant :
              Split(p, sh, lh, rh)
      BY <1>2
    <2> DEFINE n == next.share
               m == next.share + 1
               Child(h) == [scope |-> shares[sh].scope, parent |-> sh,
                            children |-> None, holder |-> h, pinnedBy |-> None]
               base == [shares EXCEPT ![sh] = ShareAs(sh, <<n, m>>, None, @.pinnedBy)]
               u == Child(lh)
               v == Child(rh)
    <2>2. shares' = WithInserted(WithInserted(base, n, u), m, v)
      BY <2>1 DEF Split
    <2>3. /\ DOMAIN base = Ids(n)
          /\ \A x \in Ids(n) : /\ base[x].scope = shares[x].scope
                               /\ base[x].pinnedBy = shares[x].pinnedBy
      BY <1>1 DEF ShareRecord, ShareAs
    <2>4. n \notin Ids(n) /\ m \notin Ids(n) BY <1>1 DEF Ids
    <2>5. /\ next'.share = next.share + 2 /\ next'.loan = next.loan
          /\ UNCHANGED <<scopes, loans, holds, owner>>
      BY <1>1, <2>1 DEF Split, Advance
    <2> HIDE DEF base, u, v, n, m
    <2>6. \A x \in Ids(n) : shares'[x] = base[x]
      BY <2>2, <2>3, <2>4 DEF WithInserted
    <2> QED BY <1>1, <2>3, <2>5, <2>6 DEF n
  <1>3. CASE \E sh \in DOMAIN shares, to \in Participant : Transfer(p, sh, to)
    BY <1>1, <1>3 DEF Transfer, Held, ShareAs, ShareRecord
  <1>4. CASE \E left, right \in DOMAIN shares : Join(p, left, right)
    <2>1. PICK left \in DOMAIN shares, right \in DOMAIN shares : Join(p, left, right)
      BY <1>4
    <2> DEFINE up == shares[left].parent
    <2>2. shares' = [shares EXCEPT ![left] = Held(left, None),
                                   ![right] = Held(right, None),
                                   ![up] = Held(up, p)]
      BY <2>1 DEF Join
    <2>3. \A x, h : /\ Held(x, h).scope = shares[x].scope
                    /\ Held(x, h).pinnedBy = shares[x].pinnedBy
      BY DEF Held, ShareAs
    <2>4. \A x \in Ids(next.share) : /\ shares'[x].scope = shares[x].scope
                                     /\ shares'[x].pinnedBy = shares[x].pinnedBy
      <3> HIDE DEF up
      <3> QED BY <1>1, <2>2, <2>3
    <2> QED BY <1>1, <2>1, <2>4 DEF Join
  <1> QED BY <1>2, <1>3, <1>4

ScopeEnded(s) ==
    LET up == scopes[s].parent
        pin == scopes[s].parentShare
    IN  /\ UNCHANGED <<loans, holds, next, owner>>
        /\ scopes[s].active /\ scopes[s].dependencies = {} /\ scopes[s].holds = {}
        /\ \A r \in Ids(next.loan) :
              /\ (scopes'[r].active <=> r # s /\ scopes[r].active)
              /\ scopes'[r].parent = scopes[r].parent
              /\ scopes'[r].parentShare = scopes[r].parentShare
              /\ scopes'[r].holds = scopes[r].holds
              /\ scopes'[r].dependencies =
                    IF up # None /\ r = up THEN scopes[r].dependencies \ {s}
                    ELSE scopes[r].dependencies
        /\ \A x \in Ids(next.share) :
              /\ shares'[x].scope = shares[x].scope
              /\ up # None => shares[pin].pinnedBy = s
              /\ shares'[x].pinnedBy = IF up # None /\ x = pin THEN None
                                       ELSE shares[x].pinnedBy

LEMMA EndEffect ==
    ASSUME TypeInv, NEW p \in Participant, NEW s \in DOMAIN scopes, End(p, s)
    PROVE  ScopeEnded(s)
  <1> DEFINE up == scopes[s].parent
             pin == scopes[s].parentShare
             root == scopes[s].root
             closed == [shares EXCEPT ![root] = Held(root, None)]
             ended == [scopes EXCEPT ![s].active = FALSE]
             unpinned == [closed EXCEPT ![pin] = ShareAs(pin, @.children, p, None)]
             freed == [ended EXCEPT ![up].dependencies = @ \ {s}]
  <1>1. /\ scopes \in [Ids(next.loan) -> ScopeRecord]
        /\ shares \in [Ids(next.share) -> ShareRecord]
    BY DEF TypeInv, TypeOK
  <1>2. /\ UNCHANGED <<loans, holds, next, owner>>
        /\ scopes[s].active /\ scopes[s].dependencies = {} /\ scopes[s].holds = {}
    BY DEF End, ScopeCanEnd
  <1>3. \/ up = None /\ scopes' = ended /\ shares' = closed
        \/ up # None /\ shares[pin].pinnedBy = s /\ scopes' = freed /\ shares' = unpinned
    BY DEF End
  <1>4. /\ ended \in [Ids(next.loan) -> ScopeRecord]
        /\ \A r \in Ids(next.loan) :
             /\ (ended[r].active <=> r # s /\ scopes[r].active)
             /\ ended[r].parent = scopes[r].parent
             /\ ended[r].parentShare = scopes[r].parentShare
             /\ ended[r].holds = scopes[r].holds
             /\ ended[r].dependencies = scopes[r].dependencies
    BY <1>1 DEF ScopeRecord
  <1>5. \A r \in Ids(next.loan) :
             /\ (freed[r].active <=> ended[r].active)
             /\ freed[r].parent = ended[r].parent
             /\ freed[r].parentShare = ended[r].parentShare
             /\ freed[r].holds = ended[r].holds
             /\ freed[r].dependencies = IF r = up THEN ended[r].dependencies \ {s}
                                        ELSE ended[r].dependencies
    <2> HIDE DEF ended, up
    <2> QED BY <1>4 DEF ScopeRecord
  <1>6. \A x, h : /\ Held(x, h).scope = shares[x].scope
                  /\ Held(x, h).pinnedBy = shares[x].pinnedBy
    BY DEF Held, ShareAs
  <1>7. /\ DOMAIN closed = Ids(next.share)
        /\ \A x \in Ids(next.share) : /\ closed[x].scope = shares[x].scope
                                      /\ closed[x].pinnedBy = shares[x].pinnedBy
    BY <1>1, <1>6
  <1>8. \A x, c, h, k : /\ ShareAs(x, c, h, k).scope = shares[x].scope
                        /\ ShareAs(x, c, h, k).pinnedBy = k
    BY DEF ShareAs
  <1>9. \A x \in Ids(next.share) :
             /\ unpinned[x].scope = shares[x].scope
             /\ unpinned[x].pinnedBy = IF x = pin THEN None ELSE shares[x].pinnedBy
    <2> HIDE DEF closed, pin
    <2> QED BY <1>7, <1>8
  <1> HIDE DEF ended, freed, closed, unpinned
  <1>10. CASE up = None
    <2>1. scopes' = ended /\ shares' = closed BY <1>3, <1>10
    <2> QED BY <1>2, <1>4, <1>7, <1>10, <2>1 DEF ScopeEnded
  <1>11. CASE up # None
    <2>1. scopes' = freed /\ shares' = unpinned /\ shares[pin].pinnedBy = s
      BY <1>3, <1>11
    <2>2. \A r \in Ids(next.loan) :
             /\ (scopes'[r].active <=> r # s /\ scopes[r].active)
             /\ scopes'[r].parent = scopes[r].parent
             /\ scopes'[r].parentShare = scopes[r].parentShare
             /\ scopes'[r].holds = scopes[r].holds
             /\ scopes'[r].dependencies = IF up # None /\ r = up
                                          THEN scopes[r].dependencies \ {s}
                                          ELSE scopes[r].dependencies
      <3> SUFFICES ASSUME NEW r \in Ids(next.loan)
                   PROVE  /\ (freed[r].active <=> r # s /\ scopes[r].active)
                          /\ freed[r].parent = scopes[r].parent
                          /\ freed[r].parentShare = scopes[r].parentShare
                          /\ freed[r].holds = scopes[r].holds
                          /\ freed[r].dependencies = IF r = up THEN scopes[r].dependencies \ {s}
                                                     ELSE scopes[r].dependencies
        BY <1>11, <2>1
      <3> HIDE DEF up, pin
      <3> QED BY <1>4, <1>5
    <2> HIDE DEF up, pin
    <2> QED BY <1>2, <1>9, <1>11, <2>1, <2>2 DEF up, pin, ScopeEnded
  <1> QED BY <1>10, <1>11

LEMMA IdsNext ==
    ASSUME NEW n \in Nat
    PROVE  /\ Ids(n + 1) = Ids(n) \cup {n} /\ n \notin Ids(n)
           /\ \A i \in Ids(n) : Ids(i) \subseteq Ids(n) /\ i \notin Ids(i)
           /\ \A m \in Nat : n <= m => Ids(n) \subseteq Ids(m)
  BY DEF Ids

\* The invariant survives the opening of a loan without a parent.
LEMMA OpenRootSafe ==
    ASSUME SafeInv, NEW b, NEW closeRight, NEW o, NEW head, NEW permitted,
           NEW backing, NEW mutexRoot, NEW origin,
           OpenRoot(b, closeRight, o, head, permitted, backing, mutexRoot, origin),
           origin # "Reborrowed",
           \/ origin = "Escrowed" /\ o \in Owned /\ owner[o] # None
              /\ owner' = [owner EXCEPT ![o] = None]
           \/ origin # "Escrowed" /\ o \notin Owned /\ owner' = owner
    PROVE  Structure' /\ OpenLoans' /\ Escrow' /\ HoldsOpen'
  <1> DEFINE n == next.loan
  <1>1. /\ n \in Nat /\ next.share \in Nat
        /\ next'.loan = n + 1 /\ next'.share = next.share + 1 /\ holds' = holds
        /\ \A s \in Ids(n) : scopes'[s] = scopes[s] /\ loans'[s] = loans[s]
        /\ \A x \in Ids(next.share) : shares'[x] = shares[x]
        /\ scopes'[n].active /\ scopes'[n].parent = None
        /\ scopes'[n].dependencies = {} /\ scopes'[n].holds = {}
        /\ loans'[n].support = o /\ loans'[n].origin = origin /\ ~loans'[n].recovered
    BY OpenRootEffect DEF SafeInv
  <1>2. Ids(n + 1) = Ids(n) \cup {n} /\ n \notin Ids(n)
        /\ (\A i \in Ids(n) : Ids(i) \subseteq Ids(n))
        /\ Ids(next.share) \subseteq Ids(next.share + 1)
    BY <1>1, IdsNext
  <1>3. owner \in [Owned -> Option(Participant)] BY DEF SafeInv, TypeInv, TypeOK
  <1>4. Reborrows' BY <1>1, <1>2 DEF SafeInv, Structure, Reborrows
  <1>5. Roots' BY <1>1, <1>2 DEF SafeInv, Structure, Roots
  <1>6. Pins' BY <1>1, <1>2 DEF SafeInv, Structure, Pins, Reborrows
  <1>7. Dependencies' BY <1>1, <1>2 DEF SafeInv, Structure, Dependencies
  <1>8. OpenLoans' BY <1>1, <1>2 DEF SafeInv, OpenLoans
  <1>9. HoldsOpen' BY <1>1, <1>2 DEF SafeInv, HoldsOpen
  <1>10. Escrow'
    <2>1. \A l \in Ids(n) : Escrowed(loans'[l]) <=> Escrowed(loans[l])
      BY <1>1 DEF Escrowed
    <2>2. Escrowed(loans'[n]) <=> origin = "Escrowed"
      BY <1>1 DEF Escrowed
    <2>3. \A l \in Ids(n) : Escrowed(loans[l]) =>
              loans[l].support \in Owned /\ owner[loans[l].support] = None
      BY DEF SafeInv, Escrow, n
    <2>4. /\ \A l, k \in Ids(n) :
                Escrowed(loans[l]) /\ Escrowed(loans[k]) /\ loans[l].support = loans[k].support => l = k
          /\ \A w \in Owned : owner[w] = None =>
                \E l \in Ids(n) : Escrowed(loans[l]) /\ loans[l].support = w
      BY DEF SafeInv, Escrow, n
    <2>5. /\ \A l \in Ids(n + 1) : Escrowed(loans'[l]) =>
                loans'[l].support \in Owned /\ owner'[loans'[l].support] = None
          /\ \A l, k \in Ids(n + 1) : Escrowed(loans'[l]) /\ Escrowed(loans'[k])
                /\ loans'[l].support = loans'[k].support => l = k
          /\ \A w \in Owned : owner'[w] = None =>
                \E l \in Ids(n + 1) : Escrowed(loans'[l]) /\ loans'[l].support = w
      <3>1. CASE origin = "Escrowed"
        BY <1>1, <1>2, <1>3, <2>1, <2>2, <2>3, <2>4, <3>1
      <3>2. CASE origin # "Escrowed"
        BY <1>1, <1>2, <1>3, <2>1, <2>2, <2>3, <2>4, <3>2
      <3> QED BY <3>1, <3>2
    <2> QED BY <1>1, <2>5 DEF Escrow
  <1> QED BY <1>4, <1>5, <1>6, <1>7, <1>8, <1>9, <1>10 DEF Structure

\* The invariant survives the opening of a reborrow.
LEMMA OpenChildSafe ==
    ASSUME SafeInv, NEW p, NEW b, NEW sh \in DOMAIN shares, NEW head,
           NEW permitted, NEW backing, NEW mutexRoot, ValidAuthority(p, sh),
           OpenChild(p, b, sh, head, permitted, backing, mutexRoot)
    PROVE  Structure' /\ OpenLoans' /\ Escrow' /\ HoldsOpen'
  <1> DEFINE n == next.loan
             up == shares[sh].scope
  <1>0. ChildOpened(sh) BY OpenChildEffect DEF SafeInv
  <1>1. /\ n \in Nat /\ next.share \in Nat
        /\ next'.loan = n + 1 /\ next'.share = next.share + 1
        /\ holds' = holds /\ owner' = owner
    BY <1>0 DEF ChildOpened
  <1>2. \A s \in Ids(n) :
           /\ loans'[s] = loans[s]
           /\ (scopes'[s].active <=> scopes[s].active)
           /\ scopes'[s].parent = scopes[s].parent
           /\ scopes'[s].parentShare = scopes[s].parentShare
           /\ scopes'[s].holds = scopes[s].holds
    BY <1>0 DEF ChildOpened
  <1>2a. \A s \in Ids(n) :
           /\ s = up => scopes'[s].dependencies = scopes[s].dependencies \cup {n}
           /\ s # up => scopes'[s].dependencies = scopes[s].dependencies
    BY <1>0 DEF ChildOpened
  <1>3. \A x \in Ids(next.share) :
           /\ shares'[x].scope = shares[x].scope
           /\ x = sh => shares'[x].pinnedBy = n
           /\ x # sh => shares'[x].pinnedBy = shares[x].pinnedBy
    BY <1>0 DEF ChildOpened
  <1>4. /\ scopes'[n].active /\ scopes'[n].parent = up /\ scopes'[n].parentShare = sh
        /\ scopes'[n].dependencies = {} /\ scopes'[n].holds = {}
        /\ loans'[n].support = loans[up].support
        /\ loans'[n].origin = "Reborrowed" /\ ~loans'[n].recovered
    BY <1>0 DEF ChildOpened
  <1>5. Ids(n + 1) = Ids(n) \cup {n} /\ n \notin Ids(n)
        /\ (\A i \in Ids(n) : Ids(i) \subseteq Ids(n))
        /\ Ids(next.share) \subseteq Ids(next.share + 1)
    BY <1>1, IdsNext
  <1>6. /\ sh \in Ids(next.share) /\ up \in Ids(n) /\ up \in Nat /\ up # None
        /\ scopes[up].active /\ shares[sh].pinnedBy = None
    BY ConstantAssumption
    DEF ValidAuthority, SafeInv, TypeInv, TypeOK, ScopesOpened, ShareRecord
  <1>7. \A s \in Ids(n) : s # None BY <1>1, ConstantAssumption DEF Ids
  <1>8. Reborrows'
    <2>1. \A s \in Ids(n) : scopes[s].parent # None =>
              /\ scopes[s].parent \in Ids(s)
              /\ scopes[s].parentShare \in Ids(next.share)
              /\ shares[scopes[s].parentShare].scope = scopes[s].parent
              /\ loans[s].support = loans[scopes[s].parent].support
              /\ loans[s].origin = "Reborrowed"
      BY DEF SafeInv, Structure, Reborrows, n
    <2>2. shares'[sh].scope = up BY <1>3, <1>6 DEF up
    <2> QED BY <1>1, <1>2, <1>3, <1>4, <1>5, <1>6, <2>1, <2>2 DEF Reborrows
  <1>9. Roots'
    <2>1. \A s \in Ids(n) : scopes[s].parent = None =>
              /\ loans[s].origin # "Reborrowed"
              /\ loans[s].support \in Owned => loans[s].origin = "Escrowed"
      BY DEF SafeInv, Structure, Roots, n
    <2> QED BY <1>1, <1>2, <1>4, <1>5, <1>6, <2>1 DEF Roots
  <1>10. Pins'
    <2>1. \A s \in Ids(n) : scopes[s].active /\ scopes[s].parent # None =>
              /\ scopes[s].parent \in Ids(n)
              /\ scopes[s].parentShare \in Ids(next.share)
              /\ scopes[scopes[s].parent].active
              /\ s \in scopes[scopes[s].parent].dependencies
              /\ shares[scopes[s].parentShare].pinnedBy = s
      BY <1>5 DEF SafeInv, Structure, Pins, Reborrows, n
    <2>2. \A s \in Ids(n) : scopes[s].active /\ scopes[s].parent # None =>
              scopes[s].parentShare # sh
      BY <1>6, <1>7, <2>1
    <2>3. shares'[sh].pinnedBy = n /\ n \in scopes'[up].dependencies /\ scopes'[up].active
      BY <1>2, <1>2a, <1>3, <1>6
    <2>4. \A s \in Ids(n) : scopes'[s].active /\ scopes'[s].parent # None =>
              /\ scopes'[scopes'[s].parent].active
              /\ s \in scopes'[scopes'[s].parent].dependencies
              /\ shares'[scopes'[s].parentShare].pinnedBy = s
      BY <1>2, <1>2a, <1>3, <2>1, <2>2
    <2> QED BY <1>1, <1>4, <1>5, <2>3, <2>4 DEF Pins
  <1>11. Dependencies'
    <2>1. \A s \in Ids(n) : \A d \in scopes[s].dependencies :
              d \in Ids(n) /\ scopes[d].active /\ scopes[d].parent = s
      BY DEF SafeInv, Structure, Dependencies, n
    <2>2. \A s \in Ids(n) : \A d \in scopes'[s].dependencies :
              d \in Ids(n + 1) /\ scopes'[d].active /\ scopes'[d].parent = s
      BY <1>2, <1>2a, <1>4, <1>5, <2>1
    <2> QED BY <1>1, <1>4, <1>5, <2>2 DEF Dependencies
  <1>12. OpenLoans'
    <2>1. \A s \in Ids(n) : scopes[s].active => ~loans[s].recovered
      BY DEF SafeInv, OpenLoans, n
    <2> QED BY <1>1, <1>2, <1>4, <1>5, <2>1 DEF OpenLoans
  <1>13. HoldsOpen'
    <2>1. /\ \A h \in DOMAIN holds : /\ holds[h].scope \in Ids(n)
                                     /\ scopes[holds[h].scope].active
                                     /\ h \in scopes[holds[h].scope].holds
          /\ \A s \in Ids(n) : \A h \in scopes[s].holds :
                h \in DOMAIN holds /\ holds[h].scope = s
      BY DEF SafeInv, HoldsOpen, n
    <2> QED BY <1>1, <1>2, <1>4, <1>5, <2>1 DEF HoldsOpen
  <1>14. Escrow'
    <2>1. \A l \in Ids(n) : Escrowed(loans'[l]) <=> Escrowed(loans[l])
      BY <1>2 DEF Escrowed
    <2>2. ~Escrowed(loans'[n]) BY <1>4 DEF Escrowed
    <2>3. /\ \A l \in Ids(n) : Escrowed(loans[l]) =>
                loans[l].support \in Owned /\ owner[loans[l].support] = None
          /\ \A l, k \in Ids(n) :
                Escrowed(loans[l]) /\ Escrowed(loans[k]) /\ loans[l].support = loans[k].support => l = k
          /\ \A w \in Owned : owner[w] = None =>
                \E l \in Ids(n) : Escrowed(loans[l]) /\ loans[l].support = w
      BY DEF SafeInv, Escrow, n
    <2>4. /\ \A l \in Ids(n + 1) : Escrowed(loans'[l]) =>
                loans'[l].support \in Owned /\ owner'[loans'[l].support] = None
          /\ \A l, k \in Ids(n + 1) : Escrowed(loans'[l]) /\ Escrowed(loans'[k])
                /\ loans'[l].support = loans'[k].support => l = k
          /\ \A w \in Owned : owner'[w] = None =>
                \E l \in Ids(n + 1) : Escrowed(loans'[l]) /\ loans'[l].support = w
      BY <1>1, <1>2, <1>5, <2>1, <2>2, <2>3
    <2> QED BY <1>1, <2>4 DEF Escrow
  <1> QED BY <1>8, <1>9, <1>10, <1>11, <1>12, <1>13, <1>14 DEF Structure

LEMMA ShareMoveSafe ==
    ASSUME SafeInv, NEW p \in Participant,
           \/ \E sh \in DOMAIN shares, lh, rh \in Participant : Split(p, sh, lh, rh)
           \/ \E sh \in DOMAIN shares, to \in Participant : Transfer(p, sh, to)
           \/ \E left, right \in DOMAIN shares : Join(p, left, right)
    PROVE  Structure' /\ OpenLoans' /\ Escrow' /\ HoldsOpen'
  <1>1. /\ next.share \in Nat /\ next'.share \in Nat /\ next'.share >= next.share
        /\ next'.loan = next.loan
        /\ UNCHANGED <<scopes, loans, holds, owner>>
        /\ \A x \in Ids(next.share) : /\ shares'[x].scope = shares[x].scope
                                      /\ shares'[x].pinnedBy = shares[x].pinnedBy
    BY ShareMoveEffect DEF SafeInv
  <1>2. Ids(next.share) \subseteq Ids(next'.share) BY <1>1, IdsNext
  <1>3. Reborrows' BY <1>1, <1>2 DEF SafeInv, Structure, Reborrows
  <1>4. Roots' BY <1>1 DEF SafeInv, Structure, Roots
  <1>5. Pins' BY <1>1 DEF SafeInv, Structure, Pins, Reborrows
  <1>6. Dependencies' BY <1>1 DEF SafeInv, Structure, Dependencies
  <1>7. OpenLoans' BY <1>1 DEF SafeInv, OpenLoans
  <1>8. Escrow' BY <1>1 DEF SafeInv, Escrow
  <1>9. HoldsOpen' BY <1>1 DEF SafeInv, HoldsOpen
  <1> QED BY <1>3, <1>4, <1>5, <1>6, <1>7, <1>8, <1>9 DEF Structure

\* Holds only change the holds of a scope.
LEMMA HoldsOnlySafe ==
    ASSUME SafeInv, UNCHANGED <<loans, shares, owner>>, next'.loan = next.loan,
           next'.share = next.share,
           \A s \in Ids(next.loan) :
               /\ (scopes'[s].active <=> scopes[s].active)
               /\ scopes'[s].parent = scopes[s].parent
               /\ scopes'[s].parentShare = scopes[s].parentShare
               /\ scopes'[s].dependencies = scopes[s].dependencies
    PROVE  Structure' /\ OpenLoans' /\ Escrow'
  <1>1. \A s \in Ids(next.loan) : Ids(s) \subseteq Ids(next.loan)
    BY IdsNext DEF SafeInv, TypeInv, TypeOK
  <1>2. Reborrows' BY DEF SafeInv, Structure, Reborrows
  <1>3. Roots' BY DEF SafeInv, Structure, Roots
  <1>4. Pins' BY <1>1 DEF SafeInv, Structure, Pins, Reborrows
  <1>5. Dependencies' BY DEF SafeInv, Structure, Dependencies
  <1>6. OpenLoans' BY DEF SafeInv, OpenLoans
  <1>7. Escrow' BY DEF SafeInv, Escrow
  <1> QED BY <1>2, <1>3, <1>4, <1>5, <1>6, <1>7 DEF Structure

LEMMA HoldSafe ==
    ASSUME SafeInv, NEW p \in Participant, NEW sh \in DOMAIN shares, Hold(p, sh)
    PROVE  Structure' /\ OpenLoans' /\ Escrow' /\ HoldsOpen'
  <1> DEFINE s == shares[sh].scope
             h == next.hold
  <1>1. /\ scopes \in [Ids(next.loan) -> ScopeRecord] /\ s \in Ids(next.loan)
        /\ DOMAIN holds \subseteq Ids(h) /\ h \in Nat
    BY DEF SafeInv, TypeInv, TypeOK, ScopesOpened
  <1>2. scopes' = [scopes EXCEPT ![s].holds = @ \cup {h}] /\ scopes[s].active
        /\ holds' = WithInserted(holds, h, [scope |-> s, by |-> p])
        /\ next'.loan = next.loan /\ next'.share = next.share
        /\ UNCHANGED <<loans, shares, owner>>
    BY DEF Hold, ValidAuthority, Advance, SafeInv, TypeInv, TypeOK
  <1>3. \A r \in Ids(next.loan) :
           /\ (scopes'[r].active <=> scopes[r].active)
           /\ scopes'[r].parent = scopes[r].parent
           /\ scopes'[r].parentShare = scopes[r].parentShare
           /\ scopes'[r].dependencies = scopes[r].dependencies
           /\ r # s => scopes'[r].holds = scopes[r].holds
           /\ r = s => scopes'[r].holds = scopes[r].holds \cup {h}
    BY <1>1, <1>2 DEF ScopeRecord
  <1>4. h \notin DOMAIN holds BY <1>1 DEF Ids
  <1>5. /\ DOMAIN holds' = DOMAIN holds \cup {h} /\ holds'[h].scope = s
        /\ \A k \in DOMAIN holds : holds'[k] = holds[k]
    BY <1>2, <1>4 DEF WithInserted
  <1> HIDE DEF s, h
  <1>6. HoldsOpen'
    <2>1. /\ \A k \in DOMAIN holds : /\ holds[k].scope \in Ids(next.loan)
                                     /\ scopes[holds[k].scope].active
                                     /\ k \in scopes[holds[k].scope].holds
          /\ \A r \in Ids(next.loan) : \A k \in scopes[r].holds :
                k \in DOMAIN holds /\ holds[k].scope = r
      BY DEF SafeInv, HoldsOpen
    <2> QED BY <1>1, <1>2, <1>3, <1>4, <1>5, <2>1 DEF HoldsOpen
  <1> QED BY <1>2, <1>3, <1>6, HoldsOnlySafe

LEMMA ReleaseSafe ==
    ASSUME SafeInv, NEW p \in Participant, NEW h \in DOMAIN holds, Release(p, h)
    PROVE  Structure' /\ OpenLoans' /\ Escrow' /\ HoldsOpen'
  <1> DEFINE s == holds[h].scope
  <1>1. scopes \in [Ids(next.loan) -> ScopeRecord]
    BY DEF SafeInv, TypeInv, TypeOK
  <1>2. scopes' = [scopes EXCEPT ![s].holds = @ \ {h}]
        /\ holds' = WithoutKey(holds, h) /\ UNCHANGED <<loans, shares, owner, next>>
    BY DEF Release
  <1>3. \A r \in Ids(next.loan) :
           /\ (scopes'[r].active <=> scopes[r].active)
           /\ scopes'[r].parent = scopes[r].parent
           /\ scopes'[r].parentShare = scopes[r].parentShare
           /\ scopes'[r].dependencies = scopes[r].dependencies
           /\ r # s => scopes'[r].holds = scopes[r].holds
           /\ r = s => scopes'[r].holds = scopes[r].holds \ {h}
    BY <1>1, <1>2 DEF ScopeRecord
  <1>4. /\ DOMAIN holds' = DOMAIN holds \ {h}
        /\ \A k \in DOMAIN holds' : holds'[k] = holds[k]
    BY <1>2 DEF WithoutKey
  <1>5. HoldsOpen'
    <2>1. /\ \A k \in DOMAIN holds : /\ holds[k].scope \in Ids(next.loan)
                                     /\ scopes[holds[k].scope].active
                                     /\ k \in scopes[holds[k].scope].holds
          /\ \A r \in Ids(next.loan) : \A k \in scopes[r].holds :
                k \in DOMAIN holds /\ holds[k].scope = r
      BY DEF SafeInv, HoldsOpen
    <2> QED BY <1>2, <1>3, <1>4, <2>1 DEF HoldsOpen
  <1> QED BY <1>2, <1>3, <1>5, HoldsOnlySafe

\* The invariant survives the end of a scope: it has no open child, and the
\* share it gives back was pinned by it alone.
LEMMA EndSafe ==
    ASSUME SafeInv, NEW p \in Participant, NEW s \in DOMAIN scopes, End(p, s)
    PROVE  Structure' /\ OpenLoans' /\ Escrow' /\ HoldsOpen'
  <1> DEFINE up == scopes[s].parent
             pin == scopes[s].parentShare
             n == next.loan
  <1>0. ScopeEnded(s) BY EndEffect DEF SafeInv
  <1>1. /\ UNCHANGED <<loans, holds, next, owner>>
        /\ scopes[s].active /\ scopes[s].dependencies = {} /\ scopes[s].holds = {}
    BY <1>0 DEF ScopeEnded
  <1>2. \A r \in Ids(n) :
           /\ (scopes'[r].active <=> r # s /\ scopes[r].active)
           /\ scopes'[r].parent = scopes[r].parent
           /\ scopes'[r].parentShare = scopes[r].parentShare
           /\ scopes'[r].holds = scopes[r].holds
    BY <1>0 DEF ScopeEnded
  <1>3. \A r \in Ids(n) :
           /\ up # None /\ r = up => scopes'[r].dependencies = scopes[r].dependencies \ {s}
           /\ ~(up # None /\ r = up) => scopes'[r].dependencies = scopes[r].dependencies
    BY <1>0 DEF ScopeEnded
  <1>4. \A x \in Ids(next.share) :
           /\ shares'[x].scope = shares[x].scope
           /\ up # None => shares[pin].pinnedBy = s
           /\ ~(up # None /\ x = pin) => shares'[x].pinnedBy = shares[x].pinnedBy
    BY <1>0 DEF ScopeEnded
  <1>5. /\ s \in Ids(n) /\ (\A i \in Ids(n) : Ids(i) \subseteq Ids(n) /\ i # None)
    BY IdsNext, ConstantAssumption DEF SafeInv, TypeInv, TypeOK, Ids
  <1> HIDE DEF up, pin
  <1>6. Reborrows' BY <1>1, <1>2, <1>4 DEF SafeInv, Structure, Reborrows
  <1>7. Roots' BY <1>1, <1>2 DEF SafeInv, Structure, Roots
  <1>8. Pins'
    <2>1. \A r \in Ids(n) : scopes[r].active /\ scopes[r].parent # None =>
              /\ scopes[r].parent \in Ids(n)
              /\ scopes[r].parentShare \in Ids(next.share)
              /\ scopes[scopes[r].parent].active
              /\ r \in scopes[scopes[r].parent].dependencies
              /\ shares[scopes[r].parentShare].pinnedBy = r
      BY <1>5 DEF SafeInv, Structure, Pins, Reborrows
    <2>2. ASSUME NEW r \in Ids(n), r # s, scopes[r].active, scopes[r].parent # None
          PROVE  /\ scopes'[scopes[r].parent].active
                 /\ r \in scopes'[scopes[r].parent].dependencies
                 /\ shares'[scopes[r].parentShare].pinnedBy = r
      <3>1. scopes[r].parent # s BY <1>1, <2>1, <2>2
      <3>2. ~(up # None /\ scopes[r].parentShare = pin) BY <1>4, <2>1, <2>2
      <3> QED BY <1>2, <1>3, <1>4, <2>1, <2>2, <3>1, <3>2
    <2> QED BY <1>1, <1>2, <2>2 DEF Pins
  <1>9. Dependencies'
    <2>1. \A r \in Ids(n) : \A d \in scopes[r].dependencies :
              d \in Ids(n) /\ scopes[d].active /\ scopes[d].parent = r
      BY DEF SafeInv, Structure, Dependencies
    <2>2. ASSUME NEW r \in Ids(n), NEW d \in scopes'[r].dependencies
          PROVE  d \in Ids(n) /\ scopes'[d].active /\ scopes'[d].parent = r
      <3>1. d \in scopes[r].dependencies BY <1>3, <2>2
      <3>2. d # s
        <4>1. SUFFICES ASSUME d = s PROVE FALSE OBVIOUS
        <4>2. up = r BY <2>1, <3>1, <4>1 DEF up
        <4> QED BY <1>3, <1>5, <2>2, <4>1, <4>2
      <3> QED BY <1>2, <2>1, <3>1, <3>2
    <2> QED BY <1>1, <2>2 DEF Dependencies
  <1>10. OpenLoans' BY <1>1, <1>2 DEF SafeInv, OpenLoans
  <1>11. Escrow' BY <1>1 DEF SafeInv, Escrow
  <1>12. HoldsOpen' BY <1>1, <1>2 DEF SafeInv, HoldsOpen
  <1> QED BY <1>6, <1>7, <1>8, <1>9, <1>10, <1>11, <1>12 DEF Structure

\* Recoveries and projections change neither the support nor the origin of a loan.
LEMMA LoansOnlySafe ==
    ASSUME SafeInv, UNCHANGED <<scopes, shares, holds, next>>,
           \A k \in Ids(next.loan) : /\ loans'[k].support = loans[k].support
                                     /\ loans'[k].origin = loans[k].origin
    PROVE  Structure' /\ HoldsOpen'
  <1>1. \A s \in Ids(next.loan) : Ids(s) \subseteq Ids(next.loan)
    BY IdsNext DEF SafeInv, TypeInv, TypeOK
  <1>2. Reborrows' BY <1>1 DEF SafeInv, Structure, Reborrows
  <1>3. Roots' BY DEF SafeInv, Structure, Roots
  <1>4. Pins' BY DEF SafeInv, Structure, Pins
  <1>5. Dependencies' BY DEF SafeInv, Structure, Dependencies
  <1>6. HoldsOpen' BY DEF SafeInv, HoldsOpen
  <1> QED BY <1>2, <1>3, <1>4, <1>5, <1>6 DEF Structure

LEMMA RecoverSafe ==
    ASSUME SafeInv, NEW p \in Participant, NEW l \in DOMAIN loans, Recover(p, l)
    PROVE  Structure' /\ OpenLoans' /\ Escrow' /\ HoldsOpen'
  <1> DEFINE o == loans[l].support
  <1>1. /\ loans \in [Ids(next.loan) -> LoanRecord] /\ l \in Ids(next.loan)
        /\ owner \in [Owned -> Option(Participant)]
    BY DEF SafeInv, TypeInv, TypeOK
  <1>2. /\ loans' = [loans EXCEPT ![l].recovered = TRUE]
        /\ owner' = [owner EXCEPT ![o] = p]
        /\ UNCHANGED <<scopes, shares, holds, next>>
        /\ ~scopes[l].active /\ Escrowed(loans[l])
    BY DEF Recover, Escrowed
  <1>3. \A k \in Ids(next.loan) : /\ loans'[k].support = loans[k].support
                                  /\ loans'[k].origin = loans[k].origin
                                  /\ k # l => (loans'[k].recovered <=> loans[k].recovered)
                                  /\ k = l => loans'[k].recovered
    BY <1>1, <1>2 DEF LoanRecord
  <1>4. Structure' /\ HoldsOpen' BY <1>2, <1>3, LoansOnlySafe
  <1>5. OpenLoans' BY <1>2, <1>3 DEF SafeInv, OpenLoans
  <1>6. Escrow'
    <2>1. \A k \in Ids(next.loan) : Escrowed(loans'[k]) <=> k # l /\ Escrowed(loans[k])
      <3>1. ~Escrowed(loans'[l]) BY <1>1, <1>3 DEF Escrowed
      <3>2. \A k \in Ids(next.loan) : k # l => (Escrowed(loans'[k]) <=> Escrowed(loans[k]))
        BY <1>3 DEF Escrowed
      <3> QED BY <3>1, <3>2
    <2>2. p # None BY ConstantAssumption
    <2>3. /\ \A k \in Ids(next.loan) : Escrowed(loans[k]) =>
                loans[k].support \in Owned /\ owner[loans[k].support] = None
          /\ \A k, j \in Ids(next.loan) :
                Escrowed(loans[k]) /\ Escrowed(loans[j])
                /\ loans[k].support = loans[j].support => k = j
          /\ \A w \in Owned : owner[w] = None =>
                \E k \in Ids(next.loan) : Escrowed(loans[k]) /\ loans[k].support = w
      BY DEF SafeInv, Escrow
    <2>4. o \in Owned /\ owner'[o] = p /\ \A w \in Owned : w # o => owner'[w] = owner[w]
      BY <1>1, <1>2, <2>3
    <2>5. \A k \in Ids(next.loan) : Escrowed(loans'[k]) => loans[k].support # o
      BY <1>1, <1>2, <2>1, <2>3
    <2>6. \A k \in Ids(next.loan) : Escrowed(loans'[k]) =>
              loans'[k].support \in Owned /\ owner'[loans'[k].support] = None
      BY <1>3, <2>1, <2>3, <2>4, <2>5
    <2>7. \A k, j \in Ids(next.loan) :
              Escrowed(loans'[k]) /\ Escrowed(loans'[j])
              /\ loans'[k].support = loans'[j].support => k = j
      BY <1>3, <2>1, <2>3
    <2>8. \A w \in Owned : owner'[w] = None =>
              \E k \in Ids(next.loan) : Escrowed(loans'[k]) /\ loans'[k].support = w
      <3> SUFFICES ASSUME NEW w \in Owned, owner'[w] = None
                   PROVE  \E k \in Ids(next.loan) :
                              Escrowed(loans'[k]) /\ loans'[k].support = w
        OBVIOUS
      <3>1. w # o /\ owner[w] = None BY <2>2, <2>4
      <3>2. PICK k \in Ids(next.loan) : Escrowed(loans[k]) /\ loans[k].support = w
        BY <2>3, <3>1
      <3>3. k # l BY <3>1, <3>2
      <3> QED BY <1>3, <2>1, <3>2, <3>3
    <2> QED BY <1>2, <2>6, <2>7, <2>8 DEF Escrow
  <1> QED BY <1>4, <1>5, <1>6

LEMMA ProjectSafe ==
    ASSUME SafeInv, NEW l \in DOMAIN loans, NEW c \in Resource, NEW child \in Resource,
           Project(l, c, child)
    PROVE  Structure' /\ OpenLoans' /\ Escrow' /\ HoldsOpen'
  <1>1. loans \in [Ids(next.loan) -> LoanRecord] BY DEF SafeInv, TypeInv, TypeOK
  <1>2. /\ loans' = [loans EXCEPT ![l].permitted = @ \cup {child}]
        /\ UNCHANGED <<scopes, shares, holds, next, owner>>
    BY DEF Project
  <1>3. \A k \in Ids(next.loan) : /\ loans'[k].support = loans[k].support
                                  /\ loans'[k].origin = loans[k].origin
                                  /\ (loans'[k].recovered <=> loans[k].recovered)
    BY <1>1, <1>2 DEF LoanRecord
  <1>4. Structure' /\ HoldsOpen' BY <1>2, <1>3, LoansOnlySafe
  <1>5. OpenLoans' BY <1>2, <1>3 DEF SafeInv, OpenLoans
  <1>6. Escrow' BY <1>2, <1>3 DEF SafeInv, Escrow, Escrowed
  <1> QED BY <1>4, <1>5, <1>6

LEMMA RootsSafe ==
    ASSUME SafeInv, NEW p \in Participant, NEW b \in Participant, NEW o \in Occurrence,
           \/ o \in Owned /\ (Lend(p, b, o) \/ LendMutexUse(p, b, o) \/ LendComposite(p, b, o))
           \/ BorrowedContractInput(p, o) \/ BorrowedMutexUse(p, o)
           \/ OpenLocalView(p, b, o)
    PROVE  Structure' /\ OpenLoans' /\ Escrow' /\ HoldsOpen'
  <1>1. p # None BY ConstantAssumption
  <1>2. o \in Input \/ o \in LocalView => o \notin Owned BY ConstantAssumption
  <1>3. CASE o \in Owned /\ Lend(p, b, o)
    BY <1>1, <1>3, OpenRootSafe DEF Lend
  <1>4. CASE o \in Owned /\ LendMutexUse(p, b, o)
    BY <1>1, <1>4, OpenRootSafe DEF LendMutexUse
  <1>5. CASE o \in Owned /\ LendComposite(p, b, o)
    BY <1>1, <1>5, OpenRootSafe DEF LendComposite
  <1>6. CASE BorrowedContractInput(p, o)
    BY <1>2, <1>6, OpenRootSafe DEF BorrowedContractInput
  <1>7. CASE BorrowedMutexUse(p, o)
    BY <1>2, <1>7, OpenRootSafe DEF BorrowedMutexUse
  <1>8. CASE OpenLocalView(p, b, o)
    BY <1>2, <1>8, OpenRootSafe DEF OpenLocalView
  <1> QED BY <1>3, <1>4, <1>5, <1>6, <1>7, <1>8

LEMMA ChildrenSafe ==
    ASSUME SafeInv, NEW p \in Participant, NEW b \in Participant,
           NEW sh \in DOMAIN shares,
           \/ \E v \in Resource : Reborrow(p, b, sh, v)
           \/ ReborrowMutexUse(p, b, sh)
    PROVE  Structure' /\ OpenLoans' /\ Escrow' /\ HoldsOpen'
  <1>1. CASE \E v \in Resource : Reborrow(p, b, sh, v)
    BY <1>1, OpenChildSafe DEF Reborrow, ValidView
  <1>2. CASE ReborrowMutexUse(p, b, sh)
    BY <1>2, OpenChildSafe DEF ReborrowMutexUse, ValidMutexUse
  <1> QED BY <1>1, <1>2

LEMMA SafeInvInit == Init => SafeInv
  <1> SUFFICES ASSUME Init PROVE SafeInv OBVIOUS
  <1>1. TypeInv BY TypeInvInit
  <1>2. Ids(next.loan) = {} /\ DOMAIN holds = {} BY DEF Init, Ids, EmptyMap
  <1>3. \A o \in Owned : owner[o] # None BY ConstantAssumption DEF Init
  <1> QED BY <1>1, <1>2, <1>3 DEF SafeInv, Structure, Reborrows, Roots, Pins,
             Dependencies, OpenLoans, Escrow, HoldsOpen

LEMMA SafeInvStep ==
    ASSUME SafeInv, [Next]_vars
    PROVE  SafeInv'
  <1>1. TypeInv' BY TypeInvStep DEF SafeInv
  <1> DEFINE Kept == Structure' /\ OpenLoans' /\ Escrow' /\ HoldsOpen'
  <1>2. ASSUME NEW p \in Participant, Step(p)
        PROVE  Kept
    <2>1. ASSUME NEW b \in Participant, NEW o \in Owned,
                 Lend(p, b, o) \/ LendMutexUse(p, b, o) \/ LendComposite(p, b, o)
          PROVE  Kept
      BY <2>1, RootsSafe DEF Occurrence
    <2>2. ASSUME NEW o \in Input, BorrowedContractInput(p, o) \/ BorrowedMutexUse(p, o)
          PROVE  Kept
      BY <2>2, RootsSafe DEF Occurrence
    <2>3. ASSUME NEW b \in Participant, NEW o \in LocalView, OpenLocalView(p, b, o)
          PROVE  Kept
      BY <2>3, RootsSafe DEF Occurrence
    <2>4. ASSUME NEW b \in Participant, NEW sh \in DOMAIN shares,
                 (\E v \in Resource : Reborrow(p, b, sh, v)) \/ ReborrowMutexUse(p, b, sh)
          PROVE  Kept
      BY <2>4, ChildrenSafe
    <2>5. CASE \/ \E sh \in DOMAIN shares, lh, rh \in Participant : Split(p, sh, lh, rh)
               \/ \E sh \in DOMAIN shares, to \in Participant : Transfer(p, sh, to)
               \/ \E left, right \in DOMAIN shares : Join(p, left, right)
      BY <2>5, ShareMoveSafe
    <2>6. CASE \/ \E sh \in DOMAIN shares : Hold(p, sh)
               \/ \E h \in DOMAIN holds : Release(p, h)
               \/ \E s \in DOMAIN scopes : End(p, s)
               \/ \E l \in DOMAIN loans : Recover(p, l)
      BY <2>6, HoldSafe, ReleaseSafe, EndSafe, RecoverSafe
    <2> HIDE DEF Kept
    <2> QED BY <1>2, <2>1, <2>2, <2>3, <2>4, <2>5, <2>6 DEF Step
  <1>3. ASSUME NEW l \in DOMAIN loans, NEW c \in Resource, NEW child \in Resource,
               Project(l, c, child)
        PROVE  Kept
    BY <1>3, ProjectSafe
  <1>4. CASE UNCHANGED vars
    <2>1. UNCHANGED <<scopes, loans, shares, holds, next, owner>> BY <1>4 DEF vars
    <2>2. Structure'
      BY <2>1 DEF SafeInv, Structure, Reborrows, Roots, Pins, Dependencies
    <2>3. OpenLoans' /\ Escrow' /\ HoldsOpen'
      BY <2>1 DEF SafeInv, OpenLoans, Escrow, HoldsOpen
    <2> QED BY <1>1, <2>2, <2>3 DEF SafeInv
  <1> QED BY <1>1, <1>2, <1>3, <1>4 DEF Next, SafeInv

LEMMA SafeInvariant == Spec => []SafeInv
  BY SafeInvInit, SafeInvStep, PTL DEF Spec

----------------------------------------------------------------------------
(* The theorems                                                            *)

\* A reborrow is open only under an open scope that cannot end before it, so
\* an open scope over an owned occurrence has an open escrow at its root: the
\* oldest open scope over it has no parent.
LEMMA OpenScopeKeepsEscrow ==
    ASSUME SafeInv, NEW o \in Owned, NEW l \in Ids(next.loan),
           loans[l].support = o, scopes[l].active
    PROVE  owner[o] = None
  <1> DEFINE Open == {k \in Ids(next.loan) : loans[k].support = o /\ scopes[k].active}
  <1>1. Open \in SUBSET Nat /\ Open # {}
    BY DEF SafeInv, TypeInv, TypeOK, Ids
  <1>2. PICK m \in Open : \A k \in Open : m <= k BY <1>1, SmallestOf
  <1>3. CASE scopes[m].parent = None
    <2>1. loans[m].origin = "Escrowed" /\ ~loans[m].recovered
      BY <1>3 DEF SafeInv, Structure, Roots, OpenLoans
    <2> QED BY <2>1 DEF SafeInv, Escrow, Escrowed
  <1>4. CASE scopes[m].parent # None
    <2> DEFINE up == scopes[m].parent
    <2>1. /\ up \in Ids(m) /\ loans[up].support = o /\ scopes[up].active
      BY <1>4 DEF SafeInv, Structure, Reborrows, Pins
    <2>2. up \in Ids(next.loan) /\ up < m
      BY <1>1, <2>1 DEF SafeInv, TypeInv, TypeOK, Ids
    <2>3. up \in Open BY <2>1, <2>2
    <2> HIDE DEF Open
    <2>4. up \in Nat /\ m \in Nat BY <1>1, <2>3
    <2> QED BY <1>2, <2>2, <2>3, <2>4
  <1> QED BY <1>3, <1>4

LEMMA DomainsOfMaps ==
    ASSUME SafeInv
    PROVE  DOMAIN scopes = Ids(next.loan) /\ DOMAIN loans = Ids(next.loan)
  BY DEF SafeInv, TypeInv, TypeOK

\* Whoever has an owned occurrence in its context may write it, and no scope
\* over that occurrence is open anywhere in the reborrow trees (lend, reborrow,
\* end and recover in any interleaving of any number of participants).
THEOREM OwnersExcludeReaders == Spec => []OwnerExcludesReaders
  <1>1. SafeInv => OwnerExcludesReaders
    BY OpenScopeKeepsEscrow, DomainsOfMaps DEF OwnerExcludesReaders
  <1> QED BY <1>1, SafeInvariant, PTL

\* lend and recover neither lose nor duplicate an owned occurrence: it is in
\* one context or in the escrow of exactly one unrecovered loan.
THEOREM EscrowIsConserved == Spec => []EscrowConserved
  <1>1. ASSUME SafeInv PROVE EscrowConserved
    <2>1. SUFFICES ASSUME NEW o \in Owned
                   PROVE  IF owner[o] = None
                          THEN \E l \in DOMAIN loans : Escrows(o) = {l}
                          ELSE Escrows(o) = {}
      BY DEF EscrowConserved
    <2>2. Escrows(o) = {l \in Ids(next.loan) : loans[l].support = o /\ Escrowed(loans[l])}
      BY <1>1, DomainsOfMaps DEF Escrows, Escrowed
    <2>3. CASE owner[o] = None
      <3>1. PICK l \in Ids(next.loan) : Escrowed(loans[l]) /\ loans[l].support = o
        BY <1>1, <2>3 DEF SafeInv, Escrow
      <3>2. Escrows(o) = {l} BY <1>1, <2>2, <3>1 DEF SafeInv, Escrow
      <3> QED BY <1>1, <2>3, <3>1, <3>2, DomainsOfMaps
    <2>4. CASE owner[o] # None
      BY <1>1, <2>2, <2>4 DEF SafeInv, Escrow
    <2> QED BY <2>3, <2>4
  <1> QED BY <1>1, SafeInvariant, PTL

\* reborrow pins the parent share and end waits for the open children.
THEOREM ReborrowsPinParents == Spec => []ReborrowPinsParent
  <1>1. SafeInv => ReborrowPinsParent
    BY DomainsOfMaps DEF ReborrowPinsParent, SafeInv, Structure, Reborrows, Pins, Dependencies
  <1> QED BY <1>1, SafeInvariant, PTL

\* end waits for every hold, and release leaves nothing to wait for.
THEOREM HoldsKeepOpen == Spec => []HoldsKeepScopesOpen
  <1>1. SafeInv => HoldsKeepScopesOpen
    BY DomainsOfMaps DEF HoldsKeepScopesOpen, SafeInv, HoldsOpen
  <1> QED BY <1>1, SafeInvariant, PTL

----------------------------------------------------------------------------
(* The invariant: what the barrier holds of every open loan                *)

\* The bytes an opening on o enumerates.
OpeningBytes(o) ==
    LET r == Head[o] IN
    IF Kind[r] = "mutex" THEN {}
    ELSE IF o \in Owned /\ Kind[r] = "composite" THEN Frontier[r] \cap Memory
    ELSE IF o \in Input THEN ({r} \cup Frontier[r]) \cap Memory
    ELSE {r} \cap Memory

OpenedBytes ==
    \A l \in Ids(next.loan) : scopes[l].parent = None =>
        loans[l].backing = OpeningBytes(loans[l].support)

\* The index has the indexed bytes of every open loan; the symbolic ranges are
\* entered for loans without a parent.
IndexEntry(e) == /\ scopes[e[2]].active
                 /\ e[1] \in loans[e[2]].backing /\ e[1] \in Indexed
SymbolicEntry(e) == /\ scopes[e[2]].active /\ scopes[e[2]].parent = None
                    /\ e[1] \in loans[e[2]].backing /\ e[1] \notin Indexed

Entries ==
    \A e \in Memory \X Ids(next.loan) : /\ IndexEntry(e) => e \in index
                                        /\ SymbolicEntry(e) => e \in unindexed

Protecting(l) == scopes[l].active /\ LoanProtectsMemory(loans[l].backing, loans[l].permitted)
NonlocalEntry(e) == /\ scopes[e[2]].active
                    /\ e[1] \in (loans[e[2]].backing \cap Indexed) \ LocalBlock

Counts ==
    /\ count.loans = Cardinality({l \in Ids(next.loan) : Protecting(l)})
    /\ count.nonlocal = Cardinality({e \in Memory \X Ids(next.loan) : NonlocalEntry(e)})

\* A mutex loan is its own root, or has the root of the loan above.
MutexRoots ==
    \A l \in Ids(next.loan) : loans[l].mutexRoot # None =>
        /\ scopes[l].parent = None => loans[l].mutexRoot = l
        /\ scopes[l].parent # None =>
              loans[l].mutexRoot = loans[scopes[l].parent].mutexRoot

Barrier == OpenedBytes /\ Entries /\ Counts /\ MutexRoots

BarrierInv == SafeInv /\ Barrier

----------------------------------------------------------------------------
(* Counting                                                                *)

LEMMA MemoryIsFinite == IsFiniteSet(Memory)
  BY FS_Subset, ConstantAssumption DEF Memory

LEMMA EntriesFinite ==
    ASSUME NEW n \in Nat
    PROVE  /\ IsFiniteSet(Ids(n)) /\ IsFiniteSet(Memory \X Ids(n))
           /\ \A S \in SUBSET Ids(n) : IsFiniteSet(S)
           /\ \A S \in SUBSET (Memory \X Ids(n)) : IsFiniteSet(S)
           /\ \A S \in SUBSET Memory : IsFiniteSet(S)
  <1>1. IsFiniteSet(Ids(n)) BY FS_Interval DEF Ids
  <1>2. IsFiniteSet(Memory \X Ids(n)) BY <1>1, MemoryIsFinite, FS_Product
  <1> QED BY <1>1, <1>2, MemoryIsFinite, FS_Subset

LEMMA DisjointCount ==
    ASSUME NEW S, NEW T, IsFiniteSet(S), IsFiniteSet(T), S \cap T = {}
    PROVE  Cardinality(S \cup T) = Cardinality(S) + Cardinality(T)
  <1>1. Cardinality(S \cup T) = Cardinality(S) + Cardinality(T) - Cardinality(S \cap T)
    BY FS_Union
  <1>2. Cardinality(S \cap T) = 0 BY FS_EmptySet
  <1>3. Cardinality(S) \in Nat /\ Cardinality(T) \in Nat BY FS_CardinalityType
  <1> QED BY <1>1, <1>2, <1>3

LEMMA TaggedCount ==
    ASSUME NEW S, NEW l, IsFiniteSet(S)
    PROVE  IsFiniteSet(S \X {l}) /\ Cardinality(S \X {l}) = Cardinality(S)
  <1>1. IsFiniteSet({l}) /\ Cardinality({l}) = 1 BY FS_Singleton
  <1>2. /\ IsFiniteSet(S \X {l})
        /\ Cardinality(S \X {l}) = Cardinality(S) * Cardinality({l})
    BY <1>1, FS_Product
  <1>3. Cardinality(S) \in Nat BY FS_CardinalityType
  <1> QED BY <1>1, <1>2, <1>3

\* An opening counts its loan and its non-local ranges.
LEMMA OpenedCounts ==
    ASSUME BarrierInv, NEW backing \in SUBSET Memory, NEW permitted, NEW entersSymbolic,
           Register(next.loan, backing, permitted, entersSymbolic),
           next'.loan = next.loan + 1,
           \A s \in Ids(next.loan) : /\ loans'[s] = loans[s]
                                     /\ scopes'[s].active <=> scopes[s].active,
           scopes'[next.loan].active, loans'[next.loan].backing = backing,
           loans'[next.loan].permitted = permitted
    PROVE  Counts'
  <1> DEFINE n == next.loan
             P == {l \in Ids(n) : Protecting(l)}
             Q == {l \in Ids(n + 1) : Protecting(l)'}
             E == {e \in Memory \X Ids(n) : NonlocalEntry(e)}
             F == {e \in Memory \X Ids(n + 1) : NonlocalEntry(e)'}
             new == (backing \cap Indexed) \ LocalBlock
  <1>1. n \in Nat /\ Ids(n + 1) = Ids(n) \cup {n} /\ n \notin Ids(n)
    BY IdsNext DEF BarrierInv, SafeInv, TypeInv, TypeOK
  <1>2. IsFiniteSet(P) /\ IsFiniteSet(E) /\ IsFiniteSet(new)
    BY <1>1, EntriesFinite
  <1>3. count.loans = Cardinality(P) /\ count.nonlocal = Cardinality(E)
    BY DEF BarrierInv, Barrier, Counts
  <1>4. count'.loans = Cardinality(Q)
    <2>1. CASE LoanProtectsMemory(backing, permitted)
      <3>1. Q = P \cup {n} BY <1>1, <2>1 DEF Protecting
      <3>2. n \notin P BY <1>1
      <3> HIDE DEF P, Q
      <3>3. Cardinality(Q) = Cardinality(P) + 1 BY <1>2, <3>1, <3>2, FS_AddElement
      <3> QED BY <1>3, <2>1, <3>3 DEF Register
    <2>2. CASE ~LoanProtectsMemory(backing, permitted)
      <3>1. Q = P BY <1>1, <2>2 DEF Protecting
      <3>2. Cardinality(P) \in Nat BY <1>2, FS_CardinalityType
      <3> HIDE DEF P, Q
      <3> QED BY <1>3, <2>2, <3>1, <3>2 DEF Register
    <2> QED BY <2>1, <2>2
  <1>5. count'.nonlocal = Cardinality(F)
    <2>1. F = E \cup (new \X {n})
      <3>1. \A m \in Memory, l \in Ids(n) : NonlocalEntry(<<m, l>>)' <=> NonlocalEntry(<<m, l>>)
        BY DEF NonlocalEntry
      <3>2. \A m \in Memory, l \in {n} : NonlocalEntry(<<m, l>>)' <=> m \in new
        BY DEF NonlocalEntry
      <3>3. new \subseteq Memory OBVIOUS
      <3> HIDE DEF new
      <3> QED BY <1>1, <3>1, <3>2, <3>3
    <2>2. E \cap (new \X {n}) = {} BY <1>1
    <2>3. IsFiniteSet(new \X {n}) /\ Cardinality(new \X {n}) = Cardinality(new)
      BY <1>2, TaggedCount
    <2>4. Nonlocal(backing) = Cardinality(new) BY DEF Nonlocal
    <2> HIDE DEF E, F, new
    <2>5. Cardinality(F) = Cardinality(E) + Cardinality(new)
      BY <1>2, <2>1, <2>2, <2>3, DisjointCount
    <2> QED BY <1>3, <2>4, <2>5 DEF Register
  <1> QED BY <1>4, <1>5 DEF Counts

\* The end of a scope takes off what its opening counted.
LEMMA EndedCounts ==
    ASSUME BarrierInv, NEW s \in DOMAIN scopes, Unregister(s), ScopeEnded(s)
    PROVE  Counts'
  <1> DEFINE n == next.loan
             P == {l \in Ids(n) : Protecting(l)}
             Q == {l \in Ids(n) : Protecting(l)'}
             E == {e \in Memory \X Ids(n) : NonlocalEntry(e)}
             F == {e \in Memory \X Ids(n) : NonlocalEntry(e)'}
             old == (loans[s].backing \cap Indexed) \ LocalBlock
  <1>1. n \in Nat /\ s \in Ids(n) /\ loans[s].backing \subseteq Memory
        /\ count.nonlocal \in Nat
    BY DEF BarrierInv, SafeInv, TypeInv, TypeOK, LoanRecord
  <1>2. /\ loans' = loans /\ next' = next /\ scopes[s].active
        /\ \A r \in Ids(n) : scopes'[r].active <=> r # s /\ scopes[r].active
    BY DEF ScopeEnded
  <1>3. IsFiniteSet(P) /\ IsFiniteSet(E) /\ IsFiniteSet(F) /\ IsFiniteSet(old)
    BY <1>1, EntriesFinite
  <1>4. count.loans = Cardinality(P) /\ count.nonlocal = Cardinality(E)
    BY DEF BarrierInv, Barrier, Counts
  <1>5. count'.loans = Cardinality(Q)
    <2>1. Q = P \ {s} BY <1>1, <1>2 DEF Protecting
    <2>2. s \in P <=> LoanProtectsMemory(loans[s].backing, loans[s].permitted)
      BY <1>1, <1>2 DEF Protecting
    <2> HIDE DEF P, Q
    <2>3. Cardinality(Q) = IF s \in P THEN Cardinality(P) - 1 ELSE Cardinality(P)
      BY <1>3, <2>1, FS_RemoveElement
    <2> QED BY <1>4, <2>2, <2>3 DEF Unregister
  <1>6. count'.nonlocal = Cardinality(F)
    <2>1. E = F \cup (old \X {s})
      <3>1. \A m \in Memory, l \in Ids(n) : l # s =>
                (NonlocalEntry(<<m, l>>)' <=> NonlocalEntry(<<m, l>>))
        BY <1>2 DEF NonlocalEntry
      <3>2. \A m \in Memory : /\ NonlocalEntry(<<m, s>>) <=> m \in old
                              /\ ~NonlocalEntry(<<m, s>>)'
        BY <1>1, <1>2 DEF NonlocalEntry
      <3>3. old \subseteq Memory BY <1>1
      <3> HIDE DEF old
      <3> QED BY <1>1, <3>1, <3>2, <3>3
    <2>2. F \cap (old \X {s}) = {}
      BY <1>1, <1>2 DEF NonlocalEntry
    <2>3. IsFiniteSet(old \X {s}) /\ Cardinality(old \X {s}) = Cardinality(old)
      BY <1>3, TaggedCount
    <2>4. Nonlocal(loans[s].backing) = Cardinality(old) BY DEF Nonlocal
    <2>5. Cardinality(F) \in Nat /\ Cardinality(old) \in Nat BY <1>3, FS_CardinalityType
    <2> HIDE DEF E, F, old
    <2>6. Cardinality(E) = Cardinality(F) + Cardinality(old)
      BY <1>3, <2>1, <2>2, <2>3, DisjointCount
    <2> QED BY <1>4, <2>4, <2>5, <2>6 DEF Unregister
  <1> QED BY <1>2, <1>5, <1>6 DEF Counts

----------------------------------------------------------------------------
(* Steps                                                                   *)

\* What the barrier says depends on the bytes, permissions, support and mutex
\* root of every loan and on which scopes are open under which.
LEMMA BarrierUnchanged ==
    ASSUME BarrierInv, UNCHANGED <<index, unindexed, count>>, next'.loan = next.loan,
           \A l \in Ids(next.loan) :
               /\ scopes'[l].active <=> scopes[l].active
               /\ scopes'[l].parent = scopes[l].parent
               /\ loans'[l].support = loans[l].support
               /\ loans'[l].mutexRoot = loans[l].mutexRoot
               /\ loans'[l].backing = loans[l].backing
               /\ LoanProtectsMemory(loans'[l].backing, loans'[l].permitted)
                     <=> LoanProtectsMemory(loans[l].backing, loans[l].permitted)
    PROVE  Barrier'
  <1> DEFINE n == next.loan
  <1>1. OpenedBytes' BY DEF BarrierInv, Barrier, OpenedBytes
  <1>2. Entries'
    BY DEF BarrierInv, Barrier, Entries, IndexEntry, SymbolicEntry
  <1>3. Counts'
    <2>1. {l \in Ids(n) : Protecting(l)} = {l \in Ids(n) : Protecting(l)'}
      BY DEF Protecting
    <2>2. {e \in Memory \X Ids(n) : NonlocalEntry(e)}
             = {e \in Memory \X Ids(n) : NonlocalEntry(e)'}
      BY DEF NonlocalEntry
    <2> QED BY <2>1, <2>2 DEF BarrierInv, Barrier, Counts
  <1>4. MutexRoots'
    <2>1. \A l \in Ids(n) : scopes[l].parent # None => scopes[l].parent \in Ids(n)
      BY IdsNext DEF BarrierInv, SafeInv, Structure, Reborrows, TypeInv, TypeOK
    <2> QED BY <2>1 DEF BarrierInv, Barrier, MutexRoots
  <1> QED BY <1>1, <1>2, <1>3, <1>4 DEF Barrier

\* The entries and the other parts that an opening of a new loan adds to.
LEMMA OpenedBarrier ==
    ASSUME BarrierInv, NEW backing \in SUBSET Memory, NEW permitted,
           NEW entersSymbolic \in BOOLEAN, NEW parent, NEW mutexRoot, NEW o,
           Register(next.loan, backing, permitted, entersSymbolic),
           next'.loan = next.loan + 1,
           \A s \in Ids(next.loan) : /\ loans'[s] = loans[s]
                                     /\ scopes'[s].active <=> scopes[s].active
                                     /\ scopes'[s].parent = scopes[s].parent,
           scopes'[next.loan].active, scopes'[next.loan].parent = parent,
           loans'[next.loan].backing = backing, loans'[next.loan].support = o,
           loans'[next.loan].permitted = permitted,
           loans'[next.loan].mutexRoot = mutexRoot,
           parent = None => /\ entersSymbolic /\ backing = OpeningBytes(o)
                            /\ mutexRoot # None => mutexRoot = next.loan,
           parent # None => /\ parent \in Ids(next.loan)
                            /\ mutexRoot # None => mutexRoot = loans[parent].mutexRoot
    PROVE  Barrier'
  <1> DEFINE n == next.loan
  <1>1. n \in Nat /\ Ids(n + 1) = Ids(n) \cup {n} /\ n \notin Ids(n)
    BY IdsNext DEF BarrierInv, SafeInv, TypeInv, TypeOK
  <1>2. OpenedBytes' BY <1>1 DEF BarrierInv, Barrier, OpenedBytes
  <1>3. Entries'
    <2>1. /\ index \subseteq index' /\ unindexed \subseteq unindexed'
          /\ (backing \cap Indexed) \X {n} \subseteq index'
          /\ entersSymbolic => (backing \ Indexed) \X {n} \subseteq unindexed'
      BY DEF Register, SymbolicRanges
    <2>2. ASSUME NEW m \in Memory, NEW l \in Ids(n)
          PROVE  /\ IndexEntry(<<m, l>>)' => <<m, l>> \in index'
                 /\ SymbolicEntry(<<m, l>>)' => <<m, l>> \in unindexed'
      BY <2>1 DEF BarrierInv, Barrier, Entries, IndexEntry, SymbolicEntry
    <2>3. ASSUME NEW m \in Memory, NEW l \in {n}
          PROVE  /\ IndexEntry(<<m, l>>)' => <<m, l>> \in index'
                 /\ SymbolicEntry(<<m, l>>)' => <<m, l>> \in unindexed'
      BY <2>1 DEF IndexEntry, SymbolicEntry
    <2>4. ASSUME NEW e \in Memory \X Ids(n + 1)
          PROVE  /\ IndexEntry(e)' => e \in index'
                 /\ SymbolicEntry(e)' => e \in unindexed'
      <3>1. PICK m \in Memory, l \in Ids(n + 1) : e = <<m, l>> OBVIOUS
      <3> QED BY <1>1, <2>2, <2>3, <3>1
    <2> QED BY <2>4 DEF Entries
  <1>4. Counts' BY OpenedCounts
  <1>5. MutexRoots'
    <2>1. \A l \in Ids(n) : scopes[l].parent # None => scopes[l].parent \in Ids(n)
      BY IdsNext DEF BarrierInv, SafeInv, Structure, Reborrows, TypeInv, TypeOK
    <2> QED BY <1>1, <2>1 DEF BarrierInv, Barrier, MutexRoots
  <1> QED BY <1>2, <1>3, <1>4, <1>5 DEF Barrier

LEMMA EndedBarrier ==
    ASSUME BarrierInv, NEW p \in Participant, NEW s \in DOMAIN scopes, End(p, s)
    PROVE  Barrier'
  <1> DEFINE n == next.loan
  <1>1. ScopeEnded(s) BY EndEffect DEF BarrierInv, SafeInv
  <1>2. Unregister(s) BY DEF End
  <1>3. /\ loans' = loans /\ next' = next
        /\ \A r \in Ids(n) : /\ scopes'[r].active <=> r # s /\ scopes[r].active
                             /\ scopes'[r].parent = scopes[r].parent
    BY <1>1 DEF ScopeEnded
  <1>4. OpenedBytes' BY <1>3 DEF BarrierInv, Barrier, OpenedBytes
  <1>5. Entries'
    <2>1. /\ index' = index \ ((loans[s].backing \cap Indexed) \X {s})
          /\ unindexed' = unindexed \ (SymbolicRanges(loans[s].backing) \X {s})
      BY <1>2 DEF Unregister
    <2>2. ASSUME NEW m \in Memory, NEW l \in Ids(n)
          PROVE  /\ IndexEntry(<<m, l>>)' => <<m, l>> \in index'
                 /\ SymbolicEntry(<<m, l>>)' => <<m, l>> \in unindexed'
      BY <1>3, <2>1 DEF BarrierInv, Barrier, Entries, IndexEntry, SymbolicEntry
    <2> QED BY <1>3, <2>2 DEF Entries
  <1>6. Counts' BY <1>1, <1>2, EndedCounts
  <1>7. MutexRoots' BY <1>3 DEF BarrierInv, Barrier, MutexRoots
  <1> QED BY <1>4, <1>5, <1>6, <1>7 DEF Barrier

LEMMA OpenRootBarrier ==
    ASSUME BarrierInv, NEW b, NEW closeRight, NEW o, NEW head, NEW permitted,
           NEW backing, NEW mutexRoot, NEW origin,
           OpenRoot(b, closeRight, o, head, permitted, backing, mutexRoot, origin),
           backing = OpeningBytes(o), backing \subseteq Memory,
           mutexRoot # None => mutexRoot = next.loan
    PROVE  Barrier'
  <1> DEFINE n == next.loan
  <1>1. TypeInv BY DEF BarrierInv, SafeInv
  <1>2. /\ n \in Nat /\ next'.loan = n + 1
        /\ \A s \in Ids(n) : scopes'[s] = scopes[s] /\ loans'[s] = loans[s]
        /\ scopes'[n].active /\ scopes'[n].parent = None
    BY <1>1, OpenRootEffect
  <1>3. /\ loans'[n].support = o /\ loans'[n].permitted = permitted
        /\ loans'[n].backing = backing /\ loans'[n].mutexRoot = mutexRoot
    BY DEF OpenRoot, WithInserted
  <1>4. Register(n, backing, permitted, TRUE) BY DEF OpenRoot
  <1>5. \A s \in Ids(n) : /\ loans'[s] = loans[s]
                          /\ scopes'[s].active <=> scopes[s].active
                          /\ scopes'[s].parent = scopes[s].parent
    BY <1>2
  <1>6. backing \in SUBSET Memory /\ TRUE \in BOOLEAN OBVIOUS
  <1> QED BY <1>2, <1>3, <1>4, <1>5, <1>6, OpenedBarrier

LEMMA OpenChildBarrier ==
    ASSUME BarrierInv, NEW p, NEW b, NEW sh \in DOMAIN shares, NEW head,
           NEW permitted, NEW backing \in SUBSET Memory, NEW mutexRoot,
           OpenChild(p, b, sh, head, permitted, backing, mutexRoot),
           mutexRoot # None => mutexRoot = loans[shares[sh].scope].mutexRoot
    PROVE  Barrier'
  <1> DEFINE n == next.loan
             up == shares[sh].scope
  <1>1. TypeInv BY DEF BarrierInv, SafeInv
  <1>2. /\ n \in Nat /\ next'.loan = n + 1
        /\ \A s \in Ids(n) : /\ loans'[s] = loans[s]
                             /\ scopes'[s].active <=> scopes[s].active
                             /\ scopes'[s].parent = scopes[s].parent
        /\ scopes'[n].active /\ scopes'[n].parent = up
        /\ loans'[n].support = loans[up].support
    <2>1. ChildOpened(sh) BY <1>1, OpenChildEffect
    <2> QED BY <2>1 DEF ChildOpened
  <1>3. /\ loans'[n].permitted = permitted
        /\ loans'[n].backing = backing /\ loans'[n].mutexRoot = mutexRoot
    BY DEF OpenChild, WithInserted
  <1>4. Register(n, backing, permitted, FALSE) BY DEF OpenChild
  <1>5. up \in Ids(n) /\ up # None
    BY <1>1, <1>2, ConstantAssumption DEF TypeInv, TypeOK, ScopesOpened, Ids
  <1> HIDE DEF up
  <1> QED BY <1>2, <1>3, <1>4, <1>5, OpenedBarrier DEF up

LEMMA RootsBarrier ==
    ASSUME BarrierInv, NEW p \in Participant, NEW b \in Participant, NEW o \in Occurrence,
           \/ o \in Owned /\ (Lend(p, b, o) \/ LendMutexUse(p, b, o) \/ LendComposite(p, b, o))
           \/ BorrowedContractInput(p, o) \/ BorrowedMutexUse(p, o)
           \/ o \in LocalView /\ OpenLocalView(p, b, o)
    PROVE  Barrier'
  <1> DEFINE r == Head[o]
  <1>1. /\ r \in Resource /\ OpeningBytes(o) \subseteq Memory
        /\ Kind[r] = "memory" <=> r \in Memory
        /\ o \in Owned => o \notin Input
        /\ o \in LocalView => o \notin Owned /\ o \notin Input /\ r \in Memory
    BY ConstantAssumption DEF OpeningBytes, Memory
  <1>2. CASE o \in Owned /\ Lend(p, b, o)
    <2>1. OpeningBytes(o) = IF Kind[r] = "memory" THEN {r} ELSE {}
      BY <1>1, <1>2 DEF OpeningBytes, Lend
    <2> QED BY <1>1, <1>2, <2>1, OpenRootBarrier DEF Lend
  <1>3. CASE o \in Owned /\ LendMutexUse(p, b, o)
    <2>1. OpeningBytes(o) = {} BY <1>3 DEF OpeningBytes, LendMutexUse
    <2> QED BY <1>1, <1>3, <2>1, OpenRootBarrier DEF LendMutexUse
  <1>4. CASE o \in Owned /\ LendComposite(p, b, o)
    <2>1. OpeningBytes(o) = Frontier[r] \cap Memory
      BY <1>4 DEF OpeningBytes, LendComposite
    <2> QED BY <1>1, <1>4, <2>1, OpenRootBarrier DEF LendComposite
  <1>5. CASE BorrowedContractInput(p, o)
    <2>1. OpeningBytes(o) = ({r} \cup Frontier[r]) \cap Memory
      BY <1>1, <1>5 DEF OpeningBytes, BorrowedContractInput
    <2> QED BY <1>1, <1>5, <2>1, OpenRootBarrier DEF BorrowedContractInput
  <1>6. CASE BorrowedMutexUse(p, o)
    <2>1. OpeningBytes(o) = {} BY <1>6 DEF OpeningBytes, BorrowedMutexUse
    <2> QED BY <1>1, <1>6, <2>1, OpenRootBarrier DEF BorrowedMutexUse
  <1>7. CASE o \in LocalView /\ OpenLocalView(p, b, o)
    <2>1. OpeningBytes(o) = {r} BY <1>1, <1>7 DEF OpeningBytes, Memory
    <2> QED BY <1>1, <1>7, <2>1, OpenRootBarrier DEF OpenLocalView
  <1> QED BY <1>2, <1>3, <1>4, <1>5, <1>6, <1>7

LEMMA ChildrenBarrier ==
    ASSUME BarrierInv, NEW p \in Participant, NEW b \in Participant,
           NEW sh \in DOMAIN shares,
           \/ \E v \in Resource : Reborrow(p, b, sh, v)
           \/ ReborrowMutexUse(p, b, sh)
    PROVE  Barrier'
  <1>1. loans[shares[sh].scope].backing \subseteq Memory
    BY DEF BarrierInv, SafeInv, TypeInv, TypeOK, ScopesOpened, LoanRecord
  <1>2. CASE \E v \in Resource : Reborrow(p, b, sh, v)
    <2>1. PICK v \in Resource : Reborrow(p, b, sh, v) BY <1>2
    <2>2. ReborrowedBacking(loans[shares[sh].scope], v) \in SUBSET Memory
      BY <1>1 DEF ReborrowedBacking
    <2> QED BY <2>1, <2>2, OpenChildBarrier DEF Reborrow
  <1>3. CASE ReborrowMutexUse(p, b, sh)
    BY <1>3, OpenChildBarrier DEF ReborrowMutexUse
  <1> QED BY <1>2, <1>3

\* A projection is taken off a permitted composite, and covering relates
\* resources of one kind, so the loan protected memory before.
LEMMA ProjectBarrier ==
    ASSUME BarrierInv, NEW l \in DOMAIN loans, NEW c \in Resource, NEW child \in Resource,
           Project(l, c, child)
    PROVE  Barrier'
  <1>1. /\ loans \in [Ids(next.loan) -> LoanRecord] /\ l \in Ids(next.loan)
        /\ loans[l].permitted \subseteq Resource
    BY DEF BarrierInv, SafeInv, TypeInv, TypeOK, LoanRecord
  <1>2. /\ loans' = [loans EXCEPT ![l].permitted = @ \cup {child}]
        /\ UNCHANGED <<scopes, next, index, unindexed, count>>
        /\ Kind[c] = "composite" /\ Permits(l, c)
    BY DEF Project
  <1>3. \E r \in loans[l].permitted : Kind[r] = "composite"
    BY <1>1, <1>2, FootprintAssumption DEF Permits
  <1>4. \A k \in Ids(next.loan) :
           /\ loans'[k].support = loans[k].support
           /\ loans'[k].mutexRoot = loans[k].mutexRoot
           /\ loans'[k].backing = loans[k].backing
           /\ k # l => loans'[k].permitted = loans[k].permitted
           /\ k = l => loans'[k].permitted = loans[k].permitted \cup {child}
    BY <1>1, <1>2 DEF LoanRecord
  <1>5. \A k \in Ids(next.loan) :
           LoanProtectsMemory(loans'[k].backing, loans'[k].permitted)
              <=> LoanProtectsMemory(loans[k].backing, loans[k].permitted)
    BY <1>3, <1>4 DEF LoanProtectsMemory
  <1> QED BY <1>2, <1>4, <1>5, BarrierUnchanged

LEMMA RecoverBarrier ==
    ASSUME BarrierInv, NEW p \in Participant, NEW l \in DOMAIN loans, Recover(p, l)
    PROVE  Barrier'
  <1>1. loans \in [Ids(next.loan) -> LoanRecord]
    BY DEF BarrierInv, SafeInv, TypeInv, TypeOK
  <1>2. /\ loans' = [loans EXCEPT ![l].recovered = TRUE]
        /\ UNCHANGED <<scopes, next, index, unindexed, count>>
    BY DEF Recover
  <1>3. \A k \in Ids(next.loan) :
           /\ loans'[k].support = loans[k].support
           /\ loans'[k].mutexRoot = loans[k].mutexRoot
           /\ loans'[k].backing = loans[k].backing
           /\ loans'[k].permitted = loans[k].permitted
    BY <1>1, <1>2 DEF LoanRecord
  <1> QED BY <1>2, <1>3, BarrierUnchanged

\* Moves of shares and holds.
LEMMA MovesBarrier ==
    ASSUME BarrierInv, NEW p \in Participant,
           \/ \E sh \in DOMAIN shares, lh, rh \in Participant : Split(p, sh, lh, rh)
           \/ \E sh \in DOMAIN shares, to \in Participant : Transfer(p, sh, to)
           \/ \E left, right \in DOMAIN shares : Join(p, left, right)
           \/ \E sh \in DOMAIN shares : Hold(p, sh)
           \/ \E h \in DOMAIN holds : Release(p, h)
    PROVE  Barrier'
  <1>1. UNCHANGED <<loans, index, unindexed, count>> /\ next'.loan = next.loan
    <2>1. next.loan \in Nat BY DEF BarrierInv, SafeInv, TypeInv, TypeOK
    <2>2. next' = next \/ \E i, j : Advance(0, i, j)
      BY DEF Split, Transfer, Join, Hold, Release
    <2>3. next'.loan = next.loan BY <2>1, <2>2 DEF Advance
    <2> QED BY <2>3 DEF Split, Transfer, Join, Hold, Release
  <1>2. \A s \in Ids(next.loan) : /\ scopes'[s].active <=> scopes[s].active
                                  /\ scopes'[s].parent = scopes[s].parent
    <2>1. scopes \in [Ids(next.loan) -> ScopeRecord]
      BY DEF BarrierInv, SafeInv, TypeInv, TypeOK
    <2>2. \/ scopes' = scopes
          \/ \E s, H : scopes' = [scopes EXCEPT ![s].holds = H]
      BY DEF Split, Transfer, Join, Hold, Release
    <2> QED BY <2>1, <2>2 DEF ScopeRecord
  <1> QED BY <1>1, <1>2, BarrierUnchanged

LEMMA BarrierInvInit == Init => BarrierInv
  <1> SUFFICES ASSUME Init PROVE BarrierInv OBVIOUS
  <1>1. SafeInv BY SafeInvInit
  <1>2. Ids(next.loan) = {} BY DEF Init, Ids
  <1>3. Counts
    <2>1. {l \in Ids(next.loan) : Protecting(l)} = {} BY <1>2
    <2>2. {e \in Memory \X Ids(next.loan) : NonlocalEntry(e)} = {} BY <1>2
    <2> QED BY <2>1, <2>2, FS_EmptySet DEF Counts, Init
  <1> QED BY <1>1, <1>2, <1>3 DEF BarrierInv, Barrier, OpenedBytes, Entries, MutexRoots

LEMMA BarrierInvStep ==
    ASSUME BarrierInv, [Next]_vars
    PROVE  BarrierInv'
  <1>1. SafeInv' BY SafeInvStep DEF BarrierInv
  <1>2. ASSUME NEW p \in Participant, Step(p)
        PROVE  Barrier'
    <2>1. ASSUME NEW b \in Participant, NEW o \in Owned,
                 Lend(p, b, o) \/ LendMutexUse(p, b, o) \/ LendComposite(p, b, o)
          PROVE  Barrier'
      BY <2>1, RootsBarrier DEF Occurrence
    <2>2. ASSUME NEW o \in Input, BorrowedContractInput(p, o) \/ BorrowedMutexUse(p, o)
          PROVE  Barrier'
      BY <2>2, RootsBarrier DEF Occurrence
    <2>3. ASSUME NEW b \in Participant, NEW o \in LocalView, OpenLocalView(p, b, o)
          PROVE  Barrier'
      BY <2>3, RootsBarrier DEF Occurrence
    <2>4. ASSUME NEW b \in Participant, NEW sh \in DOMAIN shares,
                 (\E v \in Resource : Reborrow(p, b, sh, v)) \/ ReborrowMutexUse(p, b, sh)
          PROVE  Barrier'
      BY <2>4, ChildrenBarrier
    <2>5. CASE \/ \E sh \in DOMAIN shares, lh, rh \in Participant : Split(p, sh, lh, rh)
               \/ \E sh \in DOMAIN shares, to \in Participant : Transfer(p, sh, to)
               \/ \E left, right \in DOMAIN shares : Join(p, left, right)
               \/ \E sh \in DOMAIN shares : Hold(p, sh)
               \/ \E h \in DOMAIN holds : Release(p, h)
      BY <2>5, MovesBarrier
    <2>6. CASE \/ \E s \in DOMAIN scopes : End(p, s)
               \/ \E l \in DOMAIN loans : Recover(p, l)
      BY <2>6, EndedBarrier, RecoverBarrier
    <2> QED BY <1>2, <2>1, <2>2, <2>3, <2>4, <2>5, <2>6 DEF Step
  <1>3. ASSUME NEW l \in DOMAIN loans, NEW c \in Resource, NEW child \in Resource,
               Project(l, c, child)
        PROVE  Barrier'
    BY <1>3, ProjectBarrier
  <1>4. CASE UNCHANGED vars
    <2>1. UNCHANGED <<scopes, loans, next, index, unindexed, count>> BY <1>4 DEF vars
    <2>2. Barrier' BY <2>1, BarrierUnchanged
    <2> QED BY <1>1, <2>2 DEF BarrierInv
  <1> QED BY <1>1, <1>2, <1>3, <1>4 DEF Next, BarrierInv

LEMMA BarrierInvariant == Spec => []BarrierInv
  BY BarrierInvInit, BarrierInvStep, PTL DEF Spec

----------------------------------------------------------------------------
(* The theorems                                                            *)

\* The counters that loops and branch joins consult before they abstract
\* memory are exact in every reachable ledger: register and end count by one
\* predicate, and project cannot change it between them.
THEOREM BarrierCountsAreExact == Spec => []BarrierCountsExact
  <1>1. ASSUME BarrierInv PROVE BarrierCountsExact
    <2> DEFINE n == next.loan
               open == {l \in DOMAIN loans : scopes[l].active}
               P == {l \in Ids(n) : Protecting(l)}
               E == {e \in Memory \X Ids(n) : NonlocalEntry(e)}
               U == UNION {((loans[l].backing \cap Indexed) \ LocalBlock) \X {l} : l \in open}
    <2>1. /\ DOMAIN loans = Ids(n)
          /\ \A l \in Ids(n) : loans[l].backing \subseteq Memory
      BY <1>1 DEF BarrierInv, SafeInv, TypeInv, TypeOK, LoanRecord
    <2>2. P = {l \in open : LoanProtectsMemory(loans[l].backing, loans[l].permitted)}
      BY <2>1 DEF Protecting
    <2>3. E = U
      <3>1. ASSUME NEW e \in E PROVE e \in U
        <4>1. PICK m \in Memory, l \in Ids(n) : e = <<m, l>> OBVIOUS
        <4>2. l \in open /\ m \in (loans[l].backing \cap Indexed) \ LocalBlock
          BY <2>1, <3>1, <4>1 DEF NonlocalEntry
        <4> QED BY <4>1, <4>2
      <3>2. ASSUME NEW e \in U PROVE e \in E
        <4>1. PICK l \in open : e \in ((loans[l].backing \cap Indexed) \ LocalBlock) \X {l}
          BY <3>2
        <4> QED BY <2>1, <4>1 DEF NonlocalEntry
      <3> QED BY <3>1, <3>2
    <2>4. count.loans = Cardinality(P) /\ count.nonlocal = Cardinality(E)
      BY <1>1 DEF BarrierInv, Barrier, Counts
    <2> QED BY <2>2, <2>3, <2>4 DEF BarrierCountsExact
  <1> QED BY <1>1, BarrierInvariant, PTL

\* The oldest open scope over an occurrence has no parent.
LEMMA OpenRootOf ==
    ASSUME SafeInv, NEW l \in Ids(next.loan), scopes[l].active
    PROVE  \E m \in Ids(next.loan) : /\ scopes[m].active /\ scopes[m].parent = None
                                     /\ loans[m].support = loans[l].support
  <1> DEFINE o == loans[l].support
             Open == {k \in Ids(next.loan) : loans[k].support = o /\ scopes[k].active}
  <1>1. Open \in SUBSET Nat /\ Open # {}
    BY DEF SafeInv, TypeInv, TypeOK, Ids
  <1>2. PICK m \in Open : \A k \in Open : m <= k BY <1>1, SmallestOf
  <1>3. scopes[m].parent = None
    <2> SUFFICES ASSUME scopes[m].parent # None PROVE FALSE OBVIOUS
    <2> DEFINE up == scopes[m].parent
    <2>1. /\ up \in Ids(m) /\ loans[up].support = o /\ scopes[up].active
      BY DEF SafeInv, Structure, Reborrows, Pins
    <2>2. up \in Ids(next.loan) /\ up < m
      BY <1>1, <2>1 DEF SafeInv, TypeInv, TypeOK, Ids
    <2>3. up \in Open BY <2>1, <2>2
    <2> HIDE DEF Open
    <2>4. up \in Nat /\ m \in Nat BY <1>1, <2>3
    <2> QED BY <1>2, <2>2, <2>3, <2>4
  <1> QED BY <1>3

\* An entry of the barrier refuses every access that overlaps its range.
LEMMA EntryRefuses ==
    ASSUME BarrierInv, NEW l \in Ids(next.loan), scopes[l].active,
           NEW r \in loans[l].backing, r \in Indexed \/ scopes[l].parent = None,
           NEW q \in Memory, <<q, r>> \in Overlaps
    PROVE  ~PermitsMemoryAccess(q)
  <1> DEFINE e == <<r, l>>
  <1>1. r \in Memory /\ e \in Memory \X Ids(next.loan) /\ next.loan \in Nat
        /\ q \in Resource /\ r \in Resource
    BY DEF BarrierInv, SafeInv, TypeInv, TypeOK, LoanRecord, Memory
  <1>2. CASE r \notin Indexed
    <2>1. e \in unindexed
      BY <1>1, <1>2 DEF BarrierInv, Barrier, Entries, SymbolicEntry
    <2> QED BY <2>1 DEF PermitsMemoryAccess
  <1>3. CASE r \in Indexed
    <2>1. e \in index
      BY <1>1, <1>3 DEF BarrierInv, Barrier, Entries, IndexEntry
    <2>2. CASE q \in Concrete
      BY <2>1, <2>2 DEF PermitsMemoryAccess
    <2>3. CASE q \notin Concrete
      <3> SUFFICES ASSUME PermitsMemoryAccess(q) PROVE FALSE OBVIOUS
      <3>1. q \notin LocalBlock /\ count.nonlocal = 0
        BY <2>1, <2>3 DEF PermitsMemoryAccess
      <3>2. r \notin LocalBlock BY <1>1, <3>1, FootprintAssumption
      <3> DEFINE E == {x \in Memory \X Ids(next.loan) : NonlocalEntry(x)}
      <3>3. e \in E BY <1>1, <1>3, <3>2 DEF NonlocalEntry
      <3>4. IsFiniteSet(E) BY <1>1, EntriesFinite
      <3>5. Cardinality(E) = 0 BY <3>1 DEF BarrierInv, Barrier, Counts
      <3> HIDE DEF E, e
      <3> QED BY <3>3, <3>4, <3>5, FS_EmptySet
    <2> QED BY <2>2, <2>3
  <1> QED BY <1>2, <1>3

\* permits_memory_access refuses every write, free or havoc that overlaps the
\* bytes of a valid view, although reborrow enters no symbolic range of its
\* own: the loan at the root stays open as long as any loan below it.
THEOREM BarrierCoversEveryView == Spec => []BarrierCoversViews
  <1>1. ASSUME BarrierInv,
               NEW sh \in DOMAIN shares, ValidAuthority(shares[sh].holder, sh),
               NEW r \in EnteredBytes(loans[shares[sh].scope].support)
                           \cup (loans[shares[sh].scope].backing \cap Indexed),
               NEW v \in Memory, <<r, v>> \in Covers,
               NEW q \in Memory, <<q, v>> \in Overlaps
        PROVE  ~PermitsMemoryAccess(q)
    <2> DEFINE l == shares[sh].scope
               o == loans[l].support
    <2>1. l \in Ids(next.loan) /\ scopes[l].active /\ SafeInv
          /\ DOMAIN loans = Ids(next.loan) /\ loans[l].backing \subseteq Memory
      BY <1>1 DEF BarrierInv, SafeInv, TypeInv, TypeOK, ScopesOpened, ValidAuthority, LoanRecord
    <2>2. CASE r \in loans[l].backing \cap Indexed
      <3>1. <<q, r>> \in Overlaps BY <1>1, <2>1, <2>2, FootprintAssumption DEF Memory
      <3> QED BY <1>1, <2>1, <2>2, <3>1, EntryRefuses
    <2>3. CASE r \in EnteredBytes(o)
      <3>1. PICK a \in Ids(next.loan) : /\ loans[a].support = o /\ scopes[a].parent = None
                                        /\ r \in loans[a].backing
        BY <2>1, <2>3 DEF EnteredBytes
      <3>2. PICK m \in Ids(next.loan) : /\ scopes[m].active /\ scopes[m].parent = None
                                        /\ loans[m].support = o
        BY <2>1, OpenRootOf
      <3>3. loans[m].backing = OpeningBytes(o) /\ loans[a].backing = OpeningBytes(o)
        BY <1>1, <3>1, <3>2 DEF BarrierInv, Barrier, OpenedBytes
      <3>4. r \in loans[m].backing BY <3>1, <3>3
      <3>5. r \in Resource
        BY <1>1, <3>4 DEF BarrierInv, SafeInv, TypeInv, TypeOK, LoanRecord, Memory
      <3>6. <<q, r>> \in Overlaps BY <1>1, <3>5, FootprintAssumption DEF Memory
      <3> QED BY <1>1, <3>2, <3>4, <3>6, EntryRefuses
    <2> QED BY <1>1, <2>2, <2>3
  <1>2. BarrierInv => BarrierCoversViews BY <1>1 DEF BarrierCoversViews
  <1> QED BY <1>2, BarrierInvariant, PTL

\* reborrow_mutex_use hands the root of the mutex loan down: however deep a
\* use of a mutex is, the loan it was opened on is open and not recovered.
THEOREM MutexUsesAreRooted == Spec => []MutexUseRooted
  <1>1. ASSUME BarrierInv, NEW l \in Ids(next.loan), scopes[l].active,
               loans[l].mutexRoot # None
        PROVE  LET root == loans[l].mutexRoot IN
               /\ scopes[root].active /\ ~loans[root].recovered
               /\ loans[root].mutexRoot = root
               /\ loans[root].support = loans[l].support
    <2> DEFINE root == loans[l].mutexRoot
               Open == {k \in Ids(next.loan) : /\ loans[k].mutexRoot = root
                                               /\ loans[k].support = loans[l].support
                                               /\ scopes[k].active}
    <2>1. Open \in SUBSET Nat /\ l \in Open /\ next.loan \in Nat
      BY <1>1 DEF BarrierInv, SafeInv, TypeInv, TypeOK, Ids
    <2>2. PICK m \in Open : \A k \in Open : m <= k BY <2>1, SmallestOf
    <2>3. CASE scopes[m].parent = None
      <3>1. m = root BY <1>1, <2>3 DEF BarrierInv, Barrier, MutexRoots
      <3>2. ~loans[m].recovered BY <1>1 DEF BarrierInv, SafeInv, OpenLoans
      <3> QED BY <3>1, <3>2
    <2>4. CASE scopes[m].parent # None
      <3> DEFINE up == scopes[m].parent
      <3>1. /\ up \in Ids(m) /\ loans[up].support = loans[m].support /\ scopes[up].active
        BY <1>1, <2>4 DEF BarrierInv, SafeInv, Structure, Reborrows, Pins
      <3>2. up \in Ids(next.loan) /\ up < m BY <2>1, <3>1 DEF Ids
      <3>3. loans[up].mutexRoot = root
        BY <1>1, <2>4 DEF BarrierInv, Barrier, MutexRoots
      <3>4. up \in Open BY <3>1, <3>2, <3>3
      <3> HIDE DEF Open
      <3>5. up \in Nat /\ m \in Nat BY <2>1, <3>4
      <3> QED BY <2>2, <3>2, <3>4, <3>5
    <2> QED BY <2>3, <2>4
  <1>2. BarrierInv => MutexUseRooted
    BY <1>1, DomainsOfMaps DEF MutexUseRooted, BarrierInv
  <1> QED BY <1>2, BarrierInvariant, PTL

----------------------------------------------------------------------------
(* The invariant: the shares of a scope are a tree                         *)

\* c is one of the two shares x was last split into.
ChildOf(x, c) == /\ shares[x].children # None
                 /\ c = shares[x].children[1] \/ c = shares[x].children[2]

\* How the records of one share refer to others.  A share is older than the
\* shares it was split into.
Linked(x) ==
    /\ shares[x].holder = None \/ shares[x].pinnedBy = None
    /\ shares[x].parent = None => x = scopes[shares[x].scope].root
    /\ shares[x].parent # None =>
          /\ shares[x].parent \in Ids(x)
          /\ shares[shares[x].parent].scope = shares[x].scope
    /\ shares[x].children # None =>
          shares[x].children[1] # shares[x].children[2]
    /\ \A c : ChildOf(x, c) => c \in Ids(next.share) /\ shares[c].parent = x
    /\ shares[x].pinnedBy # None =>
          /\ shares[x].pinnedBy \in Ids(next.loan)
          /\ scopes[shares[x].pinnedBy].active
          /\ scopes[shares[x].pinnedBy].parent # None
          /\ scopes[shares[x].pinnedBy].parentShare = x

Links == \A x \in Ids(next.share) : Linked(x)

RootShares ==
    \A s \in Ids(next.loan) : /\ scopes[s].root \in Ids(next.share)
                              /\ shares[scopes[s].root].scope = s
                              /\ shares[scopes[s].root].parent = None

\* C has the root of every open scope and every live share; a share of C
\* is a root or a child of a split share of C, and every share of C that
\* is not live is split into two shares of C.
Current(C) ==
    /\ \A s \in Ids(next.loan) : scopes[s].active => scopes[s].root \in C
    /\ \A c \in Ids(next.share) : Live(c) => c \in C
    /\ \A c \in C : scopes[shares[c].scope].active

Parents(C) ==
    \A c \in C : \A x : x = shares[c].parent /\ x # None =>
        x \in C /\ ~Live(x) /\ ChildOf(x, c)

Children(C) ==
    \A c \in C : ~Live(c) => /\ shares[c].children # None
                             /\ \A d : ChildOf(c, d) => d \in C

Partition ==
    \E C \in SUBSET Ids(next.share) : Current(C) /\ Parents(C) /\ Children(C)

\* The holder of the close right of a root loan is who may recover it.
Rights ==
    \A s \in Ids(next.loan) : scopes[s].parent = None =>
        loans[s].right = scopes[s].closeRight

Trees == Links /\ RootShares /\ Partition /\ Rights

TreeInv == SafeInv /\ Trees

----------------------------------------------------------------------------
(* What the actions do to scopes and shares                                *)

LEMMA ShareFields ==
    /\ \A x, c, h, k : /\ ShareAs(x, c, h, k).scope = shares[x].scope
                       /\ ShareAs(x, c, h, k).parent = shares[x].parent
                       /\ ShareAs(x, c, h, k).children = c
                       /\ ShareAs(x, c, h, k).holder = h
                       /\ ShareAs(x, c, h, k).pinnedBy = k
    /\ \A x, h : /\ Held(x, h).scope = shares[x].scope
                 /\ Held(x, h).parent = shares[x].parent
                 /\ Held(x, h).children = shares[x].children
                 /\ Held(x, h).holder = h
                 /\ Held(x, h).pinnedBy = shares[x].pinnedBy
  BY DEF ShareAs, Held

\* The record of y, except that its holder, pin and children may differ.
SameLinks(y) == shares'[y].scope = shares[y].scope /\ shares'[y].parent = shares[y].parent

SameScope(s) == /\ (scopes'[s].active <=> scopes[s].active)
                /\ scopes'[s].root = scopes[s].root
                /\ scopes'[s].closeRight = scopes[s].closeRight
                /\ scopes'[s].parent = scopes[s].parent
                /\ scopes'[s].parentShare = scopes[s].parentShare

\* The new scope and its root share, held by b.
NewRoot(b) ==
    /\ next.loan \in Nat /\ next.share \in Nat
    /\ next'.loan = next.loan + 1 /\ next'.share = next.share + 1
    /\ scopes'[next.loan].active /\ scopes'[next.loan].root = next.share
    /\ shares'[next.share] = RootShare(next.loan, b)
    /\ \A s \in Ids(next.loan) : SameScope(s) /\ loans'[s] = loans[s]
    /\ ~loans'[next.loan].recovered
    /\ loans'[next.loan].support \in Occurrence

RootAdded(b, o) ==
    /\ NewRoot(b)
    /\ \A x \in Ids(next.share) : shares'[x] = shares[x]
    /\ scopes'[next.loan].parent = None
    /\ loans'[next.loan].right = scopes'[next.loan].closeRight
    /\ loans'[next.loan].support = o

ChildAdded(b, sh) ==
    /\ NewRoot(b)
    /\ \A x \in Ids(next.share) : x # sh => shares'[x] = shares[x]
    /\ shares'[sh] = ShareAs(sh, shares[sh].children, None, next.loan)
    /\ scopes'[next.loan].parent = shares[sh].scope
    /\ scopes'[next.loan].parentShare = sh
    /\ loans'[next.loan].support = loans[shares[sh].scope].support
    /\ owner' = owner

LEMMA RootAddedEffect ==
    ASSUME SafeInv, NEW b, NEW closeRight, NEW o \in Occurrence, NEW head, NEW permitted,
           NEW backing, NEW mutexRoot, NEW origin,
           OpenRoot(b, closeRight, o, head, permitted, backing, mutexRoot, origin)
    PROVE  RootAdded(b, o)
  <1>1. TypeInv BY DEF SafeInv
  <1>2. /\ next.loan \in Nat /\ next.share \in Nat
        /\ next'.loan = next.loan + 1 /\ next'.share = next.share + 1
        /\ \A s \in Ids(next.loan) : scopes'[s] = scopes[s] /\ loans'[s] = loans[s]
        /\ \A x \in Ids(next.share) : shares'[x] = shares[x]
        /\ scopes'[next.loan].active /\ scopes'[next.loan].parent = None
        /\ loans'[next.loan].support = o /\ ~loans'[next.loan].recovered
    BY <1>1, OpenRootEffect
  <1>3. scopes'[next.loan] = NewScope(closeRight, None, None)
    BY DEF OpenRoot, WithInserted
  <1>4. loans'[next.loan].right = closeRight
    BY DEF OpenRoot, WithInserted
  <1>5. shares'[next.share] = RootShare(next.loan, b)
    BY DEF OpenRoot, WithInserted
  <1>6. scopes'[next.loan].root = next.share /\ scopes'[next.loan].closeRight = closeRight
    BY <1>3 DEF NewScope
  <1>7. NewRoot(b) BY <1>2, <1>5, <1>6 DEF NewRoot, SameScope
  <1> QED BY <1>2, <1>4, <1>6, <1>7 DEF RootAdded

LEMMA ChildAddedEffect ==
    ASSUME SafeInv, NEW p, NEW b, NEW sh \in DOMAIN shares, NEW head,
           NEW permitted, NEW backing, NEW mutexRoot,
           OpenChild(p, b, sh, head, permitted, backing, mutexRoot)
    PROVE  ChildAdded(b, sh)
  <1> DEFINE n == next.loan
             up == shares[sh].scope
             based == [scopes EXCEPT ![up].dependencies = @ \cup {n}]
             pinned == [shares EXCEPT ![sh] = ShareAs(sh, @.children, None, n)]
  <1>1. /\ next.share \in Nat /\ next.loan \in Nat
        /\ scopes \in [Ids(n) -> ScopeRecord] /\ shares \in [Ids(next.share) -> ShareRecord]
        /\ next.share \notin Ids(next.share) /\ n \notin Ids(n) /\ up \in Ids(n)
        /\ loans[up].support \in Occurrence
    BY DEF SafeInv, TypeInv, TypeOK, ScopesOpened, Ids, LoanRecord
  <1>2. ChildOpened(sh) BY OpenChildEffect DEF SafeInv
  <1>3. /\ next'.loan = n + 1 /\ next'.share = next.share + 1 /\ owner' = owner
        /\ \A s \in Ids(n) : /\ loans'[s] = loans[s]
                             /\ (scopes'[s].active <=> scopes[s].active)
                             /\ scopes'[s].parent = scopes[s].parent
                             /\ scopes'[s].parentShare = scopes[s].parentShare
        /\ scopes'[n].active /\ scopes'[n].parent = up /\ scopes'[n].parentShare = sh
        /\ loans'[n].support = loans[up].support /\ ~loans'[n].recovered
    BY <1>2 DEF ChildOpened
  <1>4. shares' = WithInserted(pinned, next.share, RootShare(n, b))
        /\ scopes' = WithInserted(based, n, NewScope(p, up, sh))
    BY DEF OpenChild
  <1>5. /\ DOMAIN pinned = Ids(next.share) /\ DOMAIN based = Ids(n)
        /\ \A x \in Ids(next.share) : x # sh => pinned[x] = shares[x]
        /\ pinned[sh] = ShareAs(sh, shares[sh].children, None, n)
        /\ \A s \in Ids(n) : /\ based[s].root = scopes[s].root
                             /\ based[s].closeRight = scopes[s].closeRight
    BY <1>1 DEF ScopeRecord
  <1>6. sh \in Ids(next.share) BY <1>1
  <1> HIDE DEF pinned, based
  <1>7. /\ \A x \in Ids(next.share) : shares'[x] = pinned[x]
        /\ shares'[next.share] = RootShare(n, b)
    BY <1>1, <1>4, <1>5 DEF WithInserted
  <1>8. /\ \A s \in Ids(n) : scopes'[s] = based[s]
        /\ scopes'[n] = NewScope(p, up, sh)
    BY <1>1, <1>4, <1>5 DEF WithInserted
  <1>9. scopes'[n].root = next.share BY <1>8 DEF NewScope
  <1>10. NewRoot(b) BY <1>1, <1>3, <1>5, <1>7, <1>8, <1>9 DEF NewRoot, SameScope
  <1> QED BY <1>3, <1>5, <1>6, <1>7, <1>10 DEF ChildAdded

SplitInto(sh, lh, rh) ==
    /\ next.share \in Nat
    /\ next'.share = next.share + 2 /\ next'.loan = next.loan
    /\ UNCHANGED <<scopes, loans, owner>>
    /\ \A x \in Ids(next.share) : x # sh => shares'[x] = shares[x]
    /\ shares'[sh] = ShareAs(sh, <<next.share, next.share + 1>>, None, shares[sh].pinnedBy)
    /\ shares'[next.share] = [scope |-> shares[sh].scope, parent |-> sh,
                              children |-> None, holder |-> lh, pinnedBy |-> None]
    /\ shares'[next.share + 1] = [scope |-> shares[sh].scope, parent |-> sh,
                                  children |-> None, holder |-> rh, pinnedBy |-> None]

LEMMA SplitEffect ==
    ASSUME SafeInv, NEW p, NEW sh \in DOMAIN shares, NEW lh, NEW rh, Split(p, sh, lh, rh)
    PROVE  SplitInto(sh, lh, rh)
  <1> DEFINE n == next.share
             m == next.share + 1
             Child(h) == [scope |-> shares[sh].scope, parent |-> sh,
                          children |-> None, holder |-> h, pinnedBy |-> None]
             base == [shares EXCEPT ![sh] = ShareAs(sh, <<n, m>>, None, @.pinnedBy)]
             u == Child(lh)
             v == Child(rh)
  <1>1. /\ n \in Nat /\ next \in [loan : Nat, share : Nat, hold : Nat]
        /\ DOMAIN shares = Ids(n)
    BY DEF SafeInv, TypeInv, TypeOK
  <1>2. shares' = WithInserted(WithInserted(base, n, u), m, v) BY DEF Split
  <1>3. /\ DOMAIN base = Ids(n)
        /\ \A x \in Ids(n) : x # sh => base[x] = shares[x]
        /\ base[sh] = ShareAs(sh, <<n, m>>, None, shares[sh].pinnedBy)
    BY <1>1
  <1>4. n \notin Ids(n) /\ m \notin Ids(n) /\ n # m BY <1>1 DEF Ids
  <1>5. /\ next'.share = next.share + 2 /\ next'.loan = next.loan
        /\ UNCHANGED <<scopes, loans, owner>>
    BY <1>1 DEF Split, Advance
  <1> HIDE DEF base, u, v, n, m
  <1>6. \A x \in Ids(n) : shares'[x] = base[x]
    BY <1>2, <1>3, <1>4 DEF WithInserted
  <1>7. shares'[n] = u /\ shares'[m] = v
    BY <1>2, <1>4 DEF WithInserted
  <1> QED BY <1>1, <1>3, <1>5, <1>6, <1>7 DEF SplitInto, n, m, u, v

\* A join takes the holders of the two children and gives their parent one.
JoinedInto(p, left, right, up) ==
    /\ next' = next /\ UNCHANGED <<scopes, loans, owner>>
    /\ left \in Ids(next.share) /\ right \in Ids(next.share) /\ up \in Ids(next.share)
    /\ left # right /\ left # up /\ right # up
    /\ shares[left].holder = p /\ shares[right].holder = p
    /\ shares[left].parent = up /\ shares[right].parent = up /\ up # None
    /\ shares[left].scope = shares[up].scope
    /\ shares[up].children = <<left, right>>
    /\ \A x \in Ids(next.share) : x \notin {left, right, up} => shares'[x] = shares[x]
    /\ shares'[left] = Held(left, None) /\ shares'[right] = Held(right, None)
    /\ shares'[up] = Held(up, p)

LEMMA JoinEffect ==
    ASSUME TreeInv, NEW p, NEW left \in DOMAIN shares, NEW right \in DOMAIN shares,
           Join(p, left, right)
    PROVE  JoinedInto(p, left, right, shares[left].parent)
  <1> DEFINE up == shares[left].parent
             n == next.share
  <1>1. DOMAIN shares = Ids(n) /\ n \in Nat /\ left \in Ids(n) /\ right \in Ids(n)
    BY DEF TreeInv, SafeInv, TypeInv, TypeOK
  <1>2. /\ shares' = [shares EXCEPT ![left] = Held(left, None),
                                    ![right] = Held(right, None),
                                    ![up] = Held(up, p)]
        /\ next' = next /\ UNCHANGED <<scopes, loans, owner>>
        /\ shares[left].holder = p /\ shares[right].holder = p
        /\ up # None /\ shares[right].parent = up /\ shares[up].children = <<left, right>>
    BY DEF Join
  <1>3. /\ up \in Ids(left) /\ up \in Ids(right) /\ shares[up].scope = shares[left].scope
    BY <1>1, <1>2 DEF TreeInv, Trees, Links, Linked
  <1>4. up \in Ids(n) /\ up # left /\ up # right BY <1>1, <1>3 DEF Ids
  <1>5. left # right
    <2>1. shares[up].children # None =>
              shares[up].children[1] # shares[up].children[2]
      BY <1>4 DEF TreeInv, Trees, Links, Linked
    <2>2. shares[up].children # None
      <3>1. left \in Nat /\ right \in Nat BY <1>1 DEF Ids
      <3> QED BY <1>2, <3>1, ConstantAssumption
    <2> QED BY <1>2, <2>1, <2>2
  <1>6. shares[left].parent = up OBVIOUS
  <1> HIDE DEF up
  <1>7. \A x \in Ids(n) : x \notin {left, right, up} => shares'[x] = shares[x]
    BY <1>1, <1>2
  <1>8. /\ shares'[left] = Held(left, None) /\ shares'[right] = Held(right, None)
        /\ shares'[up] = Held(up, p)
    BY <1>1, <1>2, <1>4, <1>5
  <1>9. JoinedInto(p, left, right, up)
    BY <1>1, <1>2, <1>3, <1>4, <1>5, <1>6, <1>7, <1>8 DEF JoinedInto
  <1> QED BY <1>9 DEF up

\* The end of s takes the holder of its root share; a reborrow gives the share
\* it pinned back to p.
Ended(p, s) ==
    LET root == scopes[s].root
        pin == scopes[s].parentShare
    IN  /\ UNCHANGED <<next, loans, owner>>
        /\ scopes[s].active /\ scopes[s].closeRight = p /\ scopes[s].dependencies = {}
        /\ root \in Ids(next.share) /\ shares[root].holder = p
        /\ shares'[root] = Held(root, None)
        /\ \A r \in Ids(next.loan) :
              /\ scopes'[r].active <=> r # s /\ scopes[r].active
              /\ scopes'[r].root = scopes[r].root
              /\ scopes'[r].closeRight = scopes[r].closeRight
              /\ scopes'[r].parent = scopes[r].parent
              /\ scopes'[r].parentShare = scopes[r].parentShare
        /\ scopes[s].parent = None =>
              \A x \in Ids(next.share) : x # root => shares'[x] = shares[x]
        /\ scopes[s].parent # None =>
              /\ pin \in Ids(next.share) /\ pin # root
              /\ shares[pin].pinnedBy = s /\ shares[pin].holder = None
              /\ shares'[pin] = ShareAs(pin, shares[pin].children, p, None)
              /\ \A x \in Ids(next.share) : x # root /\ x # pin => shares'[x] = shares[x]

LEMMA EndedEffect ==
    ASSUME TreeInv, NEW p, NEW s \in DOMAIN scopes, End(p, s)
    PROVE  Ended(p, s)
  <1> DEFINE up == scopes[s].parent
             pin == scopes[s].parentShare
             root == scopes[s].root
             closed == [shares EXCEPT ![root] = Held(root, None)]
             ended == [scopes EXCEPT ![s].active = FALSE]
             unpinned == [closed EXCEPT ![pin] = ShareAs(pin, @.children, p, None)]
             freed == [ended EXCEPT ![up].dependencies = @ \ {s}]
  <1>1. /\ scopes \in [Ids(next.loan) -> ScopeRecord] /\ s \in Ids(next.loan)
        /\ shares \in [Ids(next.share) -> ShareRecord]
        /\ s \notin Ids(s)
    BY DEF TreeInv, SafeInv, TypeInv, TypeOK, Ids
  <1>2. /\ UNCHANGED <<loans, next, owner>>
        /\ scopes[s].active /\ scopes[s].closeRight = p /\ scopes[s].dependencies = {}
        /\ shares[root].holder = p
    BY DEF End, ScopeCanEnd
  <1>3. \/ up = None /\ scopes' = ended /\ shares' = closed
        \/ up # None /\ shares[pin].pinnedBy = s /\ shares[pin].holder = None
           /\ scopes' = freed /\ shares' = unpinned
    BY DEF End
  <1>4. /\ ended \in [Ids(next.loan) -> ScopeRecord]
        /\ \A r \in Ids(next.loan) :
             /\ ended[r].active <=> r # s /\ scopes[r].active
             /\ ended[r].root = scopes[r].root
             /\ ended[r].closeRight = scopes[r].closeRight
             /\ ended[r].parent = scopes[r].parent
             /\ ended[r].parentShare = scopes[r].parentShare
    BY <1>1 DEF ScopeRecord
  <1>5. \A r \in Ids(next.loan) :
             /\ freed[r].active <=> ended[r].active
             /\ freed[r].root = ended[r].root
             /\ freed[r].closeRight = ended[r].closeRight
             /\ freed[r].parent = ended[r].parent
             /\ freed[r].parentShare = ended[r].parentShare
    <2> HIDE DEF ended, up
    <2> QED BY <1>4 DEF ScopeRecord
  <1>6. root \in Ids(next.share) /\ shares[root].scope = s
    BY <1>1 DEF TreeInv, Trees, RootShares
  <1>7. up # None => pin \in Ids(next.share) /\ pin # root
    <2>1. up # None => /\ up \in Ids(s) /\ pin \in Ids(next.share)
                       /\ shares[pin].scope = up
      BY <1>1 DEF TreeInv, SafeInv, Structure, Reborrows
    <2> QED BY <1>1, <1>6, <2>1
  <1>8. /\ DOMAIN closed = Ids(next.share) /\ closed[root] = Held(root, None)
        /\ \A x \in Ids(next.share) : x # root => closed[x] = shares[x]
    BY <1>1, <1>6
  <1>9. up # None =>
           /\ unpinned[root] = Held(root, None)
           /\ unpinned[pin] = ShareAs(pin, shares[pin].children, p, None)
           /\ \A x \in Ids(next.share) : x # root /\ x # pin => unpinned[x] = shares[x]
    <2> HIDE DEF closed, pin, root, up
    <2> QED BY <1>6, <1>7, <1>8
  <1>10. \A r \in Ids(next.loan) :
              /\ scopes'[r].active <=> r # s /\ scopes[r].active
              /\ scopes'[r].root = scopes[r].root
              /\ scopes'[r].closeRight = scopes[r].closeRight
              /\ scopes'[r].parent = scopes[r].parent
              /\ scopes'[r].parentShare = scopes[r].parentShare
    <2> HIDE DEF ended, freed, closed, unpinned
    <2>1. scopes' = ended \/ scopes' = freed BY <1>3
    <2>2. CASE scopes' = ended BY <1>4, <2>2
    <2>3. CASE scopes' = freed BY <1>4, <1>5, <2>3
    <2> QED BY <2>1, <2>2, <2>3
  <1> HIDE DEF ended, freed, closed, unpinned, root, pin, up
  <1>11. /\ shares'[root] = Held(root, None)
         /\ up = None => \A x \in Ids(next.share) : x # root => shares'[x] = shares[x]
         /\ up # None =>
              /\ shares[pin].pinnedBy = s /\ shares[pin].holder = None
              /\ shares'[pin] = ShareAs(pin, shares[pin].children, p, None)
              /\ \A x \in Ids(next.share) : x # root /\ x # pin => shares'[x] = shares[x]
    BY <1>3, <1>8, <1>9
  <1> QED BY <1>2, <1>6, <1>7, <1>10, <1>11 DEF Ended, root, pin, up

----------------------------------------------------------------------------
(* The trees survive every step                                            *)

\* The facts about one share and one scope, in the form the steps use.
LEMMA LinkFacts ==
    ASSUME TreeInv
    PROVE  /\ next.loan \in Nat /\ next.share \in Nat
           /\ DOMAIN shares = Ids(next.share) /\ DOMAIN scopes = Ids(next.loan)
           /\ \A x \in Ids(next.share) :
                 /\ shares[x].scope \in Ids(next.loan)
                 /\ x \in Nat /\ x # None /\ Ids(x) \subseteq Ids(next.share)
                 /\ Linked(x)
           /\ \A s \in Ids(next.loan) : /\ scopes[s].root \in Ids(next.share)
                                        /\ shares[scopes[s].root].scope = s
                                        /\ shares[scopes[s].root].parent = None
                                        /\ s # None
           /\ \A s \in Ids(next.loan) : scopes[s].parent # None =>
                 scopes[s].parent \in Ids(s) /\ scopes[s].parentShare \in Ids(next.share)
  <1>1. /\ next.loan \in Nat /\ next.share \in Nat
        /\ DOMAIN shares = Ids(next.share) /\ DOMAIN scopes = Ids(next.loan)
        /\ \A x \in Ids(next.share) : shares[x].scope \in Ids(next.loan)
    BY DEF TreeInv, SafeInv, TypeInv, TypeOK, ScopesOpened
  <1>2. /\ \A x \in Ids(next.share) : x \in Nat /\ x # None /\ Ids(x) \subseteq Ids(next.share)
        /\ \A s \in Ids(next.loan) : s # None
    BY <1>1, ConstantAssumption DEF Ids
  <1> QED BY <1>1, <1>2 DEF TreeInv, SafeInv, Structure, Reborrows, Trees, Links, RootShares

\* A share whose own links stay is linked after a step that keeps the parents
\* and scopes of the shares and the roots of the scopes.
LEMMA LinkedKept ==
    ASSUME TreeInv, NEW x \in Ids(next.share),
           Ids(next.share) \subseteq Ids(next'.share),
           \A y \in Ids(next.share) : SameLinks(y),
           \A s \in Ids(next.loan) : scopes'[s].root = scopes[s].root,
           shares'[x].children = shares[x].children,
           shares'[x].holder = None \/ shares'[x].pinnedBy = None,
           shares'[x].pinnedBy # None =>
               /\ shares'[x].pinnedBy \in Ids(next'.loan)
               /\ scopes'[shares'[x].pinnedBy].active
               /\ scopes'[shares'[x].pinnedBy].parent # None
               /\ scopes'[shares'[x].pinnedBy].parentShare = x
    PROVE  Linked(x)'
  <1>1. /\ shares[x].scope \in Ids(next.loan)
        /\ Ids(x) \subseteq Ids(next.share) /\ Linked(x)
    BY LinkFacts
  <1>2. shares'[x].parent = None => x = scopes'[shares'[x].scope].root
    BY <1>1 DEF Linked, SameLinks
  <1>3. shares'[x].parent # None =>
          /\ shares'[x].parent \in Ids(x)
          /\ shares'[shares'[x].parent].scope = shares'[x].scope
    BY <1>1 DEF Linked, SameLinks
  <1>4. shares'[x].children # None => shares'[x].children[1] # shares'[x].children[2]
    BY <1>1 DEF Linked
  <1>5. \A c : ChildOf(x, c)' => c \in Ids(next'.share) /\ shares'[c].parent = x
    <2>1. \A c : ChildOf(x, c)' <=> ChildOf(x, c) BY DEF ChildOf
    <2> QED BY <1>1, <2>1 DEF Linked, SameLinks
  <1> QED BY <1>2, <1>3, <1>4, <1>5 DEF Linked

LEMMA TreesUnchanged ==
    ASSUME TreeInv, shares' = shares, next'.loan = next.loan, next'.share = next.share,
           \A s \in Ids(next.loan) : SameScope(s) /\ loans'[s].right = loans[s].right
    PROVE  Trees'
  <1>1. \A x, c : ChildOf(x, c)' <=> ChildOf(x, c) BY DEF ChildOf
  <1>2. \A x : Live(x)' <=> Live(x) BY DEF Live
  <1>3. Links'
    <2>1. \A x \in Ids(next.share) : Linked(x)' BY <1>1, LinkFacts DEF Linked, SameScope
    <2> QED BY <2>1 DEF Links
  <1>4. RootShares' BY DEF TreeInv, Trees, RootShares, SameScope
  <1>5. Partition'
    <2>1. PICK C \in SUBSET Ids(next.share) : Current(C) /\ Parents(C) /\ Children(C)
      BY DEF TreeInv, Trees, Partition
    <2>2. Current(C)' BY <1>2, <2>1, LinkFacts DEF Current, SameScope
    <2>3. Parents(C)' /\ Children(C)' BY <1>1, <1>2, <2>1 DEF Parents, Children
    <2> QED BY <2>1, <2>2, <2>3 DEF Partition
  <1>6. Rights' BY DEF TreeInv, Trees, Rights, SameScope
  <1> QED BY <1>3, <1>4, <1>5, <1>6 DEF Trees

LEMMA RootAddedTrees ==
    ASSUME TreeInv, NEW b, b # None, NEW o, RootAdded(b, o)
    PROVE  Trees'
  <1> DEFINE n == next.loan
             m == next.share
  <1>1. /\ n \in Nat /\ m \in Nat /\ next'.loan = n + 1 /\ next'.share = m + 1
        /\ scopes'[n].active /\ scopes'[n].root = m /\ scopes'[n].parent = None
        /\ shares'[m] = RootShare(n, b)
        /\ \A s \in Ids(n) : SameScope(s) /\ loans'[s] = loans[s]
        /\ \A x \in Ids(m) : shares'[x] = shares[x]
        /\ loans'[n].right = scopes'[n].closeRight
    BY DEF RootAdded, NewRoot
  <1>2. /\ Ids(n + 1) = Ids(n) \cup {n} /\ Ids(m + 1) = Ids(m) \cup {m}
        /\ n \notin Ids(n) /\ m \notin Ids(m)
    BY <1>1, IdsNext
  <1>3. /\ shares'[m].scope = n /\ shares'[m].parent = None /\ shares'[m].children = None
        /\ shares'[m].holder = b /\ shares'[m].pinnedBy = None
    BY <1>1 DEF RootShare
  <1>4. /\ \A x \in Ids(m) : Live(x)' <=> Live(x)
        /\ \A x \in Ids(m) : \A c : ChildOf(x, c)' <=> ChildOf(x, c)
        /\ \A x \in {m} : \A c : Live(x)' /\ ~ChildOf(x, c)'
    BY <1>1, <1>3 DEF Live, ChildOf
  <1> HIDE DEF m, n
  <1>5. Links'
    <2>1. ASSUME NEW x \in Ids(m) PROVE Linked(x)'
      <3>1. /\ Linked(x) /\ Ids(m) \subseteq Ids(m + 1) /\ Ids(n) \subseteq Ids(n + 1)
            /\ \A y \in Ids(m) : SameLinks(y)
        BY <1>1, <1>2, LinkFacts DEF SameLinks, m
      <3>2. shares'[x].pinnedBy # None =>
               /\ shares'[x].pinnedBy \in Ids(n + 1)
               /\ scopes'[shares'[x].pinnedBy].active
               /\ scopes'[shares'[x].pinnedBy].parent # None
               /\ scopes'[shares'[x].pinnedBy].parentShare = x
        BY <1>1, <3>1 DEF Linked, SameScope, n
      <3>3. shares'[x].holder = None \/ shares'[x].pinnedBy = None
        BY <1>1, <3>1 DEF Linked
      <3> QED BY <1>1, <3>1, <3>2, <3>3, LinkedKept DEF SameScope, m, n
    <2>2. \A x \in {m} : Linked(x)' BY <1>1, <1>3, <1>4 DEF Linked
    <2> QED BY <1>1, <1>2, <2>1, <2>2 DEF Links
  <1>6. RootShares' BY <1>1, <1>2, <1>3, LinkFacts DEF RootShares, SameScope, m, n
  <1>7. Partition'
    <2>1. PICK C \in SUBSET Ids(m) : Current(C) /\ Parents(C) /\ Children(C)
      BY DEF TreeInv, Trees, Partition, m
    <2>2. PICK D : D = C \cup {m} OBVIOUS
    <2>3. Current(D)'
      <3>1. \A s \in Ids(n + 1) : scopes'[s].active => scopes'[s].root \in D
        BY <1>1, <1>2, <2>1, <2>2 DEF Current, SameScope, m, n
      <3>2. \A c \in Ids(m + 1) : Live(c)' => c \in D
        BY <1>1, <1>2, <1>4, <2>1, <2>2 DEF Current, m, n
      <3>3. \A c \in D : scopes'[shares'[c].scope].active
        BY <1>1, <1>3, <2>1, <2>2, LinkFacts DEF Current, SameScope, m, n
      <3> QED BY <1>1, <3>1, <3>2, <3>3 DEF Current
    <2>4. Parents(D)'
      BY <1>1, <1>3, <1>4, <2>1, <2>2, LinkFacts DEF Parents, m, n
    <2>5. Children(D)'
      BY <1>1, <1>4, <2>1, <2>2 DEF Children
    <2>6. D \in SUBSET Ids(m + 1) BY <1>2, <2>1, <2>2
    <2> QED BY <1>1, <2>3, <2>4, <2>5, <2>6 DEF Partition
  <1>8. Rights' BY <1>1, <1>2 DEF TreeInv, Trees, Rights, SameScope, n
  <1> QED BY <1>5, <1>6, <1>7, <1>8 DEF Trees

LEMMA ChildAddedTrees ==
    ASSUME TreeInv, NEW p, p # None, NEW b, b # None, NEW sh \in Ids(next.share),
           ValidAuthority(p, sh), ChildAdded(b, sh)
    PROVE  Trees'
  <1> DEFINE n == next.loan
             m == next.share
             up == shares[sh].scope
  <1>1. /\ n \in Nat /\ m \in Nat /\ next'.loan = n + 1 /\ next'.share = m + 1
        /\ scopes'[n].active /\ scopes'[n].root = m
        /\ scopes'[n].parent = up /\ scopes'[n].parentShare = sh
        /\ shares'[m] = RootShare(n, b)
        /\ \A s \in Ids(n) : SameScope(s) /\ loans'[s] = loans[s]
        /\ \A x \in Ids(m) : x # sh => shares'[x] = shares[x]
        /\ shares'[sh] = ShareAs(sh, shares[sh].children, None, n)
    BY DEF ChildAdded, NewRoot
  <1>2. /\ Ids(n + 1) = Ids(n) \cup {n} /\ Ids(m + 1) = Ids(m) \cup {m}
        /\ n \notin Ids(n) /\ m \notin Ids(m)
    BY <1>1, IdsNext
  <1>3. /\ shares'[m].scope = n /\ shares'[m].parent = None /\ shares'[m].children = None
        /\ shares'[m].holder = b /\ shares'[m].pinnedBy = None
    BY <1>1 DEF RootShare
  <1>4. /\ shares'[sh].scope = up /\ shares'[sh].parent = shares[sh].parent
        /\ shares'[sh].children = shares[sh].children
        /\ shares'[sh].holder = None /\ shares'[sh].pinnedBy = n
    BY <1>1, ShareFields
  <1>5. /\ shares[sh].holder = p /\ up \in Ids(n) /\ up # None /\ n # None
    BY <1>1, LinkFacts, ConstantAssumption DEF ValidAuthority
  <1>6. \A x \in Ids(m) : /\ SameLinks(x) /\ shares'[x].children = shares[x].children
                          /\ Live(x)' <=> Live(x)
    BY <1>1, <1>4, <1>5 DEF SameLinks, Live
  <1>7. /\ \A x \in Ids(m) : \A c : ChildOf(x, c)' <=> ChildOf(x, c)
        /\ \A x \in {m} : \A c : Live(x)' /\ ~ChildOf(x, c)'
    BY <1>3, <1>6 DEF Live, ChildOf
  <1> HIDE DEF m, n, up
  <1>8. Links'
    <2>1. ASSUME NEW x \in Ids(m) PROVE Linked(x)'
      <3>1. Linked(x) /\ Ids(m) \subseteq Ids(m + 1) /\ Ids(n) \subseteq Ids(n + 1)
        BY <1>2, LinkFacts DEF m
      <3>2. shares'[x].pinnedBy # None =>
               /\ shares'[x].pinnedBy \in Ids(n + 1)
               /\ scopes'[shares'[x].pinnedBy].active
               /\ scopes'[shares'[x].pinnedBy].parent # None
               /\ scopes'[shares'[x].pinnedBy].parentShare = x
        <4>1. CASE x = sh BY <1>1, <1>2, <1>4, <1>5, <4>1
        <4>2. CASE x # sh BY <1>1, <3>1, <4>2 DEF Linked, SameScope, n
        <4> QED BY <4>1, <4>2
      <3>3. shares'[x].holder = None \/ shares'[x].pinnedBy = None
        BY <1>1, <1>4, <3>1 DEF Linked
      <3> QED BY <1>1, <1>6, <3>1, <3>2, <3>3, LinkedKept DEF SameScope, m, n
    <2>2. \A x \in {m} : Linked(x)' BY <1>1, <1>3, <1>7 DEF Linked
    <2> QED BY <1>1, <1>2, <2>1, <2>2 DEF Links
  <1>9. RootShares'
    <2>1. \A s \in Ids(n) : /\ scopes'[s].root \in Ids(m)
                            /\ shares'[scopes'[s].root].scope = s
                            /\ shares'[scopes'[s].root].parent = None
      BY <1>1, <1>6, LinkFacts DEF SameScope, SameLinks, m, n
    <2> QED BY <1>1, <1>2, <1>3, <2>1 DEF RootShares
  <1>10. Partition'
    <2>1. PICK C \in SUBSET Ids(m) : Current(C) /\ Parents(C) /\ Children(C)
      BY DEF TreeInv, Trees, Partition, m
    <2>2. PICK D : D = C \cup {m} OBVIOUS
    <2>3. Current(D)'
      <3>1. \A s \in Ids(n + 1) : scopes'[s].active => scopes'[s].root \in D
        BY <1>1, <1>2, <2>1, <2>2 DEF Current, SameScope, m, n
      <3>2. \A c \in Ids(m + 1) : Live(c)' => c \in D
        BY <1>1, <1>2, <1>6, <2>1, <2>2 DEF Current, m, n
      <3>3. \A c \in D : scopes'[shares'[c].scope].active
        BY <1>1, <1>3, <1>6, <2>1, <2>2, LinkFacts DEF Current, SameScope, SameLinks, m, n
      <3> QED BY <1>1, <3>1, <3>2, <3>3 DEF Current
    <2>4. Parents(D)'
      <3>1. ASSUME NEW c \in C, NEW x, x = shares'[c].parent, x # None
            PROVE  x \in D /\ ~Live(x)' /\ ChildOf(x, c)'
        <4>1. x = shares[c].parent BY <1>6, <2>1, <3>1 DEF SameLinks
        <4>2. x \in C /\ ~Live(x) /\ ChildOf(x, c) BY <2>1, <3>1, <4>1 DEF Parents
        <4> QED BY <1>6, <1>7, <2>1, <2>2, <4>2
      <3> QED BY <1>3, <2>2, <3>1 DEF Parents
    <2>5. Children(D)'
      BY <1>1, <1>6, <1>7, <2>1, <2>2 DEF Children
    <2>6. D \in SUBSET Ids(m + 1) BY <1>2, <2>1, <2>2
    <2> QED BY <1>1, <2>3, <2>4, <2>5, <2>6 DEF Partition
  <1>11. Rights' BY <1>1, <1>2, <1>5 DEF TreeInv, Trees, Rights, SameScope, n
  <1> QED BY <1>8, <1>9, <1>10, <1>11 DEF Trees

\* A live share is in the tree of an open scope, and so is not a split parent.
LEMMA LiveShare ==
    ASSUME TreeInv, NEW x \in Ids(next.share), Live(x)
    PROVE  /\ scopes[shares[x].scope].active
           /\ shares[x].parent # None => ~Live(shares[x].parent)
  <1>1. PICK C \in SUBSET Ids(next.share) : Current(C) /\ Parents(C) /\ Children(C)
    BY DEF TreeInv, Trees, Partition
  <1>2. x \in C BY <1>1 DEF Current
  <1> QED BY <1>1, <1>2 DEF Current, Parents

LEMMA SplitTrees ==
    ASSUME TreeInv, NEW p, p # None, NEW sh \in Ids(next.share), shares[sh].holder = p,
           NEW lh, lh # None, NEW rh, rh # None, SplitInto(sh, lh, rh)
    PROVE  Trees'
  <1> DEFINE m == next.share
             k == next.share + 1
             n == next.loan
  <1>1. /\ m \in Nat /\ next'.share = m + 2 /\ next'.loan = n /\ UNCHANGED <<scopes, loans>>
        /\ \A x \in Ids(m) : x # sh => shares'[x] = shares[x]
        /\ shares'[sh] = ShareAs(sh, <<m, k>>, None, shares[sh].pinnedBy)
        /\ shares'[m] = [scope |-> shares[sh].scope, parent |-> sh,
                         children |-> None, holder |-> lh, pinnedBy |-> None]
        /\ shares'[k] = [scope |-> shares[sh].scope, parent |-> sh,
                         children |-> None, holder |-> rh, pinnedBy |-> None]
    BY DEF SplitInto
  <1>2. /\ Ids(m + 2) = Ids(m) \cup {m, k} /\ m \notin Ids(m) /\ k \notin Ids(m) /\ m # k
        /\ sh \in Ids(m) /\ sh \in Ids(k) /\ <<m, k>> # None
    BY <1>1, ConstantAssumption DEF Ids
  <1>3. /\ shares'[sh].scope = shares[sh].scope /\ shares'[sh].parent = shares[sh].parent
        /\ shares'[sh].children = <<m, k>>
        /\ shares'[sh].holder = None /\ shares'[sh].pinnedBy = shares[sh].pinnedBy
    BY <1>1, ShareFields
  <1>4. \A c \in {m, k} : /\ shares'[c].scope = shares[sh].scope /\ shares'[c].parent = sh
                          /\ shares'[c].children = None /\ shares'[c].holder # None
                          /\ shares'[c].pinnedBy = None
    BY <1>1
  <1>5. shares[sh].pinnedBy = None /\ sh # None /\ Live(sh)
    BY LinkFacts DEF Linked, Live
  <1>6. \A x \in Ids(m) : /\ SameLinks(x)
                          /\ x # sh => (Live(x)' <=> Live(x))
    BY <1>1, <1>3 DEF SameLinks, Live
  <1>7. /\ \A x \in Ids(m) : \A c : x # sh => (ChildOf(x, c)' <=> ChildOf(x, c))
        /\ \A c : ChildOf(sh, c)' <=> c \in {m, k}
        /\ \A x \in {m, k} : \A c : Live(x)' /\ ~ChildOf(x, c)'
        /\ ~Live(sh)'
    BY <1>1, <1>2, <1>3, <1>4, <1>5 DEF Live, ChildOf
  <1> HIDE DEF m, n, k
  <1>8. Links'
    <2>0. \A x \in Ids(m) : Linked(x) /\ shares[x].scope \in Ids(n) BY LinkFacts DEF m, n
    <2>1. ASSUME NEW x \in Ids(m), x # sh PROVE Linked(x)'
      <3>1. Linked(x) /\ Ids(m) \subseteq Ids(m + 2) BY <1>2, <2>0
      <3>2. /\ shares'[x] = shares[x]
            /\ shares'[x].pinnedBy # None =>
               /\ shares'[x].pinnedBy \in Ids(n)
               /\ scopes'[shares'[x].pinnedBy].active
               /\ scopes'[shares'[x].pinnedBy].parent # None
               /\ scopes'[shares'[x].pinnedBy].parentShare = x
        BY <1>1, <2>1, <3>1 DEF Linked, n
      <3>3. shares'[x].holder = None \/ shares'[x].pinnedBy = None
        BY <3>1, <3>2 DEF Linked
      <3> QED BY <1>1, <1>6, <3>1, <3>2, <3>3, LinkedKept DEF m, n
    <2>2. Linked(sh)'
      <3>1. /\ shares'[sh].parent = None => sh = scopes'[shares'[sh].scope].root
            /\ shares'[sh].parent # None =>
                 /\ shares'[sh].parent \in Ids(sh)
                 /\ shares'[shares'[sh].parent].scope = shares'[sh].scope
        <4>1. Linked(sh) /\ Ids(sh) \subseteq Ids(m) BY LinkFacts DEF m
        <4> QED BY <1>1, <1>3, <1>6, <4>1 DEF Linked, SameLinks
      <3>2. shares'[sh].children[1] # shares'[sh].children[2] BY <1>2, <1>3
      <3> QED BY <1>1, <1>2, <1>3, <1>4, <1>5, <1>7, <3>1, <3>2 DEF Linked
    <2>3. \A x \in {m, k} : Linked(x)'
      <3>1. sh \in Ids(m) /\ sh \in Ids(k) /\ shares'[sh].scope = shares[sh].scope
        BY <1>2, <1>3
      <3> QED BY <1>4, <1>5, <1>7, <3>1 DEF Linked
    <2> QED BY <1>1, <1>2, <2>1, <2>2, <2>3 DEF Links
  <1>9. RootShares'
    BY <1>1, <1>2, <1>6, LinkFacts DEF RootShares, SameLinks, m, n
  <1>10. Partition'
    <2>1. PICK C \in SUBSET Ids(m) : Current(C) /\ Parents(C) /\ Children(C)
      BY DEF TreeInv, Trees, Partition, m
    <2>2. PICK D : D = C \cup {m, k} OBVIOUS
    <2>3. sh \in C /\ \A c \in C : shares[c].parent # sh
      BY <1>2, <1>5, <2>1 DEF Current, Parents, m
    <2>4. Current(D)'
      <3>1. \A c \in Ids(m + 2) : Live(c)' => c \in D
        BY <1>2, <1>6, <2>1, <2>2, <2>3 DEF Current, m
      <3>2. \A c \in D : scopes'[shares'[c].scope].active
        BY <1>1, <1>4, <1>6, <2>1, <2>2, <2>3 DEF Current, SameLinks
      <3> QED BY <1>1, <2>1, <2>2, <3>1, <3>2 DEF Current, n
    <2>5. Parents(D)'
      <3>1. ASSUME NEW c \in C, NEW x, x = shares'[c].parent, x # None
            PROVE  x \in D /\ ~Live(x)' /\ ChildOf(x, c)'
        <4>1. x = shares[c].parent BY <1>6, <2>1, <3>1 DEF SameLinks
        <4>2. x \in C /\ ~Live(x) /\ ChildOf(x, c) /\ x # sh
          BY <2>1, <2>3, <3>1, <4>1 DEF Parents
        <4> QED BY <1>6, <1>7, <2>1, <2>2, <4>2
      <3>2. \A c \in {m, k} : sh \in D /\ ~Live(sh)' /\ ChildOf(sh, c)'
        BY <1>7, <2>2, <2>3
      <3> QED BY <1>4, <2>2, <3>1, <3>2 DEF Parents
    <2>6. Children(D)'
      <3>1. ASSUME NEW c \in D, ~Live(c)'
            PROVE  shares'[c].children # None /\ \A d : ChildOf(c, d)' => d \in D
        <4>1. c \in C BY <1>7, <2>2, <3>1
        <4>2. CASE c = sh BY <1>2, <1>3, <1>7, <2>2, <4>2
        <4>3. CASE c # sh
          BY <1>1, <1>6, <1>7, <2>1, <2>2, <3>1, <4>1, <4>3 DEF Children
        <4> QED BY <4>2, <4>3
      <3> QED BY <3>1 DEF Children
    <2>7. D \in SUBSET Ids(m + 2) BY <1>2, <2>1, <2>2
    <2> QED BY <1>1, <2>4, <2>5, <2>6, <2>7 DEF Partition
  <1>11. Rights' BY <1>1 DEF TreeInv, Trees, Rights, n
  <1> QED BY <1>8, <1>9, <1>10, <1>11 DEF Trees

LEMMA TransferTrees ==
    ASSUME TreeInv, NEW p, p # None, NEW sh \in Ids(next.share), NEW to, to # None,
           Transfer(p, sh, to)
    PROVE  Trees'
  <1> DEFINE m == next.share
             n == next.loan
  <1>1. /\ shares' = [shares EXCEPT ![sh] = Held(sh, to)] /\ shares[sh].holder = p
        /\ next' = next /\ UNCHANGED <<scopes, loans>>
    BY DEF Transfer
  <1>2. \A x \in Ids(m) : /\ SameLinks(x) /\ shares'[x].children = shares[x].children
                          /\ shares'[x].pinnedBy = shares[x].pinnedBy
                          /\ (shares'[x].holder = None <=> shares[x].holder = None)
    <2>1. \A x \in Ids(m) : shares'[x] = IF x = sh THEN Held(sh, to) ELSE shares[x]
      BY <1>1, LinkFacts
    <2> QED BY <1>1, <2>1, ShareFields DEF SameLinks
  <1>3. \A x \in Ids(m) : /\ Live(x)' <=> Live(x)
                          /\ \A c : ChildOf(x, c)' <=> ChildOf(x, c)
    BY <1>2 DEF Live, ChildOf
  <1> HIDE DEF m, n
  <1>4. Links'
    <2>1. ASSUME NEW x \in Ids(m) PROVE Linked(x)'
      <3>1. Linked(x) BY LinkFacts DEF m
      <3>2. shares'[x].pinnedBy # None =>
               /\ shares'[x].pinnedBy \in Ids(n)
               /\ scopes'[shares'[x].pinnedBy].active
               /\ scopes'[shares'[x].pinnedBy].parent # None
               /\ scopes'[shares'[x].pinnedBy].parentShare = x
        BY <1>1, <1>2, <3>1 DEF Linked, n
      <3>3. shares'[x].holder = None \/ shares'[x].pinnedBy = None
        BY <1>2, <3>1 DEF Linked
      <3> QED BY <1>1, <1>2, <3>2, <3>3, LinkedKept DEF m, n
    <2> QED BY <1>1, <2>1 DEF Links, m
  <1>5. RootShares' BY <1>1, <1>2, LinkFacts DEF RootShares, SameLinks, m, n
  <1>6. Partition'
    <2>1. PICK C \in SUBSET Ids(m) : Current(C) /\ Parents(C) /\ Children(C)
      BY DEF TreeInv, Trees, Partition, m
    <2>2. Current(C)' BY <1>1, <1>2, <1>3, <2>1 DEF Current, SameLinks, m, n
    <2>3. Parents(C)'
      <3>1. ASSUME NEW c \in C, NEW x, x = shares'[c].parent, x # None
            PROVE  x \in C /\ ~Live(x)' /\ ChildOf(x, c)'
        <4>1. x = shares[c].parent BY <1>2, <2>1, <3>1 DEF SameLinks
        <4> QED BY <1>3, <2>1, <3>1, <4>1 DEF Parents
      <3> QED BY <3>1 DEF Parents
    <2>4. Children(C)' BY <1>2, <1>3, <2>1 DEF Children
    <2> QED BY <1>1, <2>1, <2>2, <2>3, <2>4 DEF Partition, m
  <1>7. Rights' BY <1>1 DEF TreeInv, Trees, Rights, n
  <1> QED BY <1>4, <1>5, <1>6, <1>7 DEF Trees

\* The two children of a join are live leaves and their parent is split.
LEMMA JoinTrees ==
    ASSUME TreeInv, NEW p, p # None, NEW left, NEW right, NEW up,
           JoinedInto(p, left, right, up)
    PROVE  Trees' /\ ~Live(up)
  <1> DEFINE m == next.share
             n == next.loan
  <1>1. /\ next' = next /\ UNCHANGED <<scopes, loans>>
        /\ left \in Ids(m) /\ right \in Ids(m) /\ up \in Ids(m) /\ up # None
        /\ left # right /\ left # up /\ right # up
        /\ shares[left].holder = p /\ shares[right].holder = p
        /\ shares[left].parent = up /\ shares[right].parent = up
        /\ shares[up].children = <<left, right>>
        /\ \A x \in Ids(m) : x \notin {left, right, up} => shares'[x] = shares[x]
        /\ shares'[left] = Held(left, None) /\ shares'[right] = Held(right, None)
        /\ shares'[up] = Held(up, p)
    BY DEF JoinedInto
  <1>2. \A x \in Ids(m) : /\ SameLinks(x) /\ shares'[x].children = shares[x].children
                          /\ shares'[x].pinnedBy = shares[x].pinnedBy
    BY <1>1, ShareFields DEF SameLinks
  <1>3. /\ shares'[left].holder = None /\ shares'[right].holder = None
        /\ shares'[up].holder = p
        /\ \A x \in Ids(m) : x \notin {left, right, up} => shares'[x].holder = shares[x].holder
    BY <1>1, ShareFields
  <1>4. /\ Live(left) /\ Live(right) BY <1>1 DEF Live
  <1>5. /\ ~Live(up) BY <1>1, <1>4, LiveShare
  <1>6. /\ shares[left].pinnedBy = None /\ shares[right].pinnedBy = None
        /\ shares[up].pinnedBy = None
    BY <1>1, <1>5, LinkFacts DEF Linked, Live
  <1>7. /\ \A x \in Ids(m) : \A c : ChildOf(x, c)' <=> ChildOf(x, c)
        /\ \A x \in Ids(m) : x \notin {left, right, up} => (Live(x)' <=> Live(x))
        /\ ~Live(left)' /\ ~Live(right)' /\ Live(up)'
        /\ \A c : ChildOf(up, c) => c \in {left, right}
    <2>1. \A x \in Ids(m) : \A c : ChildOf(x, c)' <=> ChildOf(x, c) BY <1>2 DEF ChildOf
    <2>2. \A x \in Ids(m) : x \notin {left, right, up} => (Live(x)' <=> Live(x))
      BY <1>2, <1>3 DEF Live
    <2>3. ~Live(left)' /\ ~Live(right)' /\ Live(up)'
      BY <1>1, <1>2, <1>3, <1>6 DEF Live
    <2>4. \A c : ChildOf(up, c) => c \in {left, right} BY <1>1 DEF ChildOf
    <2> QED BY <2>1, <2>2, <2>3, <2>4
  <1> HIDE DEF m, n
  <1>8. Links'
    <2>1. ASSUME NEW x \in Ids(m) PROVE Linked(x)'
      <3>1. Linked(x) BY LinkFacts DEF m
      <3>2. shares'[x].pinnedBy # None =>
               /\ shares'[x].pinnedBy \in Ids(n)
               /\ scopes'[shares'[x].pinnedBy].active
               /\ scopes'[shares'[x].pinnedBy].parent # None
               /\ scopes'[shares'[x].pinnedBy].parentShare = x
        BY <1>1, <1>2, <3>1 DEF Linked, n
      <3>3. shares'[x].holder = None \/ shares'[x].pinnedBy = None
        BY <1>2, <1>3, <1>6, <3>1 DEF Linked
      <3> QED BY <1>1, <1>2, <3>2, <3>3, LinkedKept DEF m, n
    <2> QED BY <1>1, <2>1 DEF Links, m
  <1>9. RootShares' BY <1>1, <1>2, LinkFacts DEF RootShares, SameLinks, m, n
  <1>10. Partition'
    <2>1. PICK C \in SUBSET Ids(m) : Current(C) /\ Parents(C) /\ Children(C)
      BY DEF TreeInv, Trees, Partition, m
    <2>2. PICK D : D = C \ {left, right} OBVIOUS
    <2>3. up \in C /\ \A c \in C : shares[c].parent # left /\ shares[c].parent # right
      <3>1. left \in C BY <1>1, <1>4, <2>1 DEF Current, m
      <3>2. left # None /\ right # None BY <1>1, LinkFacts DEF m
      <3> QED BY <1>1, <1>4, <2>1, <3>1, <3>2 DEF Parents
    <2>4. Current(D)'
      <3>1. \A s \in Ids(n) : scopes[s].active => scopes[s].root \in D
        <4>1. ASSUME NEW s \in Ids(n)
              PROVE  scopes[s].root # left /\ scopes[s].root # right
          <5>1. shares[scopes[s].root].parent = None BY <4>1, LinkFacts DEF n
          <5> QED BY <1>1, <5>1
        <4> QED BY <2>1, <2>2, <4>1 DEF Current, n
      <3>2. \A c \in Ids(m) : Live(c)' => c \in D
        BY <1>7, <2>1, <2>2, <2>3, <1>1 DEF Current, m
      <3>3. \A c \in D : scopes[shares'[c].scope].active
        BY <1>2, <2>1, <2>2 DEF Current, SameLinks
      <3> QED BY <1>1, <3>1, <3>2, <3>3 DEF Current, m, n
    <2>5. Parents(D)'
      <3>1. ASSUME NEW c \in D, NEW x, x = shares'[c].parent, x # None
            PROVE  x \in D /\ ~Live(x)' /\ ChildOf(x, c)'
        <4>1. c \in C /\ c \notin {left, right} /\ x = shares[c].parent
          BY <1>2, <2>1, <2>2, <3>1 DEF SameLinks
        <4>2. x \in C /\ ~Live(x) /\ ChildOf(x, c) BY <2>1, <3>1, <4>1 DEF Parents
        <4>3. x \notin {left, right, up} BY <1>7, <2>3, <4>1, <4>2
        <4> QED BY <1>7, <2>1, <2>2, <4>2, <4>3
      <3> QED BY <3>1 DEF Parents
    <2>6. Children(D)'
      <3>1. ASSUME NEW c \in D, ~Live(c)'
            PROVE  shares'[c].children # None /\ \A d : ChildOf(c, d)' => d \in D
        <4>1. c \in C /\ c \notin {left, right, up} BY <1>7, <2>2, <3>1
        <4>2. ~Live(c) /\ c \in Ids(m) BY <1>7, <2>1, <3>1, <4>1
        <4>3. \A d : ChildOf(c, d) => shares[d].parent = c /\ d \in C
          BY <2>1, <4>1, <4>2, LinkFacts DEF Linked, Children, m
        <4>4. \A d : ChildOf(c, d) => d \notin {left, right}
          BY <1>1, <4>1, <4>3
        <4> QED BY <1>2, <1>7, <2>1, <2>2, <4>1, <4>2, <4>3, <4>4 DEF Children
      <3> QED BY <3>1 DEF Children
    <2>7. D \in SUBSET Ids(m) BY <2>1, <2>2
    <2> QED BY <1>1, <2>4, <2>5, <2>6, <2>7 DEF Partition, m
  <1>11. Rights' BY <1>1 DEF TreeInv, Trees, Rights, n
  <1> QED BY <1>5, <1>8, <1>9, <1>10, <1>11 DEF Trees

\* A scope whose root share is live has no other share in the trees: the
\* oldest one would have a split share above it, younger than itself.
LEMMA OnlyRoot ==
    ASSUME TreeInv, NEW C \in SUBSET Ids(next.share), Current(C), Parents(C), Children(C),
           NEW s \in Ids(next.loan), Live(scopes[s].root),
           NEW c \in C, shares[c].scope = s
    PROVE  c = scopes[s].root
  <1> DEFINE T == {x \in C : shares[x].scope = s /\ x # scopes[s].root}
  <1>1. SUFFICES ASSUME c # scopes[s].root PROVE FALSE OBVIOUS
  <1>2. T \in SUBSET Nat /\ T # {} BY <1>1, LinkFacts
  <1>3. PICK x \in T : \A y \in T : x <= y BY <1>2, SmallestOf
  <1>4. x \in C /\ x \in Ids(next.share) /\ shares[x].scope = s /\ x # scopes[s].root
    BY <1>3
  <1>5. PICK y : y = shares[x].parent OBVIOUS
  <1>6. /\ y # None /\ y \in Ids(x) /\ shares[y].scope = s
    BY <1>4, <1>5, LinkFacts DEF Linked
  <1>7. y \in C /\ ~Live(y) BY <1>4, <1>5, <1>6 DEF Parents
  <1>8. y \in T BY <1>6, <1>7
  <1>9. x \in Nat /\ y < x BY <1>4, <1>6, LinkFacts DEF Ids
  <1> QED BY <1>3, <1>6, <1>8, <1>9 DEF Ids

LEMMA EndTrees ==
    ASSUME TreeInv, NEW p, p # None, NEW s \in Ids(next.loan), Ended(p, s)
    PROVE  Trees'
  <1> DEFINE m == next.share
             n == next.loan
             root == scopes[s].root
             pin == scopes[s].parentShare
             Pin(x) == scopes[s].parent # None /\ x = pin
  <1>1. /\ next' = next /\ loans' = loans
        /\ scopes[s].active
        /\ root \in Ids(m) /\ shares[root].holder = p /\ shares'[root] = Held(root, None)
        /\ \A r \in Ids(n) :
              /\ scopes'[r].active <=> r # s /\ scopes[r].active
              /\ scopes'[r].root = scopes[r].root
              /\ scopes'[r].closeRight = scopes[r].closeRight
              /\ scopes'[r].parent = scopes[r].parent
              /\ scopes'[r].parentShare = scopes[r].parentShare
    BY DEF Ended
  <1>2. /\ \A x : Pin(x) => /\ x \in Ids(m) /\ x # root
                            /\ shares[x].pinnedBy = s /\ shares[x].holder = None
                            /\ shares'[x] = ShareAs(x, shares[x].children, p, None)
        /\ \A x \in Ids(m) : x # root /\ ~Pin(x) => shares'[x] = shares[x]
    BY DEF Ended
  <1> HIDE DEF Pin
  <1>3. \A x \in Ids(m) : SameLinks(x) /\ shares'[x].children = shares[x].children
    BY <1>1, <1>2, ShareFields DEF SameLinks
  <1>4. /\ shares[root].pinnedBy = None /\ shares'[root].pinnedBy = None
        /\ shares'[root].holder = None
        /\ \A x : Pin(x) => shares'[x].holder = p /\ shares'[x].pinnedBy = None
    <2>1. shares[root].pinnedBy = None BY <1>1, LinkFacts DEF Linked
    <2> QED BY <1>1, <1>2, <2>1, ShareFields
  <1>5. /\ Live(root) /\ \A x \in {root} : ~Live(x)'
        /\ \A x \in Ids(m) : x # root => (Live(x)' <=> Live(x))
        /\ \A x \in Ids(m) : \A c : ChildOf(x, c)' <=> ChildOf(x, c)
    <2>1. Live(root) /\ \A x \in {root} : ~Live(x)' BY <1>1, <1>4 DEF Live
    <2>2. \A x \in Ids(m) : Pin(x) => Live(x)' /\ Live(x)
      <3>1. s # None BY LinkFacts
      <3> QED BY <1>2, <1>4, <3>1 DEF Live
    <2>3. \A x \in Ids(m) : x # root /\ ~Pin(x) => (Live(x)' <=> Live(x))
      BY <1>2 DEF Live
    <2>4. \A x \in Ids(m) : \A c : ChildOf(x, c)' <=> ChildOf(x, c) BY <1>3 DEF ChildOf
    <2> QED BY <2>1, <2>2, <2>3, <2>4
  <1>6. shares[root].scope = s /\ shares[root].parent = None BY LinkFacts
  <1> HIDE DEF m, n, root
  <1>7. Links'
    <2>1. ASSUME NEW x \in Ids(m) PROVE Linked(x)'
      <3>1. Linked(x) BY LinkFacts DEF m
      <3>2. shares'[x].pinnedBy # None =>
               /\ shares'[x].pinnedBy \in Ids(n)
               /\ scopes'[shares'[x].pinnedBy].active
               /\ scopes'[shares'[x].pinnedBy].parent # None
               /\ scopes'[shares'[x].pinnedBy].parentShare = x
        <4>1. SUFFICES ASSUME shares'[x].pinnedBy # None
                       PROVE  /\ shares'[x].pinnedBy \in Ids(n)
                              /\ scopes'[shares'[x].pinnedBy].active
                              /\ scopes'[shares'[x].pinnedBy].parent # None
                              /\ scopes'[shares'[x].pinnedBy].parentShare = x
          OBVIOUS
        <4>2. shares'[x] = shares[x] /\ ~Pin(x) BY <1>2, <1>4, <4>1
        <4>3. PICK k : k = shares[x].pinnedBy OBVIOUS
        <4>4. /\ k \in Ids(n) /\ scopes[k].active /\ scopes[k].parent # None
              /\ scopes[k].parentShare = x
          BY <3>1, <4>1, <4>2, <4>3 DEF Linked, n
        <4>5. k # s BY <4>2, <4>4 DEF Pin
        <4> QED BY <1>1, <4>2, <4>3, <4>4, <4>5
      <3>3. shares'[x].holder = None \/ shares'[x].pinnedBy = None
        BY <1>2, <1>4, <3>1 DEF Linked
      <3> QED BY <1>1, <1>3, <3>2, <3>3, LinkedKept DEF m, n
    <2> QED BY <1>1, <2>1 DEF Links, m
  <1>8. RootShares' BY <1>1, <1>3, LinkFacts DEF RootShares, SameLinks, m, n
  <1>9. Partition'
    <2>1. PICK C \in SUBSET Ids(m) : Current(C) /\ Parents(C) /\ Children(C)
      BY DEF TreeInv, Trees, Partition, m
    <2>2. PICK D : D = C \ {root} OBVIOUS
    <2>3. \A c \in C : c # root => shares[c].scope # s
      BY <1>5, <2>1, OnlyRoot DEF m, root
    <2>4. Current(D)'
      <3>1. \A r \in Ids(n) : scopes'[r].active => scopes'[r].root \in D
        <4>1. \A r \in Ids(n) : r # s => scopes[r].root # root
          BY <1>6, LinkFacts DEF n
        <4> QED BY <1>1, <2>1, <2>2, <4>1 DEF Current, n
      <3>2. \A c \in Ids(m) : Live(c)' => c \in D
        BY <1>5, <2>1, <2>2 DEF Current, m
      <3>3. \A c \in D : scopes'[shares'[c].scope].active
        BY <1>1, <1>3, <2>1, <2>2, <2>3, LinkFacts DEF Current, SameLinks, m, n
      <3> QED BY <1>1, <3>1, <3>2, <3>3 DEF Current, m, n
    <2>5. Parents(D)'
      <3>1. ASSUME NEW c \in D, NEW x, x = shares'[c].parent, x # None
            PROVE  x \in D /\ ~Live(x)' /\ ChildOf(x, c)'
        <4>1. c \in C /\ x = shares[c].parent BY <1>3, <2>1, <2>2, <3>1 DEF SameLinks
        <4>2. x \in C /\ ~Live(x) /\ ChildOf(x, c) BY <2>1, <3>1, <4>1 DEF Parents
        <4>3. x # root BY <1>5, <4>2
        <4> QED BY <1>5, <2>1, <2>2, <4>2, <4>3
      <3> QED BY <3>1 DEF Parents
    <2>6. Children(D)'
      <3>1. ASSUME NEW c \in D, ~Live(c)'
            PROVE  shares'[c].children # None /\ \A d : ChildOf(c, d)' => d \in D
        <4>1. c \in C /\ c \in Ids(m) /\ ~Live(c) BY <1>5, <2>1, <2>2, <3>1
        <4>2. \A d : ChildOf(c, d) => shares[d].parent = c /\ d \in C
          BY <2>1, <4>1, LinkFacts DEF Linked, Children, m
        <4>3. c # None BY <4>1, LinkFacts DEF m
        <4> QED BY <1>3, <1>5, <1>6, <2>1, <2>2, <4>1, <4>2, <4>3 DEF Children
      <3> QED BY <3>1 DEF Children
    <2>7. D \in SUBSET Ids(m) BY <2>1, <2>2
    <2> QED BY <1>1, <2>4, <2>5, <2>6, <2>7 DEF Partition, m
  <1>10. Rights' BY <1>1 DEF TreeInv, Trees, Rights, n
  <1> QED BY <1>7, <1>8, <1>9, <1>10 DEF Trees
----------------------------------------------------------------------------
(* Every step has one of these effects                                     *)

SameLoan(l) == /\ loans'[l].support = loans[l].support /\ loans'[l].right = loans[l].right
               /\ loans'[l].origin = loans[l].origin
               /\ (loans'[l].recovered <=> loans[l].recovered)
               /\ loans[l].permitted \subseteq loans'[l].permitted

\* hold, release and project: no share moves and no scope opens or ends.
Quiet == /\ UNCHANGED <<shares, owner>>
         /\ next'.loan = next.loan /\ next'.share = next.share
         /\ \A s \in Ids(next.loan) : SameScope(s) /\ SameLoan(s)

\* A loan without a parent: the owner of an owned occurrence goes into escrow.
Opened(p, b, o) ==
    /\ RootAdded(b, o)
    /\ o \in Owned => /\ owner[o] = p /\ owner' = [owner EXCEPT ![o] = None]
                      /\ loans'[next.loan].right = p
                      /\ loans'[next.loan].origin = "Escrowed"
    /\ o \notin Owned => owner' = owner

\* p splits, passes on, joins or reborrows a share it holds.
Passed(p) ==
    \/ \E b \in Participant, sh \in Ids(next.share) :
          ValidAuthority(p, sh) /\ ChildAdded(b, sh)
    \/ \E sh \in Ids(next.share), lh, rh \in Participant :
          shares[sh].holder = p /\ SplitInto(sh, lh, rh)
    \/ \E sh \in Ids(next.share), to \in Participant : Transfer(p, sh, to)
    \/ \E left, right, up \in Ids(next.share) : JoinedInto(p, left, right, up)

LEMMA StepEffect ==
    ASSUME TreeInv, NEW p \in Participant, Step(p)
    PROVE  \/ \E b \in Participant, o \in Occurrence : Opened(p, b, o)
           \/ Passed(p)
           \/ \E s \in Ids(next.loan) : Ended(p, s)
           \/ \E l \in Ids(next.loan) : Recover(p, l)
           \/ Quiet
  <1> DEFINE Goal == \/ \E b \in Participant, o \in Occurrence : Opened(p, b, o)
                     \/ Passed(p)
                     \/ \E s \in Ids(next.loan) : Ended(p, s)
                     \/ \E l \in Ids(next.loan) : Recover(p, l)
                     \/ Quiet
  <1>0. /\ SafeInv /\ DOMAIN shares = Ids(next.share) /\ DOMAIN scopes = Ids(next.loan)
        /\ DOMAIN loans = Ids(next.loan)
    BY LinkFacts, DomainsOfMaps DEF TreeInv
  <1>1. ASSUME NEW b \in Participant, NEW o \in Owned,
               Lend(p, b, o) \/ LendMutexUse(p, b, o) \/ LendComposite(p, b, o)
        PROVE  Goal
    <2>1. o \in Occurrence /\ owner[o] = p /\ owner' = [owner EXCEPT ![o] = None]
      BY <1>1 DEF Occurrence, Lend, LendMutexUse, LendComposite
    <2>2. PICK head, permitted, backing, mutexRoot :
            OpenRoot(b, p, o, head, permitted, backing, mutexRoot, "Escrowed")
      <3>1. CASE Lend(p, b, o) BY <3>1 DEF Lend
      <3>2. CASE LendMutexUse(p, b, o) BY <3>2 DEF LendMutexUse
      <3>3. CASE LendComposite(p, b, o) BY <3>3 DEF LendComposite
      <3> QED BY <1>1, <3>1, <3>2, <3>3
    <2>3. RootAdded(b, o) BY <1>0, <2>1, <2>2, RootAddedEffect
    <2>4. loans'[next.loan].right = p /\ loans'[next.loan].origin = "Escrowed"
      BY <2>2 DEF OpenRoot, WithInserted
    <2>5. Opened(p, b, o) BY <2>1, <2>3, <2>4 DEF Opened
    <2> QED BY <2>1, <2>5
  <1>2. ASSUME NEW b \in Participant, NEW o \in Input \cup LocalView,
               \/ BorrowedContractInput(p, o) /\ b = p
               \/ BorrowedMutexUse(p, o) /\ b = p
               \/ OpenLocalView(p, b, o)
        PROVE  Goal
    <2>1. o \in Occurrence /\ o \notin Owned /\ owner' = owner
      BY <1>2, ConstantAssumption
         DEF Occurrence, BorrowedContractInput, BorrowedMutexUse, OpenLocalView
    <2>2. PICK closeRight, head, permitted, backing, mutexRoot, origin :
            OpenRoot(b, closeRight, o, head, permitted, backing, mutexRoot, origin)
      <3>1. CASE BorrowedContractInput(p, o) /\ b = p BY <3>1 DEF BorrowedContractInput
      <3>2. CASE BorrowedMutexUse(p, o) /\ b = p BY <3>2 DEF BorrowedMutexUse
      <3>3. CASE OpenLocalView(p, b, o) BY <3>3 DEF OpenLocalView
      <3> QED BY <1>2, <3>1, <3>2, <3>3
    <2>3. RootAdded(b, o) BY <1>0, <2>1, <2>2, RootAddedEffect
    <2>4. Opened(p, b, o) BY <2>1, <2>3 DEF Opened
    <2> QED BY <2>1, <2>4
  <1>3. ASSUME NEW b \in Participant, NEW sh \in DOMAIN shares,
               (\E v \in Resource : Reborrow(p, b, sh, v)) \/ ReborrowMutexUse(p, b, sh)
        PROVE  Goal
    <2>1. PICK head, permitted, backing, mutexRoot :
            ValidAuthority(p, sh) /\ OpenChild(p, b, sh, head, permitted, backing, mutexRoot)
      <3>1. CASE \E v \in Resource : Reborrow(p, b, sh, v)
        BY <3>1 DEF Reborrow, ValidView
      <3>2. CASE ReborrowMutexUse(p, b, sh) BY <3>2 DEF ReborrowMutexUse, ValidMutexUse
      <3> QED BY <1>3, <3>1, <3>2
    <2>2. ChildAdded(b, sh) BY <1>0, <2>1, ChildAddedEffect
    <2> QED BY <1>0, <2>1, <2>2 DEF Passed
  <1>4. ASSUME NEW sh \in DOMAIN shares, NEW lh \in Participant, NEW rh \in Participant,
               Split(p, sh, lh, rh)
        PROVE  Goal
    <2>1. SplitInto(sh, lh, rh) BY <1>0, <1>4, SplitEffect
    <2>2. shares[sh].holder = p BY <1>4 DEF Split
    <2> QED BY <1>0, <2>1, <2>2 DEF Passed
  <1>5. ASSUME NEW sh \in DOMAIN shares, NEW to \in Participant, Transfer(p, sh, to)
        PROVE  Goal
    BY <1>0, <1>5 DEF Passed
  <1>6. ASSUME NEW left \in DOMAIN shares, NEW right \in DOMAIN shares, Join(p, left, right)
        PROVE  Goal
    <2>1. PICK up : up = shares[left].parent OBVIOUS
    <2>2. JoinedInto(p, left, right, up) BY <1>6, <2>1, JoinEffect
    <2>3. up \in Ids(next.share) BY <2>2 DEF JoinedInto
    <2> QED BY <1>0, <2>2, <2>3 DEF Passed
  <1>7. ASSUME NEW sh \in DOMAIN shares, Hold(p, sh)
        PROVE  Goal
    <2>1. Quiet
      <3>1. /\ scopes' = [scopes EXCEPT ![shares[sh].scope].holds = @ \cup {next.hold}]
            /\ UNCHANGED <<loans, shares, owner>>
            /\ next' = [loan |-> next.loan + 0, share |-> next.share + 0, hold |-> next.hold + 1]
        BY <1>7 DEF Hold, Advance
      <3>2. next'.loan = next.loan /\ next'.share = next.share BY <3>1, LinkFacts
      <3>3. scopes \in [Ids(next.loan) -> ScopeRecord] BY <1>0 DEF SafeInv, TypeInv, TypeOK
      <3>4. \A s \in Ids(next.loan) : SameScope(s) BY <3>1, <3>3 DEF SameScope, ScopeRecord
      <3> QED BY <3>1, <3>2, <3>4 DEF Quiet, SameLoan
    <2> QED BY <2>1
  <1>8. ASSUME NEW h \in DOMAIN holds, Release(p, h)
        PROVE  Goal
    <2>1. Quiet
      <3>1. /\ scopes' = [scopes EXCEPT ![holds[h].scope].holds = @ \ {h}]
            /\ UNCHANGED <<loans, shares, owner, next>>
        BY <1>8 DEF Release
      <3>2. scopes \in [Ids(next.loan) -> ScopeRecord] BY <1>0 DEF SafeInv, TypeInv, TypeOK
      <3>3. \A s \in Ids(next.loan) : SameScope(s) BY <3>1, <3>2 DEF SameScope, ScopeRecord
      <3> QED BY <3>1, <3>3 DEF Quiet, SameLoan
    <2> QED BY <2>1
  <1>9. ASSUME NEW s \in DOMAIN scopes, End(p, s)
        PROVE  Goal
    BY <1>0, <1>9, EndedEffect
  <1>10. ASSUME NEW l \in DOMAIN loans, Recover(p, l)
         PROVE  Goal
    BY <1>0, <1>10
  <1> HIDE DEF Goal
  <1>11. CASE \/ \E b \in Participant, o \in Owned :
                    Lend(p, b, o) \/ LendMutexUse(p, b, o) \/ LendComposite(p, b, o)
              \/ \E o \in Input : BorrowedContractInput(p, o) \/ BorrowedMutexUse(p, o)
              \/ \E b \in Participant, o \in LocalView : OpenLocalView(p, b, o)
    <2>1. ASSUME NEW o \in Input, BorrowedContractInput(p, o) \/ BorrowedMutexUse(p, o)
          PROVE  Goal
      BY <1>2, <2>1
    <2>2. ASSUME NEW b \in Participant, NEW o \in LocalView, OpenLocalView(p, b, o)
          PROVE  Goal
      BY <1>2, <2>2
    <2> QED BY <1>1, <1>11, <2>1, <2>2 DEF Goal
  <1>12. CASE \/ \E b \in Participant, sh \in DOMAIN shares, v \in Resource :
                    Reborrow(p, b, sh, v)
              \/ \E b \in Participant, sh \in DOMAIN shares : ReborrowMutexUse(p, b, sh)
    <2>1. ASSUME NEW b \in Participant, NEW sh \in DOMAIN shares, NEW v \in Resource,
                 Reborrow(p, b, sh, v)
          PROVE  Goal
      BY <1>3, <2>1
    <2>2. ASSUME NEW b \in Participant, NEW sh \in DOMAIN shares, ReborrowMutexUse(p, b, sh)
          PROVE  Goal
      BY <1>3, <2>2
    <2> QED BY <1>12, <2>1, <2>2 DEF Goal
  <1> QED BY <1>4, <1>5, <1>6, <1>7, <1>8, <1>9, <1>10, <1>11, <1>12 DEF Step, Goal

LEMMA ProjectEffect ==
    ASSUME TreeInv, NEW l \in DOMAIN loans, NEW c, NEW child, Project(l, c, child)
    PROVE  Quiet
  <1>1. /\ loans' = [loans EXCEPT ![l].permitted = @ \cup {child}]
        /\ UNCHANGED <<scopes, shares, owner, next>>
    BY DEF Project
  <1>2. loans \in [Ids(next.loan) -> LoanRecord]
    BY DEF TreeInv, SafeInv, TypeInv, TypeOK
  <1>3. \A s \in Ids(next.loan) : SameLoan(s) BY <1>1, <1>2 DEF SameLoan, LoanRecord
  <1> QED BY <1>1, <1>3 DEF Quiet, SameScope

LEMMA TreeInvInit == Init => TreeInv
  <1> SUFFICES ASSUME Init PROVE TreeInv OBVIOUS
  <1>1. SafeInv BY SafeInvInit
  <1>2. Ids(next.loan) = {} /\ Ids(next.share) = {} BY DEF Init, Ids
  <1>3. Current({}) /\ Parents({}) /\ Children({})
    BY <1>2 DEF Current, Parents, Children
  <1> QED BY <1>1, <1>2, <1>3 DEF TreeInv, Trees, Links, RootShares, Partition, Rights

LEMMA TreeInvStep ==
    ASSUME TreeInv, [Next]_vars
    PROVE  TreeInv'
  <1>1. SafeInv' BY SafeInvStep DEF TreeInv
  <1>2. Quiet => Trees' BY TreesUnchanged DEF Quiet, SameLoan
  <1>3. ASSUME NEW p \in Participant, Step(p)
        PROVE  Trees'
    <2>1. p # None /\ \A b \in Participant : b # None BY ConstantAssumption
    <2>2. ASSUME NEW b \in Participant, NEW o \in Occurrence, Opened(p, b, o)
          PROVE  Trees'
      BY <2>1, <2>2, RootAddedTrees DEF Opened
    <2>3. CASE Passed(p)
      <3>1. ASSUME NEW b \in Participant, NEW sh \in Ids(next.share),
                   ValidAuthority(p, sh), ChildAdded(b, sh)
            PROVE  Trees'
        BY <2>1, <3>1, ChildAddedTrees DEF ValidAuthority
      <3>2. ASSUME NEW sh \in Ids(next.share), NEW lh \in Participant, NEW rh \in Participant,
                   shares[sh].holder = p, SplitInto(sh, lh, rh)
            PROVE  Trees'
        BY <2>1, <3>2, SplitTrees
      <3>3. ASSUME NEW sh \in Ids(next.share), NEW to \in Participant, Transfer(p, sh, to)
            PROVE  Trees'
        BY <2>1, <3>3, TransferTrees
      <3>4. ASSUME NEW left, NEW right, NEW up, JoinedInto(p, left, right, up)
            PROVE  Trees'
        BY <2>1, <3>4, JoinTrees
      <3> QED BY <2>3, <3>1, <3>2, <3>3, <3>4 DEF Passed
    <2>4. ASSUME NEW s \in Ids(next.loan), Ended(p, s)
          PROVE  Trees'
      BY <2>1, <2>4, EndTrees
    <2>5. ASSUME NEW l \in Ids(next.loan), Recover(p, l)
          PROVE  Trees'
      <3>1. loans \in [Ids(next.loan) -> LoanRecord]
        BY DEF TreeInv, SafeInv, TypeInv, TypeOK
      <3>2. /\ loans' = [loans EXCEPT ![l].recovered = TRUE]
            /\ UNCHANGED <<scopes, shares, next>>
        BY <2>5 DEF Recover
      <3>3. \A k \in Ids(next.loan) : loans'[k].right = loans[k].right
        BY <3>1, <3>2 DEF LoanRecord
      <3> QED BY <3>2, <3>3, TreesUnchanged DEF SameScope
    <2> QED BY <1>2, <1>3, <2>2, <2>3, <2>4, <2>5, StepEffect
  <1>4. ASSUME NEW l \in DOMAIN loans, NEW c \in Resource, NEW child \in Resource,
               Project(l, c, child)
        PROVE  Trees'
    BY <1>2, <1>4, ProjectEffect
  <1>5. ASSUME UNCHANGED vars PROVE Trees'
    BY <1>2, <1>5 DEF vars, Quiet, SameScope, SameLoan
  <1>6. Trees' BY <1>3, <1>4, <1>5 DEF Next
  <1> QED BY <1>1, <1>6 DEF TreeInv

LEMMA TreeInvariant == Spec => []TreeInv
  BY TreeInvInit, TreeInvStep, PTL DEF Spec
----------------------------------------------------------------------------
(* The theorems                                                            *)

\* split, join, transfer, reborrow and end in any order leave the live shares
\* an exact partition of the root share of every open scope, and no share of
\* an ended scope is live.
THEOREM SharesAreConserved == Spec => []ShareConservation
  <1>1. ASSUME TreeInv PROVE ShareConservation
    <2>1. /\ DOMAIN shares = Ids(next.share) /\ DOMAIN scopes = Ids(next.loan)
          /\ \A x \in Ids(next.share) : Linked(x)
      BY <1>1, LinkFacts
    <2>2. PICK C \in SUBSET Ids(next.share) : Current(C) /\ Parents(C) /\ Children(C)
      BY <1>1 DEF TreeInv, Trees, Partition
    <2>3. \A x \in Ids(next.share) : Kids(x) = {c \in Ids(next.share) : ChildOf(x, c)}
      BY <2>1 DEF Kids, ChildOf
    <2>4. ASSUME NEW c \in C, shares[c].parent # None
          PROVE  /\ shares[c].parent \in C /\ ~Live(shares[c].parent)
                 /\ c \in Kids(shares[c].parent)
      BY <2>2, <2>3, <2>4 DEF Parents
    <2>5. ASSUME NEW c \in C, ~Live(c)
          PROVE  Cardinality(Kids(c)) = 2 /\ Kids(c) \subseteq C
      <3>1. PICK a, b : a = shares[c].children[1] /\ b = shares[c].children[2] OBVIOUS
      <3>2. shares[c].children # None /\ a # b
        BY <2>1, <2>2, <2>5, <3>1 DEF Children, Linked
      <3>3. ChildOf(c, a) /\ ChildOf(c, b) /\ \A d : ChildOf(c, d) => d \in {a, b}
        BY <3>1, <3>2 DEF ChildOf
      <3>4. a \in C /\ b \in C BY <2>2, <2>5, <3>3 DEF Children
      <3>5. Kids(c) = {a} \cup {b} BY <2>3, <3>3, <3>4
      <3>6. IsFiniteSet({a}) /\ Cardinality({a}) = 1 BY FS_Singleton
      <3>7. Cardinality({a} \cup {b}) = Cardinality({a}) + 1
        <4>1. PICK A : A = {a} OBVIOUS
        <4>2. IsFiniteSet(A) /\ b \notin A BY <3>2, <3>6, <4>1
        <4>3. Cardinality(A \cup {b}) = Cardinality(A) + 1 BY <4>2, FS_AddElement
        <4> QED BY <4>1, <4>3
      <3> QED BY <3>4, <3>5, <3>6, <3>7
    <2>6. ShareTree(C)
      BY <2>1, <2>2, <2>4, <2>5 DEF ShareTree, Current, Linked
    <2> QED BY <2>1, <2>6 DEF ShareConservation
  <1> QED BY <1>1, TreeInvariant, PTL

----------------------------------------------------------------------------
(* Who reads what after a step                                             *)

Reads(q, sh, o) == /\ sh \in Ids(next.share) /\ ValidAuthority(q, sh)
                   /\ loans[shares[sh].scope].support = o

\* A step of p takes the shares Gone, which p could read o through, and gives
\* the <<reader, share>> pairs Gained on o; nobody else's authority changes.
Moved(p, o, Gone, Gained) ==
    /\ \A sh \in Gone : Reads(p, sh, o)
    /\ \A q, sh, k : q # None =>
          (Reads(q, sh, k)' <=> \/ Reads(q, sh, k) /\ sh \notin Gone
                                \/ <<q, sh>> \in Gained /\ k = o)

LEMMA ReadFacts ==
    ASSUME TreeInv
    PROVE  /\ next.share \in Nat /\ next.loan \in Nat
           /\ \A x \in Ids(next.share) : shares[x].scope \in Ids(next.loan)
           /\ \A x \in Ids(next.share) : x # next.share /\ x # next.share + 1
           /\ next.loan \notin Ids(next.loan)
           /\ \A s \in Ids(next.loan) : scopes[s].active => ~loans[s].recovered
           /\ \A x \in Ids(next.share) : \A p : shares[x].holder = p /\ p # None =>
                 ValidAuthority(p, x)
  <1>1. /\ next.share \in Nat /\ next.loan \in Nat
        /\ \A x \in Ids(next.share) : shares[x].scope \in Ids(next.loan)
        /\ \A s \in Ids(next.loan) : scopes[s].active => ~loans[s].recovered
    BY LinkFacts DEF TreeInv, SafeInv, OpenLoans
  <1>2. \A x \in Ids(next.share) : \A p : shares[x].holder = p /\ p # None => ValidAuthority(p, x)
    BY <1>1, LinkFacts, LiveShare DEF ValidAuthority, Live, Linked
  <1> QED BY <1>1, <1>2 DEF Ids

LEMMA OpenedMoves ==
    ASSUME TreeInv, NEW p, NEW b, b # None, NEW o, RootAdded(b, o)
    PROVE  Moved(p, o, {}, {<<b, next.share>>})
  <1> DEFINE m == next.share
             n == next.loan
  <1>1. /\ next'.share = m + 1 /\ scopes'[n].active /\ shares'[m] = RootShare(n, b)
        /\ ~loans'[n].recovered /\ loans'[n].support = o
        /\ \A s \in Ids(n) : (scopes'[s].active <=> scopes[s].active) /\ loans'[s] = loans[s]
        /\ \A x \in Ids(m) : shares'[x] = shares[x]
    BY DEF RootAdded, NewRoot, SameScope
  <1>2. /\ Ids(m + 1) = Ids(m) \cup {m} /\ m \notin Ids(m)
        /\ \A x \in Ids(m) : shares[x].scope \in Ids(n)
    BY ReadFacts, IdsNext
  <1>3. /\ shares'[m].scope = n /\ shares'[m].holder = b /\ shares'[m].pinnedBy = None
    BY <1>1 DEF RootShare
  <1>4. \A x \in Ids(m) : \A q, k : Reads(q, x, k)' <=> Reads(q, x, k)
    BY <1>1, <1>2 DEF Reads, ValidAuthority
  <1>5. \A x \in {m} : \A q, k : Reads(q, x, k)' <=> q = b /\ k = o
    BY <1>1, <1>2, <1>3 DEF Reads, ValidAuthority
  <1>6. \A x, q, k : Reads(q, x, k)' => x \in Ids(m) \cup {m} BY <1>1, <1>2 DEF Reads
  <1>7. \A x, q, k : Reads(q, x, k) => x \in Ids(m) BY DEF Reads
  <1> HIDE DEF m
  <1> QED BY <1>2, <1>4, <1>5, <1>6, <1>7 DEF Moved, m

LEMMA ChildMoves ==
    ASSUME TreeInv, NEW p, p # None, NEW b, b # None, NEW sh \in Ids(next.share),
           ValidAuthority(p, sh), ChildAdded(b, sh)
    PROVE  \A o \in {loans[shares[sh].scope].support} :
              Moved(p, o, {sh}, {<<b, next.share>>})
  <1> DEFINE m == next.share
             n == next.loan
  <1>0. SUFFICES ASSUME NEW o, o = loans[shares[sh].scope].support
                 PROVE  Moved(p, o, {sh}, {<<b, m>>})
    OBVIOUS
  <1>1. /\ next'.share = m + 1 /\ scopes'[n].active /\ shares'[m] = RootShare(n, b)
        /\ ~loans'[n].recovered /\ loans'[n].support = o
        /\ \A s \in Ids(n) : (scopes'[s].active <=> scopes[s].active) /\ loans'[s] = loans[s]
        /\ \A x \in Ids(m) : x # sh => shares'[x] = shares[x]
        /\ shares'[sh] = ShareAs(sh, shares[sh].children, None, n)
    BY <1>0 DEF ChildAdded, NewRoot, SameScope
  <1>2. /\ Ids(m + 1) = Ids(m) \cup {m} /\ m \notin Ids(m)
        /\ \A x \in Ids(m) : shares[x].scope \in Ids(n)
    BY ReadFacts, IdsNext
  <1>3. /\ shares'[m].scope = n /\ shares'[m].holder = b /\ shares'[m].pinnedBy = None
        /\ shares'[sh].holder = None
    BY <1>1, ShareFields DEF RootShare
  <1>4. \A x \in Ids(m) : \A q, k : x # sh => (Reads(q, x, k)' <=> Reads(q, x, k))
    BY <1>1, <1>2 DEF Reads, ValidAuthority
  <1>5. \A x \in {m} : \A q, k : Reads(q, x, k)' <=> q = b /\ k = o
    BY <1>1, <1>2, <1>3 DEF Reads, ValidAuthority
  <1>6. \A x, q, k : Reads(q, x, k)' => x \in Ids(m) \cup {m} BY <1>1, <1>2 DEF Reads
  <1>7. \A x, q, k : Reads(q, x, k) => x \in Ids(m) BY DEF Reads
  <1>8. \A q, k : Reads(q, sh, k)' => q = None BY <1>3 DEF Reads, ValidAuthority
  <1>9. Reads(p, sh, o) BY <1>0 DEF Reads
  <1> HIDE DEF m
  <1> QED BY <1>2, <1>4, <1>5, <1>6, <1>7, <1>8, <1>9 DEF Moved, m

LEMMA SplitMoves ==
    ASSUME TreeInv, NEW p, p # None, NEW sh \in Ids(next.share), shares[sh].holder = p,
           NEW lh, NEW rh, SplitInto(sh, lh, rh)
    PROVE  \A o \in {loans[shares[sh].scope].support} :
              Moved(p, o, {sh}, {<<lh, next.share>>, <<rh, next.share + 1>>})
  <1> DEFINE m == next.share
             r == next.share + 1
  <1>0. SUFFICES ASSUME NEW o, o = loans[shares[sh].scope].support
                 PROVE  Moved(p, o, {sh}, {<<lh, m>>, <<rh, r>>})
    OBVIOUS
  <1>1. /\ next'.share = m + 2 /\ UNCHANGED <<scopes, loans>>
        /\ \A x \in Ids(m) : x # sh => shares'[x] = shares[x]
        /\ shares'[sh] = ShareAs(sh, <<m, r>>, None, shares[sh].pinnedBy)
        /\ shares'[m] = [scope |-> shares[sh].scope, parent |-> sh,
                         children |-> None, holder |-> lh, pinnedBy |-> None]
        /\ shares'[r] = [scope |-> shares[sh].scope, parent |-> sh,
                         children |-> None, holder |-> rh, pinnedBy |-> None]
    BY DEF SplitInto
  <1>2. /\ Ids(m + 2) = Ids(m) \cup {m, r} /\ m \notin Ids(m) /\ r \notin Ids(m) /\ m # r
    BY ReadFacts DEF Ids
  <1>3. /\ shares'[m].scope = shares[sh].scope /\ shares'[r].scope = shares[sh].scope
        /\ shares'[m].holder = lh /\ shares'[r].holder = rh
        /\ shares'[m].pinnedBy = None /\ shares'[r].pinnedBy = None
        /\ shares'[sh].holder = None
    BY <1>1, ShareFields
  <1>4. ValidAuthority(p, sh) BY ReadFacts
  <1>5. \A x \in Ids(m) : \A q, k : x # sh => (Reads(q, x, k)' <=> Reads(q, x, k))
    BY <1>1, <1>2 DEF Reads, ValidAuthority
  <1>6. /\ \A x \in {m} : \A q, k : Reads(q, x, k)' <=> q = lh /\ k = o
        /\ \A x \in {r} : \A q, k : Reads(q, x, k)' <=> q = rh /\ k = o
    BY <1>0, <1>1, <1>2, <1>3, <1>4 DEF Reads, ValidAuthority
  <1>7. \A x, q, k : Reads(q, x, k)' => x \in Ids(m) \cup {m, r} BY <1>1, <1>2 DEF Reads
  <1>8. \A x, q, k : Reads(q, x, k) => x \in Ids(m) BY DEF Reads
  <1>9. \A q, k : Reads(q, sh, k)' => q = None BY <1>3 DEF Reads, ValidAuthority
  <1>10. Reads(p, sh, o) BY <1>0, <1>4 DEF Reads
  <1> HIDE DEF m, r
  <1> QED BY <1>2, <1>5, <1>6, <1>7, <1>8, <1>9, <1>10 DEF Moved

LEMMA TransferMoves ==
    ASSUME TreeInv, NEW p, p # None, NEW sh \in Ids(next.share), NEW to, to # None,
           Transfer(p, sh, to)
    PROVE  \A o \in {loans[shares[sh].scope].support} : Moved(p, o, {sh}, {<<to, sh>>})
  <1>0. SUFFICES ASSUME NEW o, o = loans[shares[sh].scope].support
                 PROVE  Moved(p, o, {sh}, {<<to, sh>>})
    OBVIOUS
  <1>1. /\ shares' = [shares EXCEPT ![sh] = Held(sh, to)] /\ shares[sh].holder = p
        /\ next' = next /\ UNCHANGED <<scopes, loans>>
    BY DEF Transfer
  <1>2. /\ \A x \in Ids(next.share) : x # sh => shares'[x] = shares[x]
        /\ shares'[sh] = Held(sh, to)
    BY <1>1, LinkFacts
  <1>3. /\ shares'[sh].scope = shares[sh].scope /\ shares'[sh].holder = to
        /\ shares'[sh].pinnedBy = shares[sh].pinnedBy
    BY <1>2, ShareFields
  <1>4. ValidAuthority(p, sh) BY <1>1, ReadFacts
  <1>5. \A x, q, k : x # sh => (Reads(q, x, k)' <=> Reads(q, x, k))
    BY <1>1, <1>2 DEF Reads, ValidAuthority
  <1>6. \A q, k : Reads(q, sh, k)' <=> q = to /\ k = o
    BY <1>0, <1>1, <1>3, <1>4 DEF Reads, ValidAuthority
  <1>7. Reads(p, sh, o) BY <1>0, <1>4 DEF Reads
  <1> QED BY <1>5, <1>6, <1>7 DEF Moved

LEMMA JoinMoves ==
    ASSUME TreeInv, NEW p, p # None, NEW left, NEW right, NEW up,
           JoinedInto(p, left, right, up)
    PROVE  \A o \in {loans[shares[left].scope].support} :
              Moved(p, o, {left, right}, {<<p, up>>})
  <1>0. SUFFICES ASSUME NEW o, o = loans[shares[left].scope].support
                 PROVE  Moved(p, o, {left, right}, {<<p, up>>})
    OBVIOUS
  <1>1. /\ next' = next /\ UNCHANGED <<scopes, loans>>
        /\ left \in Ids(next.share) /\ right \in Ids(next.share) /\ up \in Ids(next.share)
        /\ left # right /\ left # up /\ right # up /\ up # None
        /\ shares[left].holder = p /\ shares[right].holder = p
        /\ shares[left].scope = shares[up].scope /\ shares[right].parent = up
        /\ \A x \in Ids(next.share) : x \notin {left, right, up} => shares'[x] = shares[x]
        /\ shares'[left] = Held(left, None) /\ shares'[right] = Held(right, None)
        /\ shares'[up] = Held(up, p)
    BY DEF JoinedInto
  <1>2. /\ shares'[left].holder = None /\ shares'[right].holder = None
        /\ shares'[up].holder = p /\ shares'[up].scope = shares[up].scope
        /\ shares'[up].pinnedBy = shares[up].pinnedBy
    BY <1>1, ShareFields
  <1>3. /\ ValidAuthority(p, left) /\ ValidAuthority(p, right)
        /\ shares[right].scope = shares[up].scope
    BY <1>1, ReadFacts, LinkFacts DEF Linked
  <1>4. ~Live(up) BY JoinTrees
  <1>5. \A x, q, k : x \notin {left, right, up} => (Reads(q, x, k)' <=> Reads(q, x, k))
    BY <1>1 DEF Reads, ValidAuthority
  <1>6. \A q, k : Reads(q, up, k)' <=> q = p /\ k = o
    BY <1>0, <1>1, <1>2, <1>3, <1>4 DEF Reads, ValidAuthority, Live
  <1>7. \A q, k : Reads(q, up, k) => q = None BY <1>4 DEF Reads, ValidAuthority, Live
  <1>8. \A x \in {left, right} : \A q, k : Reads(q, x, k)' => q = None
    BY <1>2 DEF Reads, ValidAuthority
  <1>9. Reads(p, left, o) /\ Reads(p, right, o) BY <1>0, <1>1, <1>3 DEF Reads
  <1> QED BY <1>1, <1>5, <1>6, <1>7, <1>8, <1>9 DEF Moved

\* An ended scope had no valid share but its root.
LEMMA EndMoves ==
    ASSUME TreeInv, NEW p, p # None, NEW s \in Ids(next.loan), Ended(p, s)
    PROVE  \A o \in {loans[s].support} :
              /\ scopes[s].parent = None => Moved(p, o, {scopes[s].root}, {})
              /\ scopes[s].parent # None =>
                    Moved(p, o, {scopes[s].root}, {<<p, scopes[s].parentShare>>})
              /\ \A q, sh, k : Reads(q, sh, k) /\ q # None /\ shares[sh].scope = s =>
                    sh = scopes[s].root /\ q = p
  <1> DEFINE pin == scopes[s].parentShare
  <1>0. PICK o, root : o = loans[s].support /\ root = scopes[s].root OBVIOUS
  <1>1. /\ next' = next /\ loans' = loans /\ scopes[s].active
        /\ root \in Ids(next.share) /\ shares[root].holder = p
        /\ shares'[root] = Held(root, None)
        /\ \A r \in Ids(next.loan) : scopes'[r].active <=> r # s /\ scopes[r].active
    BY <1>0 DEF Ended
  <1>2. /\ scopes[s].parent = None =>
              \A x \in Ids(next.share) : x # root => shares'[x] = shares[x]
        /\ scopes[s].parent # None =>
              /\ pin \in Ids(next.share) /\ pin # root
              /\ shares[pin].pinnedBy = s /\ shares[pin].holder = None
              /\ shares'[pin] = ShareAs(pin, shares[pin].children, p, None)
              /\ \A x \in Ids(next.share) : x # root /\ x # pin => shares'[x] = shares[x]
    BY <1>0 DEF Ended
  <1>3. shares[root].scope = s /\ shares'[root].holder = None
    BY <1>0, <1>1, LinkFacts, ShareFields
  <1>4. /\ ValidAuthority(p, root) /\ Reads(p, root, o)
    BY <1>0, <1>1, <1>3, ReadFacts DEF Reads
  <1>5. \A q, sh, k : Reads(q, sh, k) /\ q # None /\ shares[sh].scope = s =>
            sh = root /\ q = p
    <2>1. PICK C \in SUBSET Ids(next.share) : Current(C) /\ Parents(C) /\ Children(C)
      BY DEF TreeInv, Trees, Partition
    <2>2. Live(scopes[s].root) BY <1>0, <1>1 DEF Live
    <2>3. SUFFICES ASSUME NEW q, NEW sh, NEW k, Reads(q, sh, k), q # None, shares[sh].scope = s
                   PROVE  sh = root /\ q = p
      OBVIOUS
    <2>4. sh \in Ids(next.share) /\ shares[sh].holder = q BY <2>3 DEF Reads, ValidAuthority
    <2>5. sh \in C BY <2>1, <2>3, <2>4 DEF Current, Live
    <2>6. sh = scopes[s].root BY <2>1, <2>2, <2>3, <2>5, OnlyRoot
    <2> QED BY <1>0, <1>1, <2>4, <2>6
  <1>6. ASSUME NEW q, NEW x, NEW k, q # None, x # root, shares'[x] = shares[x]
        PROVE  Reads(q, x, k)' <=> Reads(q, x, k)
    <2>1. CASE x \in Ids(next.share) /\ shares[x].scope # s
      <3>1. shares[x].scope \in Ids(next.loan) BY <2>1, ReadFacts
      <3> QED BY <1>1, <1>6, <2>1, <3>1 DEF Reads, ValidAuthority
    <2>2. CASE x \in Ids(next.share) /\ shares[x].scope = s
      <3>1. ~Reads(q, x, k) BY <1>5, <1>6, <2>2
      <3>2. ~Reads(q, x, k)' BY <1>1, <1>6, <2>2 DEF Reads, ValidAuthority
      <3> QED BY <3>1, <3>2
    <2>3. CASE x \notin Ids(next.share)
      BY <1>1, <2>3 DEF Reads
    <2> QED BY <2>1, <2>2, <2>3
  <1>7. \A q, k : Reads(q, root, k)' => q = None BY <1>3 DEF Reads, ValidAuthority
  <1>8. \A q, x, k : /\ Reads(q, x, k) => x \in Ids(next.share)
                     /\ Reads(q, x, k)' => x \in Ids(next.share)
    BY <1>1 DEF Reads
  <1>9. CASE scopes[s].parent = None
    <2>1. Moved(p, o, {root}, {}) BY <1>2, <1>4, <1>6, <1>7, <1>8, <1>9 DEF Moved
    <2> QED BY <1>0, <1>5, <1>9, <2>1
  <1>10. CASE scopes[s].parent # None
    <2>1. PICK x : x = pin OBVIOUS
    <2>2. /\ shares'[x].scope = shares[x].scope /\ shares'[x].holder = p
          /\ shares'[x].pinnedBy = None /\ shares[x].holder = None
          /\ x \in Ids(next.share) /\ x # root
      BY <1>2, <1>10, <2>1, ShareFields
    <2>3. /\ shares[x].scope = scopes[s].parent /\ scopes[s].parent \in Ids(s)
          /\ scopes[scopes[s].parent].active
          /\ loans[scopes[s].parent].support = loans[s].support
      BY <1>1, <1>10, <2>1 DEF TreeInv, SafeInv, Structure, Reborrows, Pins
    <2>4. scopes[s].parent \in Ids(next.loan) /\ scopes[s].parent # s
      BY <2>3, LinkFacts DEF Ids
    <2>5. ~loans[scopes[s].parent].recovered BY <2>3, <2>4, ReadFacts
    <2>6. \A q, k : Reads(q, x, k)' <=> q = p /\ k = o
      BY <1>0, <1>1, <2>2, <2>3, <2>4, <2>5 DEF Reads, ValidAuthority
    <2>7. \A q, k : Reads(q, x, k) => q = None BY <2>2 DEF Reads, ValidAuthority
    <2>8. \A y \in Ids(next.share) : y # root /\ y # x => shares'[y] = shares[y]
      BY <1>2, <1>10, <2>1
    <2>9. Moved(p, o, {root}, {<<p, x>>})
      BY <1>4, <1>6, <1>7, <1>8, <2>2, <2>6, <2>7, <2>8 DEF Moved
    <2> QED BY <1>0, <1>5, <1>10, <2>1, <2>9
  <1> QED BY <1>9, <1>10

LEMMA QuietMoves ==
    ASSUME TreeInv, Quiet, NEW p, NEW o
    PROVE  Moved(p, o, {}, {})
  <1>1. \A q, x, k : Reads(q, x, k)' <=> Reads(q, x, k)
    BY ReadFacts DEF Reads, ValidAuthority, Quiet, SameScope, SameLoan
  <1> QED BY <1>1 DEF Moved

LEMMA RecoverMoves ==
    ASSUME TreeInv, NEW p, NEW l \in Ids(next.loan), Recover(p, l), NEW o
    PROVE  Moved(p, o, {}, {})
  <1>1. /\ loans' = [loans EXCEPT ![l].recovered = TRUE] /\ ~scopes[l].active
        /\ UNCHANGED <<scopes, shares, next>> /\ loans \in [Ids(next.loan) -> LoanRecord]
    BY DEF Recover, TreeInv, SafeInv, TypeInv, TypeOK
  <1>2. \A k \in Ids(next.loan) : /\ loans'[k].support = loans[k].support
                                  /\ k # l => loans'[k] = loans[k]
    BY <1>1 DEF LoanRecord
  <1>3. \A q, x, k : Reads(q, x, k)' <=> Reads(q, x, k)
    BY <1>1, <1>2, ReadFacts DEF Reads, ValidAuthority
  <1> QED BY <1>3 DEF Moved

----------------------------------------------------------------------------
(* Reader stability                                                        *)

\* A share keeps its scope, a loan its support and what it permits.
Kept == /\ \A x \in Ids(next.share) : /\ x \in Ids(next'.share)
                                      /\ shares'[x].scope = shares[x].scope
        /\ \A l \in Ids(next.loan) : /\ loans'[l].support = loans[l].support
                                     /\ loans[l].permitted \subseteq loans'[l].permitted

LEMMA QuietKeeps == ASSUME TreeInv, Quiet PROVE Kept
  BY DEF Quiet, SameLoan, Kept

LEMMA PassedMoves ==
    ASSUME TreeInv, NEW p \in Participant, Passed(p)
    PROVE  /\ Kept /\ UNCHANGED owner /\ next.loan <= next'.loan
           /\ \A l \in Ids(next.loan) : loans'[l] = loans[l]
           /\ \E o, Gone, Gained : /\ Moved(p, o, Gone, Gained) /\ Gone # {}
                                   /\ \E q \in Participant : \E x : <<q, x>> \in Gained
  <1> DEFINE Goal ==
         /\ Kept /\ UNCHANGED owner /\ next.loan <= next'.loan
         /\ \A l \in Ids(next.loan) : loans'[l] = loans[l]
         /\ \E o, Gone, Gained : /\ Moved(p, o, Gone, Gained) /\ Gone # {}
                                 /\ \E q \in Participant : \E x : <<q, x>> \in Gained
  <1>0. /\ p # None /\ \A b \in Participant : b # None BY ConstantAssumption
  <1>1. /\ next.share \in Nat /\ next.loan \in Nat
        /\ Ids(next.share) \subseteq Ids(next.share + 1)
        /\ Ids(next.share) \subseteq Ids(next.share + 2)
        /\ next.loan <= next.loan + 1 /\ next.loan <= next.loan
    BY LinkFacts DEF Ids
  <1>2. ASSUME NEW b \in Participant, NEW sh \in Ids(next.share),
               ValidAuthority(p, sh), ChildAdded(b, sh)
        PROVE  Goal
    <2>1. PICK o : Moved(p, o, {sh}, {<<b, next.share>>}) BY <1>0, <1>2, ChildMoves
    <2>2. shares'[sh].scope = shares[sh].scope BY <1>2, ShareFields DEF ChildAdded
    <2>3. Kept BY <1>1, <1>2, <2>2 DEF Kept, ChildAdded, NewRoot
    <2>4. UNCHANGED owner /\ \A l \in Ids(next.loan) : loans'[l] = loans[l]
      BY <1>2 DEF ChildAdded, NewRoot
    <2>5. next.loan <= next'.loan BY <1>1, <1>2 DEF ChildAdded, NewRoot
    <2> QED BY <2>1, <2>3, <2>4, <2>5
  <1>3. ASSUME NEW sh \in Ids(next.share), NEW lh \in Participant, NEW rh \in Participant,
               shares[sh].holder = p, SplitInto(sh, lh, rh)
        PROVE  Goal
    <2>1. PICK o : Moved(p, o, {sh}, {<<lh, next.share>>, <<rh, next.share + 1>>})
      BY <1>0, <1>3, SplitMoves
    <2>2. shares'[sh].scope = shares[sh].scope BY <1>3, ShareFields DEF SplitInto
    <2>3. Kept BY <1>1, <1>3, <2>2 DEF Kept, SplitInto
    <2>4. UNCHANGED <<owner, loans>> /\ next.loan <= next'.loan BY <1>1, <1>3 DEF SplitInto
    <2>5. <<lh, next.share>> \in {<<lh, next.share>>, <<rh, next.share + 1>>} OBVIOUS
    <2> QED BY <2>1, <2>3, <2>4, <2>5
  <1>4. ASSUME NEW sh \in Ids(next.share), NEW to \in Participant, Transfer(p, sh, to)
        PROVE  Goal
    <2>1. PICK o : Moved(p, o, {sh}, {<<to, sh>>}) BY <1>0, <1>4, TransferMoves
    <2>2. UNCHANGED <<owner, loans, next>> /\ shares' = [shares EXCEPT ![sh] = Held(sh, to)]
      BY <1>4 DEF Transfer
    <2>3. \A x \in Ids(next.share) : shares'[x].scope = shares[x].scope
      BY <2>2, LinkFacts, ShareFields
    <2>4. Kept BY <2>2, <2>3 DEF Kept
    <2> QED BY <1>1, <2>1, <2>2, <2>4
  <1>5. ASSUME NEW left, NEW right, NEW up, JoinedInto(p, left, right, up)
        PROVE  Goal
    <2>1. PICK o : Moved(p, o, {left, right}, {<<p, up>>}) BY <1>0, <1>5, JoinMoves
    <2>2. UNCHANGED <<owner, loans, next>> BY <1>5 DEF JoinedInto
    <2>3. \A x \in Ids(next.share) : shares'[x].scope = shares[x].scope
      BY <1>5, ShareFields DEF JoinedInto
    <2>4. Kept BY <2>2, <2>3 DEF Kept
    <2> QED BY <1>1, <2>1, <2>2, <2>4
  <1> HIDE DEF Goal
  <1>6. Goal BY <1>2, <1>3, <1>4, <1>5 DEF Passed
  <1> QED BY <1>6 DEF Goal

LEMMA StepMoves ==
    ASSUME TreeInv, NEW p \in Participant, Step(p)
    PROVE  Kept /\ \E o, Gone, Gained : Moved(p, o, Gone, Gained)
  <1> DEFINE Goal == Kept /\ \E o, Gone, Gained : Moved(p, o, Gone, Gained)
  <1>0. /\ p # None /\ \A b \in Participant : b # None BY ConstantAssumption
  <1>1. ASSUME NEW b \in Participant, NEW o \in Occurrence, Opened(p, b, o) PROVE Goal
    <2>1. RootAdded(b, o) /\ Ids(next.share) \subseteq Ids(next.share + 1)
      BY <1>1, LinkFacts DEF Opened, Ids
    <2>2. Kept BY <2>1 DEF Kept, RootAdded, NewRoot
    <2> QED BY <1>0, <2>1, <2>2, OpenedMoves
  <1>2. ASSUME Passed(p) PROVE Goal BY <1>2, PassedMoves
  <1>3. ASSUME NEW s \in Ids(next.loan), Ended(p, s) PROVE Goal
    <2>1. UNCHANGED <<next, loans>> BY <1>3 DEF Ended
    <2>2. \A x \in Ids(next.share) : shares'[x].scope = shares[x].scope
      BY <1>3, ShareFields DEF Ended
    <2>3. Kept BY <2>1, <2>2 DEF Kept
    <2> QED BY <1>0, <1>3, <2>3, EndMoves
  <1>4. ASSUME NEW l \in Ids(next.loan), Recover(p, l) PROVE Goal
    <2>1. /\ loans' = [loans EXCEPT ![l].recovered = TRUE]
          /\ UNCHANGED <<shares, next>> /\ loans \in [Ids(next.loan) -> LoanRecord]
      BY <1>4 DEF Recover, TreeInv, SafeInv, TypeInv, TypeOK
    <2>2. \A k \in Ids(next.loan) : /\ loans'[k].support = loans[k].support
                                    /\ loans[k].permitted \subseteq loans'[k].permitted
      BY <2>1 DEF LoanRecord
    <2>3. Kept BY <2>1, <2>2 DEF Kept
    <2> QED BY <1>4, <2>3, RecoverMoves
  <1>5. ASSUME Quiet PROVE Goal BY <1>5, QuietMoves, QuietKeeps
  <1> HIDE DEF Goal
  <1>6. Goal BY <1>1, <1>2, <1>3, <1>4, <1>5, StepEffect
  <1> QED BY <1>6 DEF Goal

\* Nobody but p loses a view in a step of p.
LEMMA AuthorityKept ==
    ASSUME NEW p, NEW o, NEW Gone, NEW Gained, Moved(p, o, Gone, Gained),
           NEW q, q # None, q # p, NEW sh, NEW k, Reads(q, sh, k)
    PROVE  Reads(q, sh, k)'
  <1>1. sh \notin Gone BY DEF Moved, Reads, ValidAuthority
  <1> QED BY <1>1 DEF Moved

\* No step of another participant (lend, split, join, transfer, reborrow, end,
\* recover, hold, release) and no projection takes a view away from a
\* participant that can read through it.
THEOREM ReadersAreStable == Spec => ReaderStability
  <1> DEFINE Stable(q) ==
        \A sh \in {s \in DOMAIN shares : ValidAuthority(q, s)} :
            \A o \in {loans[shares[sh].scope].support}, v \in Resource :
                Permits(shares[sh].scope, v) => CanRead(q, o, v)'
  <1>1. ASSUME TreeInv, TreeInv', Kept, NEW q \in Participant,
               \A sh, k : Reads(q, sh, k) => Reads(q, sh, k)'
        PROVE  Stable(q)
    <2>1. SUFFICES ASSUME NEW sh \in DOMAIN shares, ValidAuthority(q, sh),
                          NEW o, o = loans[shares[sh].scope].support,
                          NEW v \in Resource, Permits(shares[sh].scope, v)
                   PROVE  CanRead(q, o, v)'
      OBVIOUS
    <2>2. sh \in Ids(next.share) /\ shares[sh].scope \in Ids(next.loan)
      BY <1>1, <2>1, LinkFacts
    <2>3. Reads(q, sh, o)' BY <1>1, <2>1, <2>2 DEF Reads
    <2>4. sh \in DOMAIN shares'
      BY <1>1, <2>3 DEF Reads, TreeInv, SafeInv, TypeInv, TypeOK
    <2>5. \A l \in {shares[sh].scope} : Permits(l, v)'
      BY <1>1, <2>1, <2>2 DEF Permits, Kept
    <2>6. shares'[sh].scope = shares[sh].scope BY <1>1, <2>2 DEF Kept
    <2>7. ValidView(q, sh, v)' BY <2>3, <2>5, <2>6 DEF ValidView, Reads, Permits
    <2> QED BY <2>3, <2>4, <2>7 DEF CanRead, Reads
  <1> HIDE DEF Stable
  <1>2. ASSUME TreeInv, TreeInv', [Next]_vars, NEW q \in Participant
        PROVE  Stable(q) \/ Step(q) \/ UNCHANGED vars
    <2>0. q # None BY ConstantAssumption
    <2>1. ASSUME NEW p \in Participant, Step(p), p # q PROVE Stable(q)
      <3>1. Kept /\ \E o, Gone, Gained : Moved(p, o, Gone, Gained) BY <1>2, <2>1, StepMoves
      <3> QED BY <1>1, <1>2, <2>0, <2>1, <3>1, AuthorityKept
    <2>2. ASSUME NEW l \in DOMAIN loans, NEW c \in Resource, NEW child \in Resource,
                 Project(l, c, child)
          PROVE  Stable(q)
      <3>1. Quiet BY <1>2, <2>2, ProjectEffect
      <3>2. Kept /\ Moved(q, {}, {}, {}) BY <1>2, <3>1, QuietMoves, QuietKeeps
      <3>3. \A sh, k : Reads(q, sh, k) => Reads(q, sh, k)' BY <2>0, <3>2 DEF Moved
      <3> QED BY <1>1, <1>2, <3>2, <3>3
    <2> QED BY <1>2, <2>1, <2>2 DEF Next
  <1>3. TreeInv /\ TreeInv' /\ [Next]_vars =>
           [\A p \in Participant : \/ Stable(p)
                                   \/ Step(p)]_vars
    BY <1>2
  <1> QED BY <1>3, TreeInvariant, PTL DEF Spec, ReaderStability, Stable

----------------------------------------------------------------------------
(* The ledger implements StableViews                                       *)

\* The lender of an occurrence in escrow is the holder of that loan's right,
\* and its readers are the participants with a valid share over it.
Lenders ==
    \A o \in Owned :
        /\ owner[o] # None => Lender(o) = None
        /\ \A l \in Ids(next.loan) : Escrowed(loans[l]) /\ loans[l].support = o =>
              owner[o] = None /\ Lender(o) = loans[l].right

AllReaders == \A o \in Owned : Readers(o) = {q \in Participant : \E sh : Reads(q, sh, o)}

Views == TreeInv /\ Lenders /\ AllReaders

LEMMA ViewsHold == TreeInv => Views
  <1> SUFFICES ASSUME TreeInv PROVE Lenders /\ AllReaders BY DEF Views
  <1>1. DOMAIN loans = Ids(next.loan) /\ DOMAIN shares = Ids(next.share) /\ SafeInv
    BY DomainsOfMaps, LinkFacts DEF TreeInv
  <1>2. Lenders
    <2>1. \A o \in Owned : owner[o] # None => Lender(o) = None BY DEF Lender
    <2>2. ASSUME NEW o \in Owned, NEW l \in Ids(next.loan),
                 Escrowed(loans[l]), loans[l].support = o
          PROVE  owner[o] = None /\ Lender(o) = loans[l].right
      <3>1. /\ owner[o] = None
            /\ \A k \in Ids(next.loan) :
                 Escrowed(loans[k]) /\ loans[k].support = o => k = l
        BY <1>1, <2>2 DEF SafeInv, Escrow
      <3> DEFINE E(k) == /\ loans[k].support = o
                         /\ loans[k].origin = "Escrowed"
                         /\ ~loans[k].recovered
      <3>2. \A k \in DOMAIN loans : E(k) <=> k = l BY <1>1, <2>2, <3>1 DEF Escrowed
      <3>3. (CHOOSE k \in DOMAIN loans : E(k)) = l BY <1>1, <3>2
      <3>4. Lender(o) = loans[CHOOSE k \in DOMAIN loans : E(k)].right
        BY <3>1 DEF Lender
      <3> QED BY <3>1, <3>3, <3>4
    <2> QED BY <2>1, <2>2 DEF Lenders
  <1>3. AllReaders BY <1>1 DEF AllReaders, Readers, Reads
  <1> QED BY <1>2, <1>3

LEMMA OthersRead ==
    ASSUME Views, Views', NEW p, NEW o, NEW Gone, NEW Gained, Moved(p, o, Gone, Gained),
           NEW k \in Owned, k # o \/ (Gone = {} /\ Gained = {})
    PROVE  Readers(k)' = Readers(k)
  <1>1. \A q \in Participant : \A sh : Reads(q, sh, k)' <=> Reads(q, sh, k)
    <2>1. \A q \in Participant : q # None BY ConstantAssumption
    <2>2. k # o => \A sh \in Gone : \A q : ~Reads(q, sh, k)
      BY DEF Moved, Reads
    <2>3. \A q \in Participant : \A sh :
             Reads(q, sh, k)' <=> \/ Reads(q, sh, k) /\ sh \notin Gone
                                  \/ <<q, sh>> \in Gained /\ k = o
      BY <2>1 DEF Moved
    <2>4. CASE k # o BY <2>2, <2>3, <2>4
    <2>5. CASE Gone = {} /\ Gained = {} BY <2>3, <2>5
    <2> QED BY <2>4, <2>5
  <1>2. /\ Readers(k) = {q \in Participant : \E sh : Reads(q, sh, k)}
        /\ Readers(k)' = {q \in Participant : \E sh : Reads(q, sh, k)'}
    BY DEF Views, AllReaders
  <1> QED BY <1>1, <1>2

\* A lender stays while its escrow does.
LEMMA LenderKept ==
    ASSUME Views, Views', NEW k \in Owned, owner'[k] = owner[k],
           \A l \in Ids(next.loan) : loans[l].support = k /\ Escrowed(loans[l]) =>
               /\ l \in Ids(next'.loan) /\ loans'[l].support = k /\ Escrowed(loans'[l])
               /\ loans'[l].right = loans[l].right
    PROVE  Lender(k)' = Lender(k)
  <1>1. CASE owner[k] # None BY <1>1 DEF Views, Lenders
  <1>2. CASE owner[k] = None
    <2>1. PICK l \in Ids(next.loan) : Escrowed(loans[l]) /\ loans[l].support = k
      BY <1>2 DEF Views, TreeInv, SafeInv, Escrow
    <2>2. Lender(k) = loans[l].right BY <2>1 DEF Views, Lenders
    <2>3. Lender(k)' = loans'[l].right BY <2>1 DEF Views, Lenders
    <2> QED BY <2>1, <2>2, <2>3
  <1> QED BY <1>1, <1>2

\* The step of the promise as the steps of the ledger use it.
Same(k) == owner'[k] = owner[k] /\ Lender(k)' = Lender(k) /\ Readers(k)' = Readers(k)

LEMMA NothingSeen ==
    ASSUME Views, Views', \A k \in Owned : Same(k)
    PROVE  [Promise!Next]_(Promise!views)
  <1>1. owner' = owner
    BY DEF Same, Views, TreeInv, SafeInv, TypeInv, TypeOK
  <1> QED BY <1>1 DEF Promise!views, Same

LEMMA PassedRefines ==
    ASSUME Views, Views', NEW p \in Participant, Passed(p)
    PROVE  [Promise!Next]_(Promise!views)
  <1>1. /\ UNCHANGED owner /\ next.loan <= next'.loan
        /\ \A l \in Ids(next.loan) : loans'[l] = loans[l]
    BY PassedMoves DEF Views
  <1>2. PICK o, Gone, Gained : /\ Moved(p, o, Gone, Gained) /\ Gone # {}
                               /\ \E q \in Participant : \E x : <<q, x>> \in Gained
    BY PassedMoves DEF Views
  <1>3. Ids(next.loan) \subseteq Ids(next'.loan)
    BY <1>1, LinkFacts DEF Ids, Views, TreeInv, SafeInv, TypeInv, TypeOK
  <1>4. \A k \in Owned : Lender(k)' = Lender(k) BY <1>1, <1>3, LenderKept
  <1>5. \A k \in Owned : k # o => Same(k)
    BY <1>1, <1>2, <1>4, OthersRead DEF Same
  <1>6. CASE o \notin Owned BY <1>5, <1>6, NothingSeen
  <1>7. CASE o \in Owned
    <2>1. PICK R : R = Readers(o)' OBVIOUS
    <2>2. /\ Readers(o) = {q \in Participant : \E sh : Reads(q, sh, o)}
          /\ Readers(o)' = {q \in Participant : \E sh : Reads(q, sh, o)'}
      BY <1>7 DEF Views, AllReaders
    <2>3. p \in Readers(o) BY <1>2, <2>2 DEF Moved
    <2>4. R # {} /\ R \in SUBSET Participant
      BY <1>2, <2>1, <2>2, ConstantAssumption DEF Moved
    <2>5. Readers(o) \ {p} \subseteq R
      BY <1>2, <2>1, <2>2, AuthorityKept, ConstantAssumption
    <2>6. [k \in Owned |-> Readers(k)'] = [[k \in Owned |-> Readers(k)] EXCEPT ![o] = R]
      BY <1>5, <1>7, <2>1 DEF Same
    <2>7. Promise!Pass(o, p, R)
      BY <1>1, <1>4, <1>7, <2>3, <2>4, <2>5, <2>6 DEF Promise!Pass
    <2> QED BY <1>7, <2>4, <2>7 DEF Promise!Next
  <1> QED BY <1>6, <1>7

\* While a scope over an owned occurrence that has no parent is open and has no
\* dependencies, no other scope over the occurrence is open.
LEMMA OnlyOpen ==
    ASSUME SafeInv, NEW s \in Ids(next.loan), scopes[s].active, scopes[s].parent = None,
           scopes[s].dependencies = {}, loans[s].support \in Owned,
           NEW r \in Ids(next.loan), scopes[r].active, loans[r].support = loans[s].support
    PROVE  r = s
  <1> DEFINE T == {k \in Ids(next.loan) : /\ loans[k].support = loans[s].support
                                          /\ scopes[k].active /\ k # s}
  <1>1. SUFFICES ASSUME r # s PROVE FALSE OBVIOUS
  <1>2. T \in SUBSET Nat /\ T # {}
    <2>1. Ids(next.loan) \subseteq Nat BY DEF SafeInv, TypeInv, TypeOK, Ids
    <2>2. r \in T BY <1>1
    <2> QED BY <2>1, <2>2
  <1>3. PICK m \in T : \A k \in T : m <= k BY <1>2, SmallestOf
  <1>4. CASE scopes[m].parent = None
    <2>1. Escrowed(loans[m]) /\ Escrowed(loans[s])
      BY <1>3, <1>4 DEF SafeInv, Structure, Roots, OpenLoans, Escrowed
    <2> QED BY <1>3, <2>1 DEF SafeInv, Escrow
  <1>5. CASE scopes[m].parent # None
    <2>1. PICK up : up = scopes[m].parent OBVIOUS
    <2>2. /\ up \in Ids(m) /\ loans[up].support = loans[m].support /\ scopes[up].active
          /\ m \in scopes[up].dependencies
      BY <1>3, <1>5, <2>1 DEF SafeInv, Structure, Reborrows, Pins
    <2>3. up \in Ids(next.loan) /\ up < m /\ up \in Nat /\ m \in Nat
      BY <1>2, <1>3, <2>2 DEF SafeInv, TypeInv, TypeOK, Ids
    <2>4. up # s BY <2>2
    <2>5. up \in T BY <1>3, <2>2, <2>3, <2>4
    <2> QED BY <1>3, <2>3, <2>5
  <1> QED BY <1>4, <1>5

LEMMA EndedRefines ==
    ASSUME Views, Views', NEW p \in Participant, NEW s \in Ids(next.loan), Ended(p, s)
    PROVE  [Promise!Next]_(Promise!views)
  <1>0. p # None /\ TreeInv /\ TreeInv' /\ SafeInv
    BY ConstantAssumption DEF Views, TreeInv
  <1>1. /\ UNCHANGED <<owner, loans, next>> /\ scopes[s].active
        /\ scopes[s].closeRight = p /\ scopes[s].dependencies = {}
    BY DEF Ended
  <1>2. PICK o, root, pin : o = loans[s].support /\ root = scopes[s].root
                            /\ pin = scopes[s].parentShare
    OBVIOUS
  <1>3. \A k \in Owned : Lender(k)' = Lender(k) BY <1>1, LenderKept
  <1>4. /\ scopes[s].parent = None => Moved(p, o, {root}, {})
        /\ scopes[s].parent # None => Moved(p, o, {root}, {<<p, pin>>})
        /\ \A q, sh, k : Reads(q, sh, k) /\ q # None /\ shares[sh].scope = s =>
              sh = root /\ q = p
    BY <1>0, <1>2, EndMoves
  <1>5. \A k \in Owned : k # o => Same(k)
    BY <1>1, <1>3, <1>4, OthersRead DEF Same
  <1>6. CASE o \notin Owned BY <1>5, <1>6, NothingSeen
  <1>7. CASE o \in Owned
    <2>1. PICK R : R = Readers(o)' OBVIOUS
    <2>2. /\ Readers(o) = {q \in Participant : \E sh : Reads(q, sh, o)}
          /\ R = {q \in Participant : \E sh : Reads(q, sh, o)'}
      BY <1>7, <2>1 DEF Views, AllReaders
    <2>3. Reads(p, root, o) BY <1>4 DEF Moved
    <2>4. p \in Readers(o) BY <2>2, <2>3
    <2>5. [k \in Owned |-> Readers(k)'] = [[k \in Owned |-> Readers(k)] EXCEPT ![o] = R]
      BY <1>5, <1>7, <2>1 DEF Same
    <2>6. CASE scopes[s].parent # None
      <3>1. Moved(p, o, {root}, {<<p, pin>>}) BY <1>4, <2>6
      <3>2. Reads(p, pin, o)' BY <1>0, <3>1 DEF Moved
      <3>3. R # {} /\ R \in SUBSET Participant BY <2>2, <3>2
      <3>4. Readers(o) \ {p} \subseteq R
        BY <2>2, <3>1, AuthorityKept, ConstantAssumption
      <3>5. Promise!Pass(o, p, R)
        BY <1>1, <1>3, <1>7, <2>4, <2>5, <3>3, <3>4 DEF Promise!Pass
      <3> QED BY <1>7, <3>3, <3>5 DEF Promise!Next
    <2>7. CASE scopes[s].parent = None
      <3>1. Moved(p, o, {root}, {}) BY <1>4, <2>7
      <3>2. ASSUME NEW q \in Participant, NEW sh, Reads(q, sh, o)
            PROVE  sh = root /\ q = p
        <4>1. PICK l : l = shares[sh].scope OBVIOUS
        <4>2. l \in Ids(next.loan) /\ scopes[l].active /\ loans[l].support = o
          BY <1>0, <3>2, <4>1, ReadFacts DEF Reads, ValidAuthority
        <4>3. l = s BY <1>0, <1>1, <1>2, <1>7, <2>7, <4>2, OnlyOpen
        <4> QED BY <1>4, <3>2, <4>1, <4>3, ConstantAssumption
      <3>3. Readers(o) = {p} BY <2>2, <2>4, <3>2
      <3>4. R = {}
        <4>1. \A q \in Participant : \A sh : Reads(q, sh, o)' => Reads(q, sh, o) /\ sh # root
          BY <3>1, ConstantAssumption DEF Moved
        <4> QED BY <2>2, <3>2, <4>1
      <3>5. Lender(o) = p
        <4>1. Escrowed(loans[s])
          BY <1>0, <1>1, <1>2, <1>7, <2>7 DEF SafeInv, Structure, Roots, OpenLoans, Escrowed
        <4>2. loans[s].right = p BY <1>0, <1>1, <2>7 DEF TreeInv, Trees, Rights
        <4> QED BY <1>2, <1>7, <4>1, <4>2 DEF Views, Lenders
      <3>6. Promise!Close(o, p)
        BY <1>1, <1>3, <1>7, <2>5, <3>3, <3>4, <3>5 DEF Promise!Close
      <3> QED BY <1>7, <3>6 DEF Promise!Next
    <2> QED BY <2>6, <2>7
  <1> QED BY <1>6, <1>7

LEMMA OpenedRefines ==
    ASSUME Views, Views', NEW p \in Participant, NEW b \in Participant,
           NEW o \in Occurrence, Opened(p, b, o)
    PROVE  [Promise!Next]_(Promise!views)
  <1>0. p # None /\ b # None /\ TreeInv /\ SafeInv
        /\ next.loan \in Nat /\ owner \in [Owned -> Option(Participant)]
    BY ConstantAssumption, LinkFacts DEF Views, TreeInv, SafeInv, TypeInv, TypeOK
  <1>1. RootAdded(b, o) /\ Moved(p, o, {}, {<<b, next.share>>})
    BY <1>0, OpenedMoves DEF Opened
  <1>2. /\ next'.loan = next.loan + 1 /\ loans'[next.loan].support = o
        /\ \A l \in Ids(next.loan) : loans'[l] = loans[l]
        /\ ~loans'[next.loan].recovered
    BY <1>1 DEF RootAdded, NewRoot
  <1>3. Ids(next.loan) \subseteq Ids(next'.loan) /\ next.loan \in Ids(next'.loan)
    BY <1>0, <1>2 DEF Ids
  <1>4. \A k \in Owned : k # o => owner'[k] = owner[k] BY <1>0 DEF Opened
  <1>5. \A k \in Owned : k # o => Lender(k)' = Lender(k) BY <1>2, <1>3, <1>4, LenderKept
  <1>6. \A k \in Owned : k # o => Same(k) BY <1>1, <1>4, <1>5, OthersRead DEF Same
  <1>7. CASE o \notin Owned BY <1>6, <1>7, NothingSeen
  <1>8. CASE o \in Owned
    <2>1. /\ owner[o] = p /\ owner' = [owner EXCEPT ![o] = None]
          /\ loans'[next.loan].right = p /\ loans'[next.loan].origin = "Escrowed"
      BY <1>8 DEF Opened
    <2>2. Lender(o)' = p
      BY <1>2, <1>3, <1>8, <2>1 DEF Views, Lenders, Escrowed
    <2>3. Readers(o)' = {b}
      <3>1. \A q \in Participant : \A sh : ~Reads(q, sh, o)
        BY <1>0, <1>8, <2>1, OpenScopeKeepsEscrow, ReadFacts DEF Reads, ValidAuthority
      <3>2. /\ \A q \in Participant : \A sh : Reads(q, sh, o)' => q = b
            /\ \A sh \in {next.share} : Reads(b, sh, o)'
        BY <1>0, <1>1, <3>1, ConstantAssumption DEF Moved
      <3>3. Readers(o)' = {q \in Participant : \E sh : Reads(q, sh, o)'}
        BY <1>8 DEF Views, AllReaders
      <3> QED BY <3>2, <3>3
    <2>4. /\ [k \in Owned |-> Readers(k)'] = [[k \in Owned |-> Readers(k)] EXCEPT ![o] = {b}]
          /\ [k \in Owned |-> Lender(k)'] = [[k \in Owned |-> Lender(k)] EXCEPT ![o] = p]
      BY <1>6, <1>8, <2>2, <2>3 DEF Same
    <2>5. Promise!Lend(o, p, b) BY <2>1, <2>4 DEF Promise!Lend
    <2> QED BY <1>8, <2>5 DEF Promise!Next
  <1> QED BY <1>7, <1>8

LEMMA RecoverRefines ==
    ASSUME Views, Views', NEW p \in Participant, NEW l \in Ids(next.loan), Recover(p, l)
    PROVE  [Promise!Next]_(Promise!views)
  <1>0. p # None /\ TreeInv /\ SafeInv /\ owner \in [Owned -> Option(Participant)]
        /\ loans \in [Ids(next.loan) -> LoanRecord]
    BY ConstantAssumption DEF Views, TreeInv, SafeInv, TypeInv, TypeOK
  <1>1. PICK o : o = loans[l].support OBVIOUS
  <1>2. /\ Escrowed(loans[l]) /\ loans[l].right = p /\ ~scopes[l].active
        /\ loans' = [loans EXCEPT ![l].recovered = TRUE]
        /\ owner' = [owner EXCEPT ![o] = p] /\ UNCHANGED <<scopes, shares, next>>
    BY <1>1 DEF Recover, Escrowed
  <1>3. o \in Owned /\ owner[o] = None BY <1>0, <1>1, <1>2 DEF SafeInv, Escrow
  <1>4. Moved(p, o, {}, {}) BY <1>0, RecoverMoves
  <1>5. \A k \in Owned : Readers(k)' = Readers(k) BY <1>4, OthersRead
  <1>6. ASSUME NEW k \in Owned, k # o PROVE owner'[k] = owner[k] /\ Lender(k)' = Lender(k)
    <2>1. owner'[k] = owner[k] BY <1>0, <1>2, <1>6
    <2>2. \A r \in Ids(next.loan) : loans[r].support = k => loans'[r] = loans[r]
      BY <1>0, <1>1, <1>2, <1>6
    <2> QED BY <1>2, <2>1, <2>2, LenderKept
  <1>7. Lender(o) = p BY <1>1, <1>2, <1>3 DEF Views, Lenders
  <1>8. Lender(o)' = None
    <2>1. owner'[o] # None BY <1>0, <1>2, <1>3
    <2> QED BY <1>3, <2>1 DEF Views, Lenders
  <1>9. Readers(o) = {}
    <2>1. ASSUME NEW q \in Participant, NEW sh, Reads(q, sh, o) PROVE FALSE
      <3>1. PICK r : r = shares[sh].scope OBVIOUS
      <3>2. r \in Ids(next.loan) /\ scopes[r].active /\ loans[r].support = o
        BY <1>0, <2>1, <3>1, ReadFacts DEF Reads, ValidAuthority
      <3>3. PICK m \in Ids(next.loan) : /\ scopes[m].active /\ scopes[m].parent = None
                                        /\ loans[m].support = o
        BY <1>0, <3>2, OpenRootOf
      <3>4. Escrowed(loans[m])
        BY <1>0, <1>3, <3>3 DEF SafeInv, Structure, Roots, OpenLoans, Escrowed
      <3>5. m = l BY <1>0, <1>1, <1>2, <3>3, <3>4 DEF SafeInv, Escrow
      <3> QED BY <1>2, <3>3, <3>5
    <2> QED BY <1>3, <2>1 DEF Views, AllReaders
  <1>10. [k \in Owned |-> Lender(k)'] = [[k \in Owned |-> Lender(k)] EXCEPT ![o] = None]
    BY <1>3, <1>6, <1>8
  <1>11. Promise!Recover(o, p)
    BY <1>2, <1>3, <1>5, <1>7, <1>9, <1>10 DEF Promise!Recover
  <1> QED BY <1>3, <1>11 DEF Promise!Next

LEMMA QuietRefines ==
    ASSUME Views, Views', Quiet
    PROVE  [Promise!Next]_(Promise!views)
  <1>1. Moved({}, {}, {}, {}) BY QuietMoves DEF Views
  <1>2. \A k \in Owned : Readers(k)' = Readers(k) BY <1>1, OthersRead
  <1>3. \A k \in Owned : Lender(k)' = Lender(k)
    BY LenderKept DEF Quiet, SameLoan, Escrowed
  <1> QED BY <1>2, <1>3, NothingSeen DEF Same, Quiet

LEMMA ViewsInit == Init => Promise!Init
  <1> SUFFICES ASSUME Init PROVE Promise!Init OBVIOUS
  <1>1. owner \in [Owned -> Participant] /\ DOMAIN shares = {} BY DEF Init, EmptyMap
  <1>2. \A o \in Owned : Lender(o) = None BY <1>1, ConstantAssumption DEF Lender
  <1>3. \A o \in Owned : Readers(o) = {} BY <1>1 DEF Readers
  <1> QED BY <1>1, <1>2, <1>3 DEF Promise!Init

\* The loan ledger implements stable views: lend, the moves of shares, end and
\* recover map to the four steps of the promise, and every other transition,
\* those on borrowed inputs and local storage too, changes none of them.
THEOREM LedgerImplementsStableViews == Spec => ImplementsStableViews
  <1>1. ASSUME Views, Views', [Next]_vars
        PROVE  [Promise!Next]_(Promise!views)
    <2> DEFINE Goal == [Promise!Next]_(Promise!views)
    <2>0. TreeInv BY <1>1 DEF Views
    <2>1. ASSUME NEW p \in Participant, Step(p) PROVE Goal
      <3>1. ASSUME NEW b \in Participant, NEW o \in Occurrence, Opened(p, b, o) PROVE Goal
        BY <1>1, <3>1, OpenedRefines
      <3>2. ASSUME Passed(p) PROVE Goal BY <1>1, <3>2, PassedRefines
      <3>3. ASSUME NEW s \in Ids(next.loan), Ended(p, s) PROVE Goal
        BY <1>1, <3>3, EndedRefines
      <3>4. ASSUME NEW l \in Ids(next.loan), Recover(p, l) PROVE Goal
        BY <1>1, <3>4, RecoverRefines
      <3>5. ASSUME Quiet PROVE Goal BY <1>1, <3>5, QuietRefines
      <3> HIDE DEF Goal
      <3> QED BY <2>0, <2>1, <3>1, <3>2, <3>3, <3>4, <3>5, StepEffect
    <2>2. ASSUME NEW l \in DOMAIN loans, NEW c \in Resource, NEW child \in Resource,
                 Project(l, c, child)
          PROVE  Goal
      BY <1>1, <2>0, <2>2, ProjectEffect, QuietRefines
    <2>3. ASSUME UNCHANGED vars PROVE Goal
      BY <1>1, <2>3, QuietRefines DEF vars, Quiet, SameScope, SameLoan
    <2> HIDE DEF Goal
    <2>4. Goal BY <1>1, <2>1, <2>2, <2>3 DEF Next
    <2> QED BY <2>4 DEF Goal
  <1> QED BY <1>1, ViewsInit, ViewsHold, TreeInvariant, PTL
          DEF Spec, ImplementsStableViews, Promise!Spec
=============================================================================
