----------------------------- MODULE LoanLedger -----------------------------
(***************************************************************************)
(* The loan ledger of the kernel (src/kernel/loans.rs): who may read a     *)
(* resource whose owner has lent it, and when the owner gets it back.      *)
(*                                                                         *)
(* A loan is opened together with a scope and a root share.  A share can   *)
(* be split, passed on and joined again; a share can be pinned under a     *)
(* reborrowed child scope; a hold keeps a scope from ending.  The holder   *)
(* of the close right may end the scope once the whole root share is back, *)
(* and the lender of an escrowed owner may then recover it, once.          *)
(*                                                                         *)
(* One behaviour is one path of the persistent ledger: every action is one *)
(* checked transition, issued and applied to its predecessor.  Scope and   *)
(* loan ordinals advance together in every opening, so one ordinal names   *)
(* the loan and its scope.  A binding (loan, scope, share, support) is     *)
(* named by its share, which determines the rest.                          *)
(***************************************************************************)
EXTENDS Integers, FiniteSets

CONSTANTS
    Participant,    \* the LoanParticipantIds of this arena
    Resource,       \* spellings of resources (CResource)
    Kind,           \* Resource -> "memory", "token", "composite" or "mutex"
    Frontier,       \* Resource -> the one-level expansion of a composite
    Covers,         \* pairs <<a, v>>: a view of a satisfies a view of v
    Overlaps,       \* pairs of memory ranges proven to share a byte
    Concrete,       \* memory ranges the interval index can be asked about
    Indexed,        \* memory ranges the interval index stores
    LocalBlock,     \* memory ranges that lie in a function-local block
    Owned,          \* occurrences of owned resources
    Input,          \* occurrences of views a contract receives
    LocalView,      \* occurrences of implicit views of local storage
    Head,           \* occurrence -> the resource it is an occurrence of
    MaxLoans, MaxShares, MaxHolds,   \* bounds on the identity counters
    None            \* Option::None

Occurrence == Owned \cup Input \cup LocalView
Kinds == {"memory", "token", "composite", "mutex"}
Memory == {r \in Resource : Kind[r] = "memory"}

ASSUME ConstantAssumption ==
    /\ Owned \cap Input = {} /\ Owned \cap LocalView = {}
    /\ Input \cap LocalView = {}
    /\ None \notin Nat /\ None \notin Nat \X Nat
    /\ None \notin Participant /\ None \notin Resource
    /\ IsFiniteSet(Resource)
    /\ Kind \in [Resource -> Kinds]
    /\ Frontier \in [Resource -> SUBSET Resource]
    /\ Head \in [Occurrence -> Resource]
    /\ \A o \in LocalView : Kind[Head[o]] = "memory"
    /\ Indexed \subseteq Concrete /\ Concrete \subseteq Memory
    /\ LocalBlock \subseteq Memory
    /\ MaxLoans \in Nat /\ MaxShares \in Nat /\ MaxHolds \in Nat

\* Covering is reflexive on memory and relates only resources of one kind; a
\* range that overlaps a covered range overlaps the covering one; a symbolic
\* range of an input never overlaps a local block.
ASSUME FootprintAssumption ==
    /\ \A a, v \in Resource : <<a, v>> \in Covers => Kind[a] = Kind[v]
    /\ \A a \in Resource : <<a, a>> \in Covers
    /\ \A q, a, v \in Resource :
          <<a, v>> \in Covers /\ <<q, v>> \in Overlaps => <<q, a>> \in Overlaps
    /\ \A q, r \in Resource :
          <<q, r>> \in Overlaps /\ r \in LocalBlock => q \in LocalBlock

VARIABLES
    scopes,     \* LoanScopeRecords by ordinal
    loans,      \* LoanRecords by ordinal
    shares,     \* LoanShareRecords by ordinal
    holds,      \* live holds by ordinal: scope and who placed it
    next,       \* next_scope = next_loan, next_share, next_hold
    index,      \* active_memory_index/_subtree: <<range, loan>> pairs
    unindexed,  \* unindexed_memory: <<range, loan>> pairs
    count,      \* active_memory_loans, active_nonlocal_indexed_ranges
    owner       \* resource contexts: who has each owned occurrence, or None

vars == <<scopes, loans, shares, holds, next, index, unindexed, count, owner>>

----------------------------------------------------------------------------
(* Persistent maps and the records they hold                               *)

EmptyMap == [x \in {} |-> x]

WithInserted(f, k, v) ==
    [x \in DOMAIN f \cup {k} |-> IF x = k THEN v ELSE f[x]]

WithoutKey(f, k) == [x \in DOMAIN f \ {k} |-> f[x]]

Ids(n) == 0 .. (n - 1)

Option(S) == S \cup {None}

ScopeRecord ==
    [root : Nat, closeRight : Option(Participant), active : BOOLEAN,
     parent : Option(Nat), parentShare : Option(Nat),
     dependencies : SUBSET Nat, holds : SUBSET Nat]

Origins == {"Escrowed", "LocalStorage", "Reborrowed", "BorrowedContractInput"}

LoanRecord ==
    [support : Occurrence, head : Option(Resource),
     permitted : SUBSET Resource, backing : SUBSET Memory,
     mutexRoot : Option(Nat), origin : Origins, right : Option(Participant),
     recovered : BOOLEAN]

ShareRecord ==
    [scope : Nat, parent : Option(Nat), children : Option(Nat \X Nat),
     holder : Option(Participant), pinnedBy : Option(Nat)]

RootShare(s, p) ==
    [scope |-> s, parent |-> None, children |-> None, holder |-> p,
     pinnedBy |-> None]

\* The record of sh with other children, holder and pin.
ShareAs(sh, children, holder, pinnedBy) ==
    [scope |-> shares[sh].scope, parent |-> shares[sh].parent,
     children |-> children, holder |-> holder, pinnedBy |-> pinnedBy]

Held(sh, p) == ShareAs(sh, shares[sh].children, p, shares[sh].pinnedBy)

\* The identity counters after an opening, a split or a hold.
Advance(l, n, h) ==
    next' = [loan |-> next.loan + l, share |-> next.share + n,
             hold |-> next.hold + h]

NewScope(closeRight, parent, parentShare) ==
    [root |-> next.share, closeRight |-> closeRight, active |-> TRUE,
     parent |-> parent, parentShare |-> parentShare,
     dependencies |-> {}, holds |-> {}]

----------------------------------------------------------------------------
(* The barriers that refuse writes to viewed memory                        *)

LoanProtectsMemory(backing, permitted) ==
    backing # {} \/ \E r \in permitted : Kind[r] = "composite"

SymbolicRanges(ranges) == ranges \ Indexed

\* The number of ranges the index counts as non-local.
Nonlocal(ranges) == Cardinality((ranges \cap Indexed) \ LocalBlock)

\* Mistake: counts only the loans whose bytes were enumerated.
RegisterCountingBytes(l, backing, permitted, entersSymbolic) ==
    /\ index' = index \cup ((backing \cap Indexed) \X {l})
    /\ unindexed' = IF entersSymbolic
                    THEN unindexed \cup (SymbolicRanges(backing) \X {l})
                    ELSE unindexed
    /\ count' = [loans |-> count.loans + IF backing # {} THEN 1 ELSE 0,
                 nonlocal |-> count.nonlocal + Nonlocal(backing)]

\* An opening registers the ranges of its loan.  A reborrow does not enter
\* its symbolic ranges: the parent's entry stays while the share is pinned.
Register(l, backing, permitted, entersSymbolic) ==
    /\ index' = index \cup ((backing \cap Indexed) \X {l})
    /\ unindexed' = IF entersSymbolic
                    THEN unindexed \cup (SymbolicRanges(backing) \X {l})
                    ELSE unindexed
    /\ count' = [loans |-> count.loans +
                             IF LoanProtectsMemory(backing, permitted) THEN 1 ELSE 0,
                 nonlocal |-> count.nonlocal + Nonlocal(backing)]

\* Mistake: takes the ranges off the barrier without looking at whose they are.
UnregisterRanges(l) ==
    LET backing == loans[l].backing
        protects == LoanProtectsMemory(backing, loans[l].permitted)
    IN  /\ unindexed' = {e \in unindexed : e[1] \notin backing}
        /\ index' = {e \in index : e[1] \notin backing}
        /\ count' = [loans |-> IF protects THEN count.loans - 1 ELSE count.loans,
                     nonlocal |-> count.nonlocal - Nonlocal(backing)]

Unregister(l) ==
    LET backing == loans[l].backing
        protects == LoanProtectsMemory(backing, loans[l].permitted)
    IN  /\ unindexed' = unindexed \ (SymbolicRanges(backing) \X {l})
        /\ index' = index \ ((backing \cap Indexed) \X {l})
        /\ protects => count.loans > 0
        /\ count.nonlocal >= Nonlocal(backing)
        /\ count' = [loans |-> IF protects THEN count.loans - 1 ELSE count.loans,
                     nonlocal |-> count.nonlocal - Nonlocal(backing)]

\* Whether a write, free or havoc of the range q is compatible with every
\* active loan.  A query the index cannot answer is refused while an indexed
\* loan might alias it.
PermitsMemoryAccess(q) ==
    /\ index # {} =>
          IF q \in Concrete
          THEN \A e \in index : <<q, e[1]>> \notin Overlaps
          ELSE q \notin LocalBlock /\ count.nonlocal = 0 /\ unindexed = {}
    /\ \A e \in unindexed : <<q, e[1]>> \notin Overlaps

----------------------------------------------------------------------------
(* Checked bindings                                                        *)

\* p holds the live, unpinned share sh of an open scope.
ValidAuthority(p, sh) ==
    /\ shares[sh].holder = p
    /\ shares[sh].pinnedBy = None
    /\ scopes[shares[sh].scope].active
    /\ ~loans[shares[sh].scope].recovered

Permits(l, v) == \E r \in loans[l].permitted : <<r, v>> \in Covers

\* p may read v through sh.
ValidView(p, sh, v) == ValidAuthority(p, sh) /\ Permits(shares[sh].scope, v)

\* p may use the mutex the loan of sh was opened on: the loan at the root of
\* its reborrows is an open, unrecovered mutex loan.
ValidMutexUse(p, sh) ==
    LET l == shares[sh].scope
        root == loans[l].mutexRoot
    IN  /\ ValidAuthority(p, sh)
        /\ root # None
        /\ loans[l].permitted = {} /\ loans[l].backing = {}
        /\ loans[root].mutexRoot = root
        /\ loans[root].support = loans[l].support
        /\ ~loans[root].recovered
        /\ scopes[root].active

----------------------------------------------------------------------------
(* Openings                                                                *)

Fresh == next.loan < MaxLoans /\ next.share < MaxShares

\* Scope, loan and root share of a loan that has no parent.
OpenRoot(b, closeRight, o, head, permitted, backing, mutexRoot, origin) ==
    /\ Fresh
    /\ scopes' = WithInserted(scopes, next.loan, NewScope(closeRight, None, None))
    /\ loans' = WithInserted(loans, next.loan,
                  [support |-> o, head |-> head, permitted |-> permitted,
                   backing |-> backing, mutexRoot |-> mutexRoot,
                   origin |-> origin, right |-> closeRight,
                   recovered |-> FALSE])
    /\ shares' = WithInserted(shares, next.share, RootShare(next.loan, b))
    /\ Register(next.loan, backing, permitted, TRUE)
    /\ Advance(1, 1, 0)
    /\ UNCHANGED holds

\* lend: the lender's own memory range or token leaves its context.
Lend(p, b, o) ==
    LET r == Head[o] IN
    /\ owner[o] = p
    /\ Kind[r] \in {"memory", "token"}
    /\ OpenRoot(b, p, o, r, {r}, IF Kind[r] = "memory" THEN {r} ELSE {},
                None, "Escrowed")
    /\ owner' = [owner EXCEPT ![o] = None]

\* lend_mutex_use: lends the use of a mutex, not a view of its state.
LendMutexUse(p, b, o) ==
    /\ owner[o] = p
    /\ Kind[Head[o]] = "mutex"
    /\ OpenRoot(b, p, o, None, {}, {}, next.loan, "Escrowed")
    /\ owner' = [owner EXCEPT ![o] = None]

\* lend_composite: the head with the frontier its body was checked against.
LendComposite(p, b, o) ==
    LET r == Head[o] IN
    /\ owner[o] = p
    /\ Kind[r] = "composite"
    /\ OpenRoot(b, p, o, r, {r} \cup Frontier[r], Frontier[r] \cap Memory,
                None, "Escrowed")
    /\ owner' = [owner EXCEPT ![o] = None]

\* An input of the contract is opened once, at entry.
Unopened(o) == \A l \in DOMAIN loans : loans[l].support # o

\* borrowed_contract_input: the unknown caller keeps close and recovery right.
BorrowedContractInput(h, o) ==
    LET r == Head[o] IN
    /\ o \in Input /\ Unopened(o)
    /\ Kind[r] # "mutex"
    /\ OpenRoot(h, None, o, r, {r} \cup Frontier[r],
                ({r} \cup Frontier[r]) \cap Memory,
                None, "BorrowedContractInput")
    /\ UNCHANGED owner

BorrowedMutexUse(h, o) ==
    /\ o \in Input /\ Unopened(o)
    /\ Kind[Head[o]] = "mutex"
    /\ OpenRoot(h, None, o, None, {}, {}, next.loan, "BorrowedContractInput")
    /\ UNCHANGED owner

\* The implicit view of the lender's local storage that a call or the first
\* worker needs.  It has a close right and nothing to recover.
OpenLocalView(p, b, o) ==
    /\ o \in LocalView
    /\ PermitsMemoryAccess(Head[o])
    /\ OpenRoot(b, p, o, Head[o], {Head[o]}, {Head[o]}, None, "LocalStorage")
    /\ UNCHANGED owner

\* The byte backing a reborrow of the view v narrows to.
ReborrowedBacking(parent, v) ==
    IF v \in Memory THEN {v} ELSE IF parent.head = v THEN parent.backing ELSE {}

\* Opens a child scope under sh, which is pinned until the child ends.
OpenChild(p, b, sh, head, permitted, backing, mutexRoot) ==
    LET s == next.loan
        up == shares[sh].scope
    IN  /\ Fresh
        /\ scopes' = WithInserted([scopes EXCEPT ![up].dependencies = @ \cup {s}],
                                  s, NewScope(p, up, sh))
        /\ shares' = WithInserted(
                       [shares EXCEPT ![sh] = ShareAs(sh, @.children, None, s)],
                       next.share, RootShare(s, b))
        /\ loans' = WithInserted(loans, s,
                      [support |-> loans[up].support, head |-> head,
                       permitted |-> permitted, backing |-> backing,
                       mutexRoot |-> mutexRoot, origin |-> "Reborrowed",
                       right |-> None, recovered |-> FALSE])
        /\ Register(s, backing, permitted, FALSE)
        /\ Advance(1, 1, 0)
        /\ UNCHANGED <<holds, owner>>

Reborrow(p, b, sh, v) ==
    /\ ValidView(p, sh, v)
    /\ OpenChild(p, b, sh, v, {v},
                 ReborrowedBacking(loans[shares[sh].scope], v), None)

\* Mistake: the child names the loan above it as the root of its mutex use.
ReborrowMutexUseOfParent(p, b, sh) ==
    /\ ValidMutexUse(p, sh)
    /\ OpenChild(p, b, sh, None, {}, {}, shares[sh].scope)

ReborrowMutexUse(p, b, sh) ==
    /\ ValidMutexUse(p, sh)
    /\ OpenChild(p, b, sh, None, {}, {}, loans[shares[sh].scope].mutexRoot)

\* project: a checked expansion of a permitted composite adds a description.
Project(l, c, child) ==
    /\ scopes[l].active /\ ~loans[l].recovered
    /\ Kind[c] = "composite" /\ Permits(l, c)
    /\ child \in Frontier[c]
    /\ child \notin loans[l].permitted
    /\ loans' = [loans EXCEPT ![l].permitted = @ \cup {child}]
    /\ UNCHANGED <<scopes, shares, holds, next, index, unindexed, count, owner>>

----------------------------------------------------------------------------
(* Shares                                                                  *)

Split(p, sh, lh, rh) ==
    LET left == next.share
        right == next.share + 1
        Child(h) == [scope |-> shares[sh].scope, parent |-> sh,
                     children |-> None, holder |-> h, pinnedBy |-> None]
    IN  /\ shares[sh].holder = p
        /\ scopes[shares[sh].scope].active
        /\ right < MaxShares
        /\ shares' = WithInserted(WithInserted(
                       [shares EXCEPT ![sh] =
                           ShareAs(sh, <<left, right>>, None, @.pinnedBy)],
                       left, Child(lh)), right, Child(rh))
        /\ Advance(0, 2, 0)
        /\ UNCHANGED <<scopes, loans, holds, index, unindexed, count, owner>>

Transfer(p, sh, to) ==
    /\ shares[sh].holder = p
    /\ shares' = [shares EXCEPT ![sh] = Held(sh, to)]
    /\ UNCHANGED <<scopes, loans, holds, next, index, unindexed, count, owner>>

\* Mistake: joins a pair without checking that it is the current split.
JoinOfOneParent(p, left, right) ==
    LET up == shares[left].parent IN
    /\ shares[left].holder = p /\ shares[right].holder = p
    /\ shares[left].scope = shares[right].scope
    /\ up # None /\ shares[right].parent = up
    /\ shares' = [shares EXCEPT ![left] = Held(left, None),
                                ![right] = Held(right, None),
                                ![up] = Held(up, p)]
    /\ UNCHANGED <<scopes, loans, holds, next, index, unindexed, count, owner>>

\* Only the exact pair a split made can be joined, by one holder of both.
Join(p, left, right) ==
    LET up == shares[left].parent IN
    /\ shares[left].holder = p /\ shares[right].holder = p
    /\ shares[left].scope = shares[right].scope
    /\ up # None /\ shares[right].parent = up
    /\ shares[up].children = <<left, right>>
    /\ shares' = [shares EXCEPT ![left] = Held(left, None),
                                ![right] = Held(right, None),
                                ![up] = Held(up, p)]
    /\ UNCHANGED <<scopes, loans, holds, next, index, unindexed, count, owner>>

----------------------------------------------------------------------------
(* Holds, the end of a scope and recovery                                  *)

\* Mistake: the ordinal of the hold is not used up.
HoldReusingOrdinal(p, sh) ==
    LET s == shares[sh].scope IN
    /\ next.hold < MaxHolds
    /\ ValidAuthority(p, sh)
    /\ holds' = WithInserted(holds, next.hold, [scope |-> s, by |-> p])
    /\ scopes' = [scopes EXCEPT ![s].holds = @ \cup {next.hold}]
    /\ UNCHANGED <<loans, shares, next, index, unindexed, count, owner>>

\* A folded borrowing composite holds a view, a mutex guard holds a use.
Hold(p, sh) ==
    LET s == shares[sh].scope IN
    /\ next.hold < MaxHolds
    /\ ValidAuthority(p, sh)
    /\ loans[s].mutexRoot # None => ValidMutexUse(p, sh)
    /\ holds' = WithInserted(holds, next.hold, [scope |-> s, by |-> p])
    /\ scopes' = [scopes EXCEPT ![s].holds = @ \cup {next.hold}]
    /\ Advance(0, 0, 1)
    /\ UNCHANGED <<loans, shares, index, unindexed, count, owner>>

Release(p, h) ==
    /\ holds[h].by = p
    /\ holds' = WithoutKey(holds, h)
    /\ scopes' = [scopes EXCEPT ![holds[h].scope].holds = @ \ {h}]
    /\ UNCHANGED <<loans, shares, next, index, unindexed, count, owner>>

\* Mistakes: the end does not ask for holds, or not for the whole root share.
ScopeCanEndDespiteHolds(p, s) ==
    /\ scopes[s].active
    /\ scopes[s].closeRight = p
    /\ scopes[s].dependencies = {}
    /\ shares[scopes[s].root].holder = p

ScopeCanEndWithoutRoot(p, s) ==
    /\ scopes[s].active
    /\ scopes[s].closeRight = p
    /\ scopes[s].dependencies = {}
    /\ scopes[s].holds = {}

ScopeCanEnd(p, s) ==
    /\ scopes[s].active
    /\ scopes[s].closeRight = p
    /\ scopes[s].dependencies = {}
    /\ scopes[s].holds = {}
    /\ shares[scopes[s].root].holder = p

\* Mistakes: the scope above keeps its dependency, or its share stays pinned.
EndKeepingDependency(p, s) ==
    LET pin == scopes[s].parentShare
        closed == [shares EXCEPT ![scopes[s].root] = Held(scopes[s].root, None)]
    IN  /\ ScopeCanEnd(p, s)
        /\ Unregister(s)
        /\ scopes' = [scopes EXCEPT ![s].active = FALSE]
        /\ shares' = IF pin = None THEN closed
                     ELSE [closed EXCEPT ![pin] =
                              ShareAs(pin, @.children, p, None)]
        /\ UNCHANGED <<loans, holds, next, owner>>

EndKeepingPin(p, s) ==
    LET up == scopes[s].parent
        ended == [scopes EXCEPT ![s].active = FALSE]
    IN  /\ ScopeCanEnd(p, s)
        /\ Unregister(s)
        /\ scopes' = IF up = None THEN ended
                     ELSE [ended EXCEPT ![up].dependencies = @ \ {s}]
        /\ shares' = [shares EXCEPT ![scopes[s].root] = Held(scopes[s].root, None)]
        /\ UNCHANGED <<loans, holds, next, owner>>

End(p, s) ==
    LET up == scopes[s].parent
        pin == scopes[s].parentShare
        closed == [shares EXCEPT ![scopes[s].root] = Held(scopes[s].root, None)]
        ended == [scopes EXCEPT ![s].active = FALSE]
    IN  /\ ScopeCanEnd(p, s)
        /\ Unregister(s)
        /\ \/ /\ up = None
              /\ scopes' = ended
              /\ shares' = closed
           \/ /\ up # None
              /\ shares[pin].pinnedBy = s /\ shares[pin].holder = None
              /\ scopes' = [ended EXCEPT ![up].dependencies = @ \ {s}]
              /\ shares' = [closed EXCEPT ![pin] =
                                ShareAs(pin, @.children, p, None)]
        /\ UNCHANGED <<loans, holds, next, owner>>

\* Mistakes: recovery while the scope is open, or recovery again.
RecoverFromOpenScope(p, l) ==
    /\ loans[l].origin = "Escrowed" /\ loans[l].right = p
    /\ ~loans[l].recovered
    /\ loans' = [loans EXCEPT ![l].recovered = TRUE]
    /\ owner' = [owner EXCEPT ![loans[l].support] = p]
    /\ UNCHANGED <<scopes, shares, holds, next, index, unindexed, count>>

RecoverAgain(p, l) ==
    /\ loans[l].origin = "Escrowed" /\ loans[l].right = p
    /\ ~scopes[l].active
    /\ loans' = [loans EXCEPT ![l].recovered = TRUE]
    /\ owner' = [owner EXCEPT ![loans[l].support] = p]
    /\ UNCHANGED <<scopes, shares, holds, next, index, unindexed, count>>

\* The escrowed owner goes back into the lender's context.
Recover(p, l) ==
    /\ loans[l].origin = "Escrowed" /\ loans[l].right = p
    /\ ~loans[l].recovered
    /\ ~scopes[l].active
    /\ loans' = [loans EXCEPT ![l].recovered = TRUE]
    /\ owner' = [owner EXCEPT ![loans[l].support] = p]
    /\ UNCHANGED <<scopes, shares, holds, next, index, unindexed, count>>

----------------------------------------------------------------------------

Init ==
    /\ scopes = EmptyMap /\ loans = EmptyMap /\ shares = EmptyMap
    /\ holds = EmptyMap
    /\ next = [loan |-> 0, share |-> 0, hold |-> 0]
    /\ index = {} /\ unindexed = {}
    /\ count = [loans |-> 0, nonlocal |-> 0]
    /\ owner \in [Owned -> Participant]

\* The steps p takes: it lends, passes on, holds, ends or recovers.
Step(p) ==
    \/ \E b \in Participant, o \in Owned :
          Lend(p, b, o) \/ LendMutexUse(p, b, o) \/ LendComposite(p, b, o)
    \/ \E o \in Input : BorrowedContractInput(p, o) \/ BorrowedMutexUse(p, o)
    \/ \E b \in Participant, o \in LocalView : OpenLocalView(p, b, o)
    \/ \E b \in Participant, sh \in DOMAIN shares, v \in Resource :
          Reborrow(p, b, sh, v)
    \/ \E b \in Participant, sh \in DOMAIN shares : ReborrowMutexUse(p, b, sh)
    \/ \E sh \in DOMAIN shares, lh, rh \in Participant : Split(p, sh, lh, rh)
    \/ \E sh \in DOMAIN shares, to \in Participant : Transfer(p, sh, to)
    \/ \E left, right \in DOMAIN shares : Join(p, left, right)
    \/ \E sh \in DOMAIN shares : Hold(p, sh)
    \/ \E h \in DOMAIN holds : Release(p, h)
    \/ \E s \in DOMAIN scopes : End(p, s)
    \/ \E l \in DOMAIN loans : Recover(p, l)

Next ==
    \/ \E p \in Participant : Step(p)
    \/ \E l \in DOMAIN loans, c, child \in Resource : Project(l, c, child)

Spec == Init /\ [][Next]_vars
----------------------------------------------------------------------------
(* Properties                                                              *)

TypeOK ==
    /\ next \in [loan : Nat, share : Nat, hold : Nat]
    /\ scopes \in [Ids(next.loan) -> ScopeRecord]
    /\ loans \in [Ids(next.loan) -> LoanRecord]
    /\ shares \in [Ids(next.share) -> ShareRecord]
    /\ DOMAIN holds \subseteq Ids(next.hold)
    /\ \A h \in DOMAIN holds : holds[h] \in [scope : Nat, by : Participant]
    /\ index \subseteq Memory \X Nat
    /\ unindexed \subseteq Memory \X Nat
    /\ count \in [loans : Nat, nonlocal : Nat]
    /\ owner \in [Owned -> Option(Participant)]

\* A share someone reads through, itself or through the child it is pinned to.
Live(sh) == shares[sh].holder # None \/ shares[sh].pinnedBy # None

Kids(sh) == {c \in DOMAIN shares : /\ shares[sh].children # None
                                   /\ c \in {shares[sh].children[1],
                                             shares[sh].children[2]}}

\* C is the current share tree of every open scope: it contains the roots and
\* the live shares, its live shares are its leaves, and every other share of
\* it is split into exactly the two children its parent record names.
ShareTree(C) ==
    /\ \A s \in DOMAIN scopes : scopes[s].active => scopes[s].root \in C
    /\ \A c \in DOMAIN shares : Live(c) => c \in C
    /\ \A c \in C :
          /\ scopes[shares[c].scope].active
          /\ shares[c].parent = None => c = scopes[shares[c].scope].root
          /\ shares[c].parent # None => /\ shares[c].parent \in C
                                        /\ ~Live(shares[c].parent)
                                        /\ c \in Kids(shares[c].parent)
          /\ ~Live(c) => Cardinality(Kids(c)) = 2 /\ Kids(c) \subseteq C
          /\ shares[c].holder = None \/ shares[c].pinnedBy = None

\* Read authority is conserved: splits, joins, transfers, reborrows and ends
\* in any order leave the live shares an exact partition of the root share of
\* every open scope, and no share of an ended scope is live.
ShareConservation == \E C \in SUBSET DOMAIN shares : ShareTree(C)

\* A reborrowed scope is open only while the scope above it is open, its
\* parent share is pinned by it, and End of the scope above is refused.
ReborrowPinsParent ==
    \A s \in DOMAIN scopes :
        /\ scopes[s].active /\ scopes[s].parent # None =>
              /\ scopes[scopes[s].parent].active
              /\ s \in scopes[scopes[s].parent].dependencies
              /\ shares[scopes[s].parentShare].pinnedBy = s
              /\ shares[scopes[s].parentShare].scope = scopes[s].parent
        /\ \A d \in scopes[s].dependencies :
              scopes[d].active /\ scopes[d].parent = s

\* Stable views: while a participant owns an occurrence in its context, and so
\* may write it, no scope anywhere in the reborrow trees over that occurrence
\* is open, whoever the lenders and borrowers were.
OwnerExcludesReaders ==
    \A o \in Owned : owner[o] # None =>
        \A l \in DOMAIN loans : loans[l].support = o => ~scopes[l].active

\* The loans that keep the occurrence o in escrow.
Escrows(o) == {l \in DOMAIN loans : /\ loans[l].support = o
                                    /\ loans[l].origin = "Escrowed"
                                    /\ ~loans[l].recovered}

\* Authority is neither lost nor duplicated: an owned occurrence is in one
\* context or in the escrow of exactly one loan that has not been recovered.
EscrowConserved ==
    \A o \in Owned : IF owner[o] = None
                     THEN \E l \in DOMAIN loans : Escrows(o) = {l}
                     ELSE Escrows(o) = {}

\* The fail-closed counters that loops and branch joins consult agree with
\* the open loans, although projections change what a loan permits between
\* the opening that counted it and the end that takes it off.
BarrierCountsExact ==
    LET open == {l \in DOMAIN loans : scopes[l].active} IN
    /\ count.loans = Cardinality({l \in open :
                        LoanProtectsMemory(loans[l].backing, loans[l].permitted)})
    /\ count.nonlocal = Cardinality(UNION {
          ((loans[l].backing \cap Indexed) \ LocalBlock) \X {l} : l \in open})

\* The bytes the barrier holds entries of while a loan on o is open: what the
\* openings on o enumerated.
EnteredBytes(o) ==
    UNION {loans[a].backing : a \in {l \in DOMAIN loans :
                                       loans[l].support = o /\ scopes[l].parent = None}}

\* No write, free or havoc the barrier permits overlaps bytes that a valid
\* view reads, however deep in reborrows the view is: a byte range that the
\* loan itself has in the index is refused there, and one of the ranges the
\* opening of the resource enumerated is refused although a reborrow enters
\* no symbolic range, because the loan above keeps its entry.  (A symbolic
\* range only a projection exposed has no entry; its owner is in escrow.)
BarrierCoversViews ==
    \A sh \in {x \in DOMAIN shares :
                 shares[x].holder # None /\ ValidAuthority(shares[x].holder, x)} :
        LET l == shares[sh].scope IN
        \A b \in EnteredBytes(loans[l].support) \cup (loans[l].backing \cap Indexed) :
            \A v \in Memory : <<b, v>> \in Covers /\ Permits(l, v) =>
                \A q \in Memory : <<q, v>> \in Overlaps => ~PermitsMemoryAccess(q)

\* The use of a mutex ends before its lifetime owner comes back: an open
\* mutex loan, however deep in reborrows, has an open unrecovered root.
MutexUseRooted ==
    \A l \in DOMAIN loans :
        LET root == loans[l].mutexRoot IN
        scopes[l].active /\ root # None =>
            /\ scopes[root].active /\ ~loans[root].recovered
            /\ loans[root].mutexRoot = root
            /\ loans[root].support = loans[l].support

\* Every hold is on an open scope that knows it, so the scope cannot end
\* before the hold is released, and no scope waits for a hold that is gone.
HoldsKeepScopesOpen ==
    /\ \A h \in DOMAIN holds : /\ scopes[holds[h].scope].active
                               /\ h \in scopes[holds[h].scope].holds
    /\ \A s \in DOMAIN scopes : \A h \in scopes[s].holds :
          h \in DOMAIN holds /\ holds[h].scope = s

CanRead(p, o, v) == \E sh \in DOMAIN shares :
    loans[shares[sh].scope].support = o /\ ValidView(p, sh, v)

\* Reader stability: no step of another participant takes a view away from a
\* participant that can read through it.
ReaderStability ==
    [][\A p \in Participant :
          \/ \A sh \in {s \in DOMAIN shares : ValidAuthority(p, s)} :
                \A o \in {loans[shares[sh].scope].support}, v \in Resource :
                   Permits(shares[sh].scope, v) => CanRead(p, o, v)'
          \/ Step(p)]_vars

\* The promise of the ledger: an occurrence is read by whoever holds a live
\* share over it and was lent by the lender of its open escrow.
Lender(o) == IF owner[o] # None THEN None
             ELSE loans[CHOOSE l \in DOMAIN loans :
                            /\ loans[l].support = o
                            /\ loans[l].origin = "Escrowed"
                            /\ ~loans[l].recovered].right
Readers(o) == {p \in Participant : \E sh \in DOMAIN shares :
                  ValidAuthority(p, sh) /\ loans[shares[sh].scope].support = o}
Promise == INSTANCE StableViews WITH
    lender <- [o \in Owned |-> Lender(o)],
    readers <- [o \in Owned |-> Readers(o)]

\* The ledger implements stable views: every step of it lends, passes on,
\* closes or recovers one owned resource, or changes none of them.
ImplementsStableViews == Promise!Spec
=============================================================================
