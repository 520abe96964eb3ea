--------------------------- MODULE LocalReferences --------------------------
(***************************************************************************)
(* Exclusive scalar references of one invocation and the scopes that roll  *)
(* them back (src/kernel/loans/local_references.rs, scopes.rs, memory.rs). *)
(*                                                                         *)
(* The birth of a reference to an owned scalar takes the owner out of the  *)
(* resource context, records a root and borrows a first lease from it; a   *)
(* lease can be borrowed again, and only the last of the chain is usable.  *)
(* Ending the first lease retires the root and puts the owner back.        *)
(*                                                                         *)
(* A scope remembers the ledger at its entry.  When every reference made   *)
(* in it has ended, closing it forgets them by restoring that ledger; the  *)
(* resource context and the identity counter are not rolled back.          *)
(***************************************************************************)
EXTENDS Integers, FiniteSets, Sequences

CONSTANTS
    Participant,    \* holders, one per running invocation
    Support,        \* occurrences of owned scalars
    OwnerOf,        \* Support -> the participant whose context has it
    PlanKey,        \* ScalarReferencePlanKeys of the source
    ScopeKey,       \* ScalarReferenceScopeKeys of the source
    MaxRefs, MaxFrames, MaxRest,    \* bounds
    None

ASSUME LocalReferenceAssumption ==
    /\ OwnerOf \in [Support -> Participant]
    /\ None \notin Nat /\ None \notin PlanKey
    /\ MaxRefs \in Nat /\ MaxFrames \in Nat /\ MaxRest \in Nat

VARIABLES
    refs,       \* local_references: records by identity
    roots,      \* local_reference_roots: support -> root
    holders,    \* local_reference_holders: participant -> number of roots
    sources,    \* source_local_references: <<holder, key>> -> lease
    frames,     \* local_reference_scope and the ones it encloses, outermost first
    rest,       \* the rest of the ledger, numbered by its transitions
    place,      \* where each owner is: "held", "reserved" or "away"
    nextRef,    \* LocalReferenceId::fresh
    ended       \* history: the leases that were ended

vars == <<refs, roots, holders, sources, frames, rest, place, nextRef, ended>>

----------------------------------------------------------------------------
(* Records                                                                 *)

Reference(parent, plan, support, active, child) ==
    [parent |-> parent, plan |-> plan, support |-> support,
     active |-> active, child |-> child]

HolderOf(i) == OwnerOf[refs[i].support]

WithInserted(f, k, v) ==
    [x \in DOMAIN f \cup {k} |-> IF x = k THEN v ELSE f[x]]

WithoutKey(f, k) == [x \in DOMAIN f \ {k} |-> f[x]]

EmptyMap == [x \in {} |-> x]

Top == frames[Len(frames)]

\* local_reference_record: on record, active and not lent on.
Usable(i) == i \in DOMAIN refs /\ refs[i].active /\ refs[i].child = None

\* local_scalar_access_resources, for the participant that runs.
MayAccess(p, i) == Usable(i) /\ HolderOf(i) = p /\ refs[i].support \in DOMAIN roots

----------------------------------------------------------------------------
(* The open scope follows every transition                                 *)

\* begin: a frame that has issued nothing yet.
NewFrame(p, key) ==
    [holder |-> p, key |-> key, issued |-> {}, active |-> 0, restored |-> {},
     base |-> [refs |-> refs, roots |-> roots, holders |-> holders,
               sources |-> sources, rest |-> rest]]

\* The frame with more issued references, and n more that are active.
Advanced(frame, ids, n, restored) ==
    [holder |-> frame.holder, key |-> frame.key,
     issued |-> frame.issued \cup ids, active |-> frame.active + n,
     restored |-> frame.restored \cup restored, base |-> frame.base]

WithTop(frame) == [frames EXCEPT ![Len(frames)] = frame]

\* Registration and borrow inside a scope belong to its holder.
AdvanceIssue(p, ids, restored) ==
    IF frames = <<>> THEN UNCHANGED frames
    ELSE /\ Top.holder = p
         /\ ids \cap Top.issued = {}
         /\ frames' = WithTop(Advanced(Top, ids, Cardinality(ids), restored))

\* Mistake: a reference that was born before the scope may end in it.
AdvanceEndAnything(p, ids) ==
    IF frames = <<>> THEN UNCHANGED frames
    ELSE /\ Top.holder = p
         /\ Top.active >= Cardinality(ids)
         /\ frames' = WithTop(Advanced(Top, {}, -Cardinality(ids), {}))

\* Recovery and retirement only of what the scope itself issued.
AdvanceEnd(p, ids) ==
    IF frames = <<>> THEN UNCHANGED frames
    ELSE /\ Top.holder = p
         /\ ids \subseteq Top.issued
         /\ Top.active >= Cardinality(ids)
         /\ frames' = WithTop(Advanced(Top, {}, -Cardinality(ids), {}))

----------------------------------------------------------------------------
(* Births                                                                  *)

SourceFree(p, plan) == plan # None => <<p, plan>> \notin DOMAIN sources

WithSource(p, plan, i) ==
    IF plan = None THEN sources ELSE WithInserted(sources, <<p, plan>>, i)

\* Mistake: numbers references from what the current ledger has on record.
FreshFromLedger ==
    IF refs = EmptyMap THEN 0
    ELSE 1 + CHOOSE m \in DOMAIN refs : \A i \in DOMAIN refs : i <= m

\* LocalReferenceId::fresh: a counter outside the persistent ledger.
Fresh == nextRef

\* begin_scalar_reference from a plain pointer: reserve the owner, register
\* the root, borrow the first lease from it.
Birth(p, s, plan) ==
    LET root == Fresh
        lease == root + 1
    IN
    /\ nextRef + 1 < MaxRefs
    /\ OwnerOf[s] = p /\ place[s] = "held"
    /\ root \notin DOMAIN refs /\ s \notin DOMAIN roots
    /\ SourceFree(p, plan)
    /\ AdvanceIssue(p, {root, lease}, {s})
    /\ refs' = WithInserted(
                   WithInserted(refs, root,
                       Reference(None, None, s, TRUE, lease)),
                   lease, Reference(root, plan, s, TRUE, None))
    /\ roots' = WithInserted(roots, s, root)
    /\ holders' = WithInserted(holders, p,
                      IF p \in DOMAIN holders THEN holders[p] + 1 ELSE 1)
    /\ sources' = WithSource(p, plan, lease)
    /\ place' = [place EXCEPT ![s] = "reserved"]
    /\ nextRef' = nextRef + 2
    /\ UNCHANGED <<rest, ended>>

\* Mistake: a lease that is lent on can be borrowed again.
MayBorrowTwice(p, i) ==
    /\ i \in DOMAIN refs /\ refs[i].active /\ HolderOf(i) = p
    /\ refs[i].support \in DOMAIN roots

MayBorrow(p, i) == MayAccess(p, i)

\* begin_scalar_reference from a pointer that carries a lease.
Reborrow(p, i, plan) ==
    LET lease == Fresh IN
    /\ nextRef < MaxRefs
    /\ refs[i].parent # None
    /\ MayBorrow(p, i)
    /\ lease \notin DOMAIN refs
    /\ SourceFree(p, plan)
    /\ AdvanceIssue(p, {lease}, {})
    /\ refs' = WithInserted(
                   WithInserted(refs, i,
                       Reference(refs[i].parent, refs[i].plan,
                                 refs[i].support, TRUE, lease)),
                   lease, Reference(i, plan, refs[i].support, TRUE, None))
    /\ sources' = WithSource(p, plan, lease)
    /\ nextRef' = nextRef + 1
    /\ UNCHANGED <<roots, holders, rest, place, ended>>

----------------------------------------------------------------------------
(* Endings                                                                 *)

Inactive(r) == Reference(r.parent, r.plan, r.support, FALSE, r.child)
WithoutChild(r) == Reference(r.parent, r.plan, r.support, r.active, None)

HoldersWithout(p) ==
    IF holders[p] = 1 THEN WithoutKey(holders, p)
    ELSE WithInserted(holders, p, holders[p] - 1)

SourcesWithout(p, i) ==
    IF refs[i].plan = None THEN sources
    ELSE WithoutKey(sources, <<p, refs[i].plan>>)

\* What recovery needs of the lease, its parent and its source plan.
MayEnd(p, i) ==
    /\ refs[i].parent # None
    /\ MayAccess(p, i)
    /\ refs[i].parent \in DOMAIN refs
    /\ refs[refs[i].parent].active /\ refs[refs[i].parent].child = i
    /\ refs[i].plan # None =>
          /\ <<p, refs[i].plan>> \in DOMAIN sources
          /\ sources[<<p, refs[i].plan>>] = i

\* end_local_scalar_reference of a lease that was borrowed from a lease.
EndBorrow(p, i) ==
    LET parent == refs[i].parent IN
    /\ MayEnd(p, i)
    /\ parent # roots[refs[i].support]
    /\ AdvanceEnd(p, {i})
    /\ refs' = WithInserted(WithInserted(refs, parent, WithoutChild(refs[parent])),
                            i, Inactive(refs[i]))
    /\ sources' = SourcesWithout(p, i)
    /\ ended' = ended \cup {i}
    /\ UNCHANGED <<roots, holders, rest, place, nextRef>>

\* end_local_scalar_reference of the first lease: the root goes with it and
\* the owner is composed back into the context.
EndRoot(p, i) ==
    LET root == refs[i].parent
        s == refs[i].support
    IN
    /\ MayEnd(p, i)
    /\ root = roots[s]
    /\ AdvanceEnd(p, {i, root})
    /\ refs' = WithInserted(
                   WithInserted(refs, root, Inactive(WithoutChild(refs[root]))),
                   i, Inactive(refs[i]))
    /\ roots' = WithoutKey(roots, s)
    /\ holders' = HoldersWithout(p)
    /\ sources' = SourcesWithout(p, i)
    /\ place' = [place EXCEPT ![s] = "held"]
    /\ ended' = ended \cup {i, root}
    /\ UNCHANGED <<rest, nextRef>>

----------------------------------------------------------------------------
(* Scopes                                                                  *)

BeginScope(p, key) ==
    /\ Len(frames) < MaxFrames
    /\ frames # <<>> => Top.holder = p
    /\ frames' = Append(frames, NewFrame(p, key))
    /\ UNCHANGED <<refs, roots, holders, sources, rest, place, nextRef, ended>>

\* Every reference of the scope ended and its owners are in the context.
MayClose(p, key) ==
    /\ frames # <<>>
    /\ Top.holder = p /\ Top.key = key
    /\ Top.active = 0
    /\ \A s \in Top.restored : place[s] = "held"

\* The ledger of the entry comes back; resources and identities do not.
CloseScope(p, key) ==
    /\ MayClose(p, key)
    /\ refs' = Top.base.refs
    /\ roots' = Top.base.roots
    /\ holders' = Top.base.holders
    /\ sources' = Top.base.sources
    /\ rest' = Top.base.rest
    /\ frames' = SubSeq(frames, 1, Len(frames) - 1)
    /\ UNCHANGED <<place, nextRef, ended>>

\* Any other checked transition of the ledger, which
\* advance_local_reference_scope refuses inside a scope.
OtherTransition ==
    /\ frames = <<>>
    /\ rest < MaxRest
    /\ rest' = rest + 1
    /\ UNCHANGED <<refs, roots, holders, sources, frames, place, nextRef, ended>>

\* The invocation gives an owner away, or receives it back.
GiveAway(s) ==
    /\ place[s] = "held"
    /\ place' = [place EXCEPT ![s] = "away"]
    /\ UNCHANGED <<refs, roots, holders, sources, frames, rest, nextRef, ended>>

TakeBack(s) ==
    /\ place[s] = "away"
    /\ place' = [place EXCEPT ![s] = "held"]
    /\ UNCHANGED <<refs, roots, holders, sources, frames, rest, nextRef, ended>>

Init ==
    /\ refs = EmptyMap /\ roots = EmptyMap
    /\ holders = EmptyMap /\ sources = EmptyMap
    /\ frames = <<>>
    /\ rest = 0
    /\ place = [s \in Support |-> "held"]
    /\ nextRef = 0
    /\ ended = {}

Next ==
    \/ \E p \in Participant :
          \/ \E s \in Support, plan \in PlanKey \cup {None} : Birth(p, s, plan)
          \/ \E i \in DOMAIN refs :
                \/ \E plan \in PlanKey \cup {None} : Reborrow(p, i, plan)
                \/ EndBorrow(p, i)
                \/ EndRoot(p, i)
          \/ \E key \in ScopeKey : BeginScope(p, key) \/ CloseScope(p, key)
    \/ OtherTransition
    \/ \E s \in Support : GiveAway(s) \/ TakeBack(s)

Spec == Init /\ [][Next]_vars

----------------------------------------------------------------------------
(* Properties                                                              *)

Alive(r) == {i \in DOMAIN r : r[i].active}

\* A scope whose references have all ended left the ledger it was entered
\* with: restoring that ledger forgets only ended references.
BalancedScopeIsEntry ==
    frames # <<>> /\ Top.active = 0 =>
        /\ Alive(refs) = Alive(Top.base.refs)
        /\ \A i \in Alive(refs) : refs[i] = Top.base.refs[i]
        /\ roots = Top.base.roots
        /\ holders = Top.base.holders
        /\ sources = Top.base.sources
        /\ rest = Top.base.rest

\* An owner is out of the resource context exactly while a root stands for
\* it, although closing a scope rolls the roots back and the context not; it
\* then has exactly one usable lease, at the end of its chain of borrows.
OneLeasePerOwner ==
    \A s \in Support :
        LET leases == {i \in DOMAIN refs : Usable(i) /\ refs[i].support = s} IN
        /\ place[s] = "reserved" <=> s \in DOMAIN roots
        /\ Cardinality(leases) = IF place[s] = "reserved" THEN 1 ELSE 0

\* A pointer keeps the identity of its lease after the lease has ended and
\* its scope was rolled back; no later reference makes it usable again.
EndedLeasesStayUnusable == \A i \in ended : ~Usable(i)
=============================================================================
