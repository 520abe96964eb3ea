-------------------------- MODULE PopulationLedger --------------------------
(***************************************************************************)
(* Counted populations of resources: the abstract ledger of                *)
(* kernel/population_authority.rs and the bridge to C storage in           *)
(* population_authority/c_creation.rs.                                     *)
(*                                                                         *)
(* A population is the set of members of one family at one storage         *)
(* lifetime (an anchor).  Whoever owns its authority may count, create and *)
(* destroy members; members, authority and anchor change hands with calls, *)
(* returns, worker creations and joins.  The ledger is a persistent value: *)
(* every arm of a branch continues with a ledger of its own, fresh         *)
(* identities come from one counter, and a join of two arms compares their *)
(* ledgers up to the identities each arm minted.                           *)
(*                                                                         *)
(* Populations that a contract imports without knowing their total, and    *)
(* symbolic quantities, are left out.                                      *)
(***************************************************************************)
EXTENDS Integers, FiniteSets, SequencesExt

CONSTANTS
    Arm,                \* the proof alternatives followed at once
    Block,              \* storage blocks
    Automatic,          \* the blocks of local variables
    Request,            \* unresolved results of malloc and calloc
    Family,             \* authorized resource families
    CountLimit,         \* i32::MAX
    MaxIds, MaxFrames,  \* bounds on fresh identities and nested calls
    None                \* Option::None

ASSUME PopulationAssumption ==
    /\ Automatic \subseteq Block
    /\ Block \cap Request = {} /\ None \notin Block
    /\ CountLimit \in Nat \ {0} /\ MaxIds \in Nat /\ MaxFrames \in Nat

VARIABLES
    path,       \* per arm: its ledger, suspended callers, workers, members
    nextId      \* static NEXT of fresh()

vars == <<path, nextId>>

WordLimit == 2 * CountLimit + 1     \* u32::MAX

\* No entry stands for none: set_members and change_obligations.
Count(f, k) == IF k \in DOMAIN f THEN f[k] ELSE 0

WithoutKeys(f, keys) == [k \in DOMAIN f \ keys |-> f[k]]

Put(f, k, v) == [x \in DOMAIN f \cup {k} |-> IF x = k THEN v ELSE f[x]]

WithCount(f, k, n) == IF n = 0 THEN WithoutKeys(f, {k}) ELSE Put(f, k, n)

Empty == [k \in {} |-> k]

\* The sum of the counts of f, as a number of units.
Units(f) == UNION {{k} \X (1..f[k]) : k \in DOMAIN f}
Total(f) == Cardinality(Units(f))

----------------------------------------------------------------------------
(* AuthorityState                                                          *)

NoAuthority ==
    [anchors |-> Empty, registrations |-> Empty, populations |-> Empty,
     members |-> Empty, obligations |-> Empty]

ChangeObligations(o, holder, remove, add) ==
    WithCount(o, holder, Count(o, holder) - remove + add)

AllocateAnchor(S, holder, id) ==
    [S EXCEPT !.anchors = Put(@, id, [owner |-> holder, creator |-> holder,
                                      established |-> {}, registrations |-> 0]),
              !.obligations = ChangeObligations(@, holder, 0, 1)]

AnchorOwned(S, holder, a) == a \in DOMAIN S.anchors /\ S.anchors[a].owner = holder

AuthorityOwned(S, holder, p) ==
    p \in DOMAIN S.populations /\ S.populations[p].owner = holder

MayEstablish(S, holder, a, family) ==
    /\ AnchorOwned(S, holder, a)
    /\ family \notin S.anchors[a].established
    /\ S.anchors[a].creator = holder

Established(S, holder, a, family, id) ==
    [S EXCEPT
        !.anchors[a].established = @ \cup {family},
        !.anchors[a].registrations = @ + 1,
        !.registrations = Put(@, <<a, family>>, id),
        !.populations = Put(@, id, [anchor |-> a, family |-> family,
                                    owner |-> holder, total |-> 0]),
        !.obligations = ChangeObligations(@, holder, 0, 1)]

MayProduce(S, holder, p, n) ==
    AuthorityOwned(S, holder, p) /\ S.populations[p].total + n <= CountLimit

Produced(S, holder, p, n) ==
    [S EXCEPT
        !.populations[p].total = @ + n,
        !.members = WithCount(@, <<holder, p>>, Count(@, <<holder, p>>) + n),
        !.obligations = ChangeObligations(@, holder, 0, n)]

MayConsume(S, holder, p, n) ==
    AuthorityOwned(S, holder, p) /\ n <= Count(S.members, <<holder, p>>)

Consumed(S, holder, p, n) ==
    [S EXCEPT
        !.populations[p].total = @ - n,
        !.members = WithCount(@, <<holder, p>>, Count(@, <<holder, p>>) - n),
        !.obligations = ChangeObligations(@, holder, n, 0)]

\* What one call boundary moves: the anchors and authorities named and, per
\* population, a number of members.
MayMove(S, from, to, given) ==
    /\ \A a \in given.anchors : AnchorOwned(S, from, a)
    /\ \A p \in given.authorities : AuthorityOwned(S, from, p)
    /\ \A p \in DOMAIN given.members :
          /\ p \in DOMAIN S.populations
          /\ given.members[p] <= Count(S.members, <<from, p>>)
          /\ Count(S.members, <<to, p>>) + given.members[p] <= WordLimit

Weight(given) ==
    Cardinality(given.anchors) + Cardinality(given.authorities) + Total(given.members)

\* How many members of p the holder h has after the move.
MembersAfter(members, from, to, given, h, p) ==
    Count(members, <<h, p>>)
      - (IF h = from THEN Count(given.members, p) ELSE 0)
      + (IF h = to THEN Count(given.members, p) ELSE 0)

MovedMembers(members, from, to, given) ==
    LET After(k) == MembersAfter(members, from, to, given, k[1], k[2])
        held == DOMAIN members \cup ({to} \X DOMAIN given.members)
    IN [k \in {x \in held : After(x) > 0} |-> After(k)]

\* transfer_anchor, transfer_authority and transfer_members for each of them.
Moved(S, from, to, given) ==
    [anchors |-> [a \in DOMAIN S.anchors |->
        IF a \in given.anchors THEN [S.anchors[a] EXCEPT !.owner = to] ELSE S.anchors[a]],
     registrations |-> S.registrations,
     populations |-> [p \in DOMAIN S.populations |->
        IF p \in given.authorities THEN [S.populations[p] EXCEPT !.owner = to]
                                   ELSE S.populations[p]],
     members |-> MovedMembers(S.members, from, to, given),
     obligations |-> ChangeObligations(
        ChangeObligations(S.obligations, from, Weight(given), 0), to, 0, Weight(given))]

MayRetire(S, holder, p) == AuthorityOwned(S, holder, p) /\ S.populations[p].total = 0

\* Mistake: the anchor still counts the population.
RetiredStillRegistered(S, holder, p) ==
    [S EXCEPT
        !.registrations = WithoutKeys(@, {<<S.populations[p].anchor, S.populations[p].family>>}),
        !.populations = WithoutKeys(@, {p}),
        !.obligations = ChangeObligations(@, holder, 1, 0)]

Retired(S, holder, p) ==
    [S EXCEPT
        !.anchors[S.populations[p].anchor].registrations = @ - 1,
        !.registrations = WithoutKeys(@, {<<S.populations[p].anchor, S.populations[p].family>>}),
        !.populations = WithoutKeys(@, {p}),
        !.obligations = ChangeObligations(@, holder, 1, 0)]

MayFreeAnchor(S, holder, a) ==
    AnchorOwned(S, holder, a) /\ S.anchors[a].registrations = 0

Freed(S, holder, gone) ==
    [S EXCEPT !.anchors = WithoutKeys(@, gone),
              !.obligations = ChangeObligations(@, holder, Cardinality(gone), 0)]

FinishHolder(S, holder) == holder \notin DOMAIN S.obligations

----------------------------------------------------------------------------
(* CreationEvents: one ledger                                              *)

NewRoot(invocation) ==
    [invocation |-> invocation, pending |-> Empty, creators |-> Empty,
     anchors |-> Empty, authority |-> NoAuthority, tainted |-> Empty,
     empty |-> Empty]

Tainted(r, b) == IF b \in DOMAIN r.tainted THEN r.tainted[b] ELSE {}

\* checked_empty_population: the count of the family is answered with zero.
CheckedEmpty(r, b, family) == b \in DOMAIN r.empty /\ family \in r.empty[b]

\* population_at of the block's anchor, and tracks_population.
TracksPopulation(r, b, family) ==
    b \in DOMAIN r.anchors /\ <<r.anchors[b], family>> \in DOMAIN r.authority.registrations

PopulationOf(r, b, family) == r.authority.registrations[<<r.anchors[b], family>>]

\* A storage lifetime begins.
WithStorage(r, b, creator, id) ==
    [r EXCEPT !.creators = Put(@, b, creator),
              !.anchors = Put(@, b, id),
              !.authority = AllocateAnchor(@, creator, id),
              !.empty = WithoutKeys(@, {b})]

\* Mistake: members created before the outcome was known are forgotten.
ResolvedUntainted(r, q, b, id) ==
    LET settled == [r EXCEPT !.pending = WithoutKeys(@, {q}),
                             !.tainted = WithoutKeys(@, {q})]
    IN IF b = None THEN settled ELSE WithStorage(settled, b, r.pending[q], id)

\* The creator is who made the request, whoever learns its outcome; members
\* that were created meanwhile are remembered with the block.
Resolved(r, q, b, id) ==
    LET settled == [r EXCEPT !.pending = WithoutKeys(@, {q}),
                             !.tainted = WithoutKeys(@, {q})]
    IN IF b = None THEN settled
       ELSE WithStorage(
               IF q \in DOMAIN r.tainted
               THEN [settled EXCEPT !.tainted = Put(@, b, r.tainted[q])] ELSE settled,
               b, r.pending[q], id)

WithTaint(r, b, family) ==
    [r EXCEPT !.tainted = Put(@, b, Tainted(r, b) \cup {family})]

\* The lifetimes of the blocks gone end; they are the current invocation's.
WithoutStorage(r, gone) ==
    [r EXCEPT !.creators = WithoutKeys(@, gone),
              !.anchors = WithoutKeys(@, gone),
              !.authority = Freed(@, r.invocation, {r.anchors[b] : b \in gone}),
              !.tainted = WithoutKeys(@, gone)]

MayEndStorage(r, b) == MayFreeAnchor(r.authority, r.invocation, r.anchors[b])

----------------------------------------------------------------------------
(* Storage and members                                                     *)

Fresh(n) == nextId + n <= MaxIds /\ nextId' = nextId + n

Created(a, b) ==
    LET r == path[a].root IN
    /\ b \notin DOMAIN r.creators
    /\ Fresh(1)
    /\ path' = [path EXCEPT ![a].root = WithStorage(@, b, r.invocation, nextId)]

PendingCreation(a, q) ==
    LET r == path[a].root IN
    /\ q \notin DOMAIN r.pending
    /\ path' = [path EXCEPT ![a].root.pending = Put(@, q, r.invocation)]
    /\ UNCHANGED nextId

ResolvePending(a, q, b) ==
    LET r == path[a].root
        carried == {<<b, x[2]>> : x \in {y \in path[a].loose : y[1] = q}}
    IN
    /\ q \in DOMAIN r.pending
    /\ b \notin DOMAIN r.creators
    /\ IF b = None THEN UNCHANGED nextId ELSE Fresh(1)
    /\ path' = [path EXCEPT
          ![a].root = Resolved(@, q, b, nextId),
          ![a].loose = {x \in @ : x[1] # q} \cup (IF b = None THEN {} ELSE carried)]

\* record_instance_population_exchange for a member no authority counts.
MemberCreated(a, b, family) ==
    LET r == path[a].root IN
    /\ b \in DOMAIN r.creators \cup DOMAIN r.pending
    /\ ~ TracksPopulation(r, b, family)
    /\ path' = [path EXCEPT ![a].root = WithTaint(@, b, family),
                            ![a].loose = @ \cup {<<b, family>>}]
    /\ UNCHANGED nextId

MemberUnfolded(a, b, family) ==
    /\ <<b, family>> \in path[a].loose
    /\ ~ TracksPopulation(path[a].root, b, family)
    /\ path' = [path EXCEPT ![a].loose = @ \ {<<b, family>>}]
    /\ UNCHANGED nextId

Establish(a, b, family) ==
    LET r == path[a].root IN
    /\ b \in DOMAIN r.creators /\ r.creators[b] = r.invocation
    /\ family \notin Tainted(r, b)
    /\ MayEstablish(r.authority, r.invocation, r.anchors[b], family)
    /\ Fresh(1)
    /\ path' = [path EXCEPT ![a].root.authority =
                    Established(@, r.invocation, r.anchors[b], family, nextId)]

\* checked_member_exchange under the current invocation's authority.
ProduceMembers(a, b, family, n) ==
    LET r == path[a].root
        p == PopulationOf(r, b, family)
    IN
    /\ TracksPopulation(r, b, family)
    /\ MayProduce(r.authority, r.invocation, p, n)
    /\ path' = [path EXCEPT
          ![a].root = [WithTaint(r, b, family) EXCEPT
                          !.authority = Produced(@, r.invocation, p, n)]]
    /\ UNCHANGED nextId

ConsumeMembers(a, b, family, n) ==
    LET r == path[a].root
        p == PopulationOf(r, b, family)
    IN
    /\ TracksPopulation(r, b, family)
    /\ MayConsume(r.authority, r.invocation, p, n)
    /\ path' = [path EXCEPT ![a].root.authority = Consumed(@, r.invocation, p, n)]
    /\ UNCHANGED nextId

\* The zero total is kept as evidence.
RetireAuthority(a, b, family) ==
    LET r == path[a].root
        p == PopulationOf(r, b, family)
        zero == IF b \in DOMAIN r.empty THEN r.empty[b] ELSE {}
    IN
    /\ TracksPopulation(r, b, family)
    /\ MayRetire(r.authority, r.invocation, p)
    /\ path' = [path EXCEPT ![a].root.authority = Retired(@, r.invocation, p),
                            ![a].root.empty = Put(@, b, zero \cup {family})]
    /\ UNCHANGED nextId

\* free, or the end of a scope.
StorageEnds(a, b) ==
    LET r == path[a].root IN
    /\ b \in DOMAIN r.creators
    /\ MayEndStorage(r, b)
    /\ path' = [path EXCEPT ![a].root = WithoutStorage(@, {b}),
                            ![a].loose = {x \in @ : x[1] # b}]
    /\ UNCHANGED nextId

----------------------------------------------------------------------------
(* Calls and workers                                                       *)

\* What a contract may name: anchors, authorities and members of the ledger.
Givings(S) ==
    [anchors : SUBSET DOMAIN S.anchors, authorities : SUBSET DOMAIN S.populations,
     members : UNION {[D -> 1..CountLimit] : D \in SUBSET DOMAIN S.populations}]

\* enter_call and the transfer of the inputs to the new invocation.
EnterCall(a, given) ==
    LET r == path[a].root IN
    /\ Len(path[a].frames) < MaxFrames
    /\ MayMove(r.authority, r.invocation, nextId, given)
    /\ Fresh(1)
    /\ path' = [path EXCEPT
          ![a].root.invocation = nextId,
          ![a].root.authority = Moved(@, r.invocation, nextId, given),
          ![a].frames = Append(@, r.invocation)]

\* The outputs go back, then finish_call: nothing may stay with the callee.
FinishCall(a, given) ==
    LET r == path[a].root
        caller == Last(path[a].frames)
        returned == Moved(r.authority, r.invocation, caller, given)
    IN
    /\ path[a].frames # <<>>
    /\ MayMove(r.authority, r.invocation, caller, given)
    /\ FinishHolder(returned, r.invocation)
    /\ path' = [path EXCEPT
          ![a].root.authority = returned, ![a].root.invocation = caller,
          ![a].frames = Front(@)]
    /\ UNCHANGED nextId

\* An inline body or a throw: the frame's own blocks end, and return_to
\* restores the caller's environment without looking at what else is held.
LeaveCall(a) ==
    LET r == path[a].root
        own == {b \in Automatic \cap DOMAIN r.creators : r.creators[b] = r.invocation}
    IN
    /\ path[a].frames # <<>>
    /\ \A b \in own : MayEndStorage(r, b)
    /\ path' = [path EXCEPT
          ![a].root = [WithoutStorage(@, own) EXCEPT !.invocation = Last(path[a].frames)],
          ![a].frames = Front(@),
          ![a].loose = {x \in @ : x[1] \notin own}]
    /\ UNCHANGED nextId

\* A worker enters like a callee; the parent goes on.
CreateWorker(a, given) ==
    LET r == path[a].root IN
    /\ MayMove(r.authority, r.invocation, nextId, given)
    /\ Fresh(1)
    /\ path' = [path EXCEPT
          ![a].root.authority = Moved(@, r.invocation, nextId, given),
          ![a].workers = @ \cup {nextId}]

\* A worker that changed a population under a lock has its change applied at
\* the join: the parent lends the authority, the worker exchanges, and the
\* authority comes back.
MayDefer(r, w, b, family, produce, n) ==
    /\ TracksPopulation(r, b, family)
    /\ AuthorityOwned(r.authority, r.invocation, PopulationOf(r, b, family))
    /\ IF produce
       THEN r.authority.populations[PopulationOf(r, b, family)].total + n <= CountLimit
       ELSE n <= Count(r.authority.members, <<w, PopulationOf(r, b, family)>>)

Deferred(r, w, b, family, produce, n) ==
    LET p == PopulationOf(r, b, family)
        lend == [anchors |-> {}, authorities |-> {p}, members |-> Empty]
        lent == Moved(r.authority, r.invocation, w, lend)
    IN IF produce
       THEN [WithTaint(r, b, family) EXCEPT
                !.authority = Moved(Produced(lent, w, p, n), w, r.invocation, lend)]
       ELSE [r EXCEPT !.authority = Moved(Consumed(lent, w, p, n), w, r.invocation, lend)]

\* The outputs of worker w return to the parent's ledger r, then finish_call.
JoinWorker(a, w, r, given) ==
    LET returned == Moved(r.authority, w, r.invocation, given) IN
    /\ MayMove(r.authority, w, r.invocation, given)
    /\ FinishHolder(returned, w)
    /\ path' = [path EXCEPT
          ![a].root = [r EXCEPT !.authority = returned],
          ![a].workers = @ \ {w}]
    /\ UNCHANGED nextId

JoinDeferred(a, w, b, family, produce, n) ==
    LET r == path[a].root
        after == Deferred(r, w, b, family, produce, n)
    IN
    /\ MayDefer(r, w, b, family, produce, n)
    /\ \E given \in Givings(after.authority) : JoinWorker(a, w, after, given)

----------------------------------------------------------------------------
Init ==
    /\ path = [a \in Arm |-> [root |-> NewRoot(0), frames |-> <<>>, workers |-> {},
                              loose |-> {}]]
    /\ nextId = 1

Next ==
    \E a \in Arm :
        \/ \E b \in Block : Created(a, b) \/ StorageEnds(a, b)
        \/ \E q \in Request : PendingCreation(a, q)
        \/ \E q \in Request, b \in (Block \ Automatic) \cup {None} : ResolvePending(a, q, b)
        \/ \E b \in Block \cup Request, f \in Family :
              MemberCreated(a, b, f) \/ MemberUnfolded(a, b, f)
        \/ \E b \in Block, f \in Family : Establish(a, b, f) \/ RetireAuthority(a, b, f)
        \/ \E b \in Block, f \in Family, n \in 1..CountLimit :
              ProduceMembers(a, b, f, n) \/ ConsumeMembers(a, b, f, n)
        \/ \E given \in Givings(path[a].root.authority) :
              EnterCall(a, given) \/ FinishCall(a, given) \/ CreateWorker(a, given)
        \/ LeaveCall(a)
        \/ \E w \in path[a].workers :
              \/ \E given \in Givings(path[a].root.authority) :
                    JoinWorker(a, w, path[a].root, given)
              \/ \E b \in Block, f \in Family, produce \in BOOLEAN, n \in 1..CountLimit :
                    JoinDeferred(a, w, b, f, produce, n)

Spec == Init /\ [][Next]_vars

----------------------------------------------------------------------------
(* A join of two arms                                                      *)

\* Mistake: what was created before an authority is not compared.
SameRecordsButTaint(left, right) ==
    /\ left.invocation = right.invocation
    /\ left.pending = right.pending
    /\ left.creators = right.creators
    /\ left.empty = right.empty

SameRecordsBesidesAnchors(left, right) ==
    /\ left.invocation = right.invocation
    /\ left.pending = right.pending
    /\ left.creators = right.creators
    /\ left.tainted = right.tainted
    /\ left.empty = right.empty

\* Each pair has equal records on which no population is established; all
\* else is equal.
SameUpToUnestablishedAnchors(S, T, renamed) ==
    /\ \A x \in renamed :
          /\ x[1] \in DOMAIN S.anchors /\ x[2] \in DOMAIN T.anchors
          /\ S.anchors[x[1]] = T.anchors[x[2]]
          /\ S.anchors[x[1]].registrations = 0
          /\ S.anchors[x[1]].established = {}
    /\ WithoutKeys(S.anchors, {x[1] : x \in renamed})
         = WithoutKeys(T.anchors, {x[2] : x \in renamed})
    /\ S.registrations = T.registrations /\ S.populations = T.populations
    /\ S.members = T.members /\ S.obligations = T.obligations

\* records_same_state_as and records_same_state_up_to_fresh_anchors.
RecordsSameState(left, right) ==
    LET renamed == {<<left.anchors[b], right.anchors[b]>> :
                       b \in {x \in DOMAIN left.anchors \cap DOMAIN right.anchors :
                                 left.anchors[x] # right.anchors[x]}}
    IN
    /\ DOMAIN left.anchors = DOMAIN right.anchors
    /\ IF renamed = {} THEN left.authority = right.authority
       ELSE SameUpToUnestablishedAnchors(left.authority, right.authority, renamed)
    /\ SameRecordsBesidesAnchors(left, right)

----------------------------------------------------------------------------
(* Properties                                                              *)

OwnedBy(f, h) == {k \in DOMAIN f : f[k].owner = h}

\* The counts kept beside the records are exact.  The obligations of a holder
\* are the anchors, authorities and members it owns: what a callee or worker
\* that finishes must have none of.  A total is the number of members in all
\* hands.  A live population is registered at a live anchor that counts it,
\* so storage with a live population cannot end.
CountsExact ==
    \A a \in Arm :
        LET S == path[a].root.authority IN
        /\ \A h \in 0..(nextId - 1) :
              Count(S.obligations, h) =
                Cardinality(OwnedBy(S.anchors, h)) + Cardinality(OwnedBy(S.populations, h))
                  + Total([p \in DOMAIN S.populations |-> Count(S.members, <<h, p>>)])
        /\ \A k \in DOMAIN S.members : k[2] \in DOMAIN S.populations
        /\ \A p \in DOMAIN S.populations :
              LET key == <<S.populations[p].anchor, S.populations[p].family>> IN
              /\ S.populations[p].total =
                    Total([h \in 0..(nextId - 1) |-> Count(S.members, <<h, p>>)])
              /\ key[1] \in DOMAIN S.anchors
              /\ key \in DOMAIN S.registrations /\ S.registrations[key] = p
        /\ \A x \in DOMAIN S.anchors :
              S.anchors[x].registrations =
                 Cardinality({p \in DOMAIN S.populations : S.populations[p].anchor = x})

\* Evidence about a family and its members do not contradict each other: no
\* member exists beside the ones a live population counts, also when it was
\* created before the storage was known to exist, and evidence of an empty
\* family does not outlive into a population that is live again at the block.
NoMemberUncounted ==
    \A a \in Arm : \A b \in Block, f \in Family :
        TracksPopulation(path[a].root, b, f) =>
            <<b, f>> \notin path[a].loose /\ ~ CheckedEmpty(path[a].root, b, f)

\* The ledger with its anchors renamed.
RenamedRecords(f, to) ==
    [x \in {to[y] : y \in DOMAIN f} |-> f[CHOOSE y \in DOMAIN f : to[y] = x]]

RenamedKeys(f, to) ==
    [k \in {<<to[x[1]], x[2]>> : x \in DOMAIN f} |->
        f[CHOOSE x \in DOMAIN f : <<to[x[1]], x[2]>> = k]]

RenamedPopulations(f, to) == [p \in DOMAIN f |-> [f[p] EXCEPT !.anchor = to[@]]]

Renamed(r, to) ==
    [r EXCEPT !.anchors = [b \in DOMAIN @ |-> to[@[b]]],
              !.authority.anchors = RenamedRecords(@, to),
              !.authority.registrations = RenamedKeys(@, to),
              !.authority.populations = RenamedPopulations(@, to)]

\* Two arms whose ledgers a join takes for the same state are the same but
\* for the names of anchors: one may go on for both.
JoinedArmsAgree ==
    \A a, b \in Arm :
        LET left == path[a].root
            right == path[b].root
        IN RecordsSameState(left, right) =>
              \E to \in [DOMAIN left.authority.anchors -> DOMAIN right.authority.anchors] :
                 Renamed(left, to) = right
=============================================================================
