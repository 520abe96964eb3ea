# Click kernel: a TLA+ development

Click verifies C, C++ and Rust programs.  Its trusted core is `src/kernel/`: a
symbolic evaluator that hands out *authority* over resources (memory ranges,
tokens, folded composites, mutexes, counted populations, publication rights) and
refuses every step that is not authorised.  What makes a Click proof mean
something is that this bookkeeping is right in every order in which a function,
its callees, its workers, its loops and its branches can use it.  Around it are
the parts that touch the world: the process that runs a C compiler, and the
markers with which a proof is not repeated.

Source paths below are relative to `src/src/`.

## 1. Inventory

| component | state | operations | interacts with | what makes it correct |
|---|---|---|---|---|
| **loan ledger** `kernel/loans.rs` | scopes, loans, shares, holds, identity counters, an interval index and a list of symbolic ranges (the *barrier*), two fail-closed counters | lend, lend_mutex_use, lend_composite, borrowed roots, reborrow, project, split, transfer, join, hold, release, end, recover | everything below; owners leave and re-enter the resource context | a resource is writable or viewed, never both; shares are conserved; the barrier covers every view; owners come back |
| **call boundary** `StableViewTransferPlan` in `loans.rs` | plan of one call: predecessor ledger, opened roots, suspended bindings | lend local views, recover stable views, recheck entry | loan ledger, exclusive calls, mutex uses | after the call the caller has exactly what it had |
| **exclusive calls** `loans/exclusive_calls.rs` | active reservations, children counts, holder map, state identity of the ledger | open, return; issue and apply of checked transitions | call boundary | a caller's reservation outlives those of its callees; a receipt names one call although ledgers are rolled back |
| **local references** `loans/local_references*.rs` | reference roots, leases, source plans, open scope frames | birth, reborrow, end; begin and close a scope | loan ledger, resource context | a closed scope restores the base ledger and loses nothing; an ended lease stays ended |
| **thread ledger** `kernel/threads.rs` | completion rights, an undecided creation with its stores, worker counts of mutexes, loan trace | create, resolve, join, return | loans, mutexes, populations | no race and no stale memory, whatever the system decided and whenever the parent learns it |
| **mutex ledger** `kernel/mutexes.rs`, `mutexes/` | an entry per initialized mutex, guards, escrowed invariants, conditional loop clauses, obligation counters | init, lock, unlock, destroy, lend and recover a use, loop entry, back edge, return | loans, threads, loops | the ledger knows which mutex is held; a payload is in one place; exits are covered |
| **population authority** `kernel/population_authority.rs`, `c_creation.rs` | anchors, populations, members, obligations, storage, taint, zero evidence | establish, produce, consume, move, retire; storage lifetimes; calls, workers, deferred changes; join of arms | threads, evaluator | counts are exact, no member escapes its authority |
| **publication** `kernel/publication.rs` | publisher and subscriber rights of atomic flags | atomic_init, release store, acquire load, settling at a branch | threads, resource context | a payload is given and taken once, with its facts |
| **difference graph** `kernel/difference_graph.rs` | nodes, edges, intervals, waiting links, exclusions | assume, decide | fact contexts | every answer follows from the facts |
| **fact contexts** `kernel/assumptions.rs`, `ContextDifferenceGraph` | facts, shared cells of graphs | assume, replace, forget, restrict, clone, ask | proof branches | a branch reads the graph of its own facts |
| **compiler process** `languages/compiler_process.rs` | child, pipes, collected output, deadline | launch with retries, poll, drain, wait, kill, drop | operating system | complete output or an error; no survivors; it returns |
| **incremental verification** `bin/click-verify.rs`, `surface/verification.rs` | success markers in the git metadata | load, select, verify, record | user, git | a reused proof was checked, by this executable, with this input |
| compiler imports, named authority, equality graph, symbolic evaluator, term algebra, surface language, front ends, tools | see section 6 | | | |

The hard behaviours: participants act on one ledger in any order; a share can be
split, pinned under a reborrow and passed on many times before it must be whole
again; ordinals are reissued after a rollback; a thread creation is undecided
while the parent goes on; a branch tests a loaded flag after others moved on;
loops and joins compare states by a part of them; caches are shared by clones;
compilers fork, hang and outlive their parent; users edit while a verifier runs.
`PROJECT.json` lists each one as a hazard at its line.

## 2. Modules

| module | role |
|---|---|
| `LoanLedger` | the loan ledger: one action per checked transition, and its properties |
| `StableViews` | abstract specification: what the ledger promises about one owned resource, without scopes, shares, pins or holds |
| `LoanInstance`, `MCLoanLedger` | the small instance; the refinement mapping onto `StableViews` (`Lender`, `Readers`, `ImplementsStableViews`) is in `LoanLedger` |
| `LoanWindDown`, `MCLoanWindDown` | any use of the ledger followed by giving everything back, for liveness |
| `LoanLedgerProofs` | the theorems of the loan ledger: safety, the write barrier, shares, and the refinement of `StableViews` |
| `ExclusiveCalls`, `ExclusiveCallsProofs` | exclusive calls over all versions of the persistent ledger |
| `LocalReferences`, `LocalReferencesProofs` | scalar references and the scopes that roll them back |
| `ThreadLedger`, `ThreadLedgerProofs` | creation, resolution and join beside the execution they stand for |
| `MutexLedger`, `MutexLedgerProofs` | the mutexes of one path and the conditional guard clause of a loop |
| `PopulationLedger`, `PopulationLedgerProofs` | counted populations of resources over C storage, in the arms of a branch |
| `Publication`, `PublicationProofs` | verified threads that hand payloads through flags |
| `WordTerms`, `DifferenceGraph` | the meaning of integer terms; the graph and its answers |
| `FactContexts` | contexts, their clones and shared cells |
| `CompilerProcess` | one invocation of an external compiler beside its processes |
| `IncrementalVerification` | markers and selection beside editing, commits and installs |
| `MachineryProofs` | the theorems of the compiler process, incremental verification and fact contexts, which share no state |
| `MCCaches` | the instance of incremental verification, fact contexts and the difference graph: what is kept to be used again, one system per behaviour (`active`) |
| `MCTactics`, `MCConvertedSums` | the two small instances in which the code breaks what its comments say (section 5) |

Each other `MC...` module gives the constants of its run.  Operators named in the
style of a mistake, and marked *Mistake* in their comment, are plausible bugs: a
property of the module fails when one of them takes the place of the definition
it stands before.

### How `LoanLedger` corresponds to `loans.rs`

* A behaviour is one path of the persistent ledger.  `LoanLedger::x` checks a
  transition (`issue`) and `apply` repeats the checks in `apply_evidence`; an
  action is both at once, on the ledger the transition was issued for.
* `scopes`, `loans`, `shares`, `holds`, `next` are the maps and counters of
  `LoanLedgerData`.  Every opening advances `next_scope` and `next_loan`
  together, so one ordinal stands for both.  A binding (loan, scope, share,
  support) is named by its share.
* `index`, `unindexed`, `count` are `active_memory_index`/`_subtree`,
  `unindexed_memory`, `active_memory_loans` and `active_nonlocal_indexed_ranges`.
* `owner` stands for the resource contexts: `lend` takes the owned occurrence out
  of the lender's context, `recover` puts the escrow back.
* `OpenRoot` is what the four root openings share; `OpenChild` is the `Reborrow`
  arm, which pins the share and deliberately does not enter symbolic ranges.
* Early returns are conjuncts: `ValidAuthority` is `validate_authority_binding`,
  `ScopeCanEnd` the checks of the `End` arm, and so on.

Data abstracted away: resources are names with a kind, a one-level frontier, and
the relations *covers* and *overlaps* (given as constants, with the assumptions
the range algebra justifies: covering is reflexive, overlap is monotone in it, a
range overlaps a local block only from within).  Left out: facts
adapted from assumptions, pointer aliases, empty ranges, foreign arenas, forged
evidence, occurrence splitting, and `register_dependency`, which is compiled for
tests only.

### How the other modules correspond

**`ExclusiveCalls`**.  A transition is issued against one version (`Open`,
`Return` with `ValidateExclusiveCall`) and presented to any version later
(`Apply`, guarded by `Accepts`, the comparison of state identities).  `ledgers`
is every version ever made, since a call that leaves nothing behind resumes at
its predecessor.  `nextCall` and `nextState` are the two process-wide counters;
`at` says who has each occurrence.

**`LocalReferences`**.  `Birth` is the registration with the first borrow, as
`memory.rs` performs it, `EndRoot` the end of the first lease with the recovery
of the owner.  `frames` is the stack of scope frames, each with the ledger of its
entry; `rest` numbers the other transitions, which an open scope refuses.  The
resource context (`place`) and the identity counter are not rolled back.
`ended` is a history variable.

**`ThreadLedger`**.  `auth` bundles what a creation replaces as a whole:
resources, loan ledger (its steps) and thread ledger.  `Create` leaves the parent
with `Neutral`, the authority common to both outcomes, and with `pending`; stores
are recorded as deltas and replayed by `ResolveSuccess`.  `worker`, `bytes` and
`joining` are the execution: whether the system created the thread, what memory
holds, which joins wait.  Workers are verified, so they write only what they took
and terminate when they get their mutexes.

**`MutexLedger`**.  `st` is the `CState` of one path, `top` the one at the loop
head; the fields are the resources, the entries, and the counters and indexes
beside them.  `real`, `spoiled`, `ended` and `flag` are the run.  An address
either is a mutex or is not: symbolic aliasing is left out.  The loop part is
`EnterLoop`, `EnterConditionalLoop`, `Branch`, `SetFlag`, `BackEdge`, `ExitLoop`;
a loop is one arbitrary visit of its body.

**`PopulationLedger`**.  `path[a].root` is the ledger of an arm; suspended
callers, workers and the members the arm has folded are beside it.  `authority`
is the abstract ledger of `population_authority.rs`, the other fields of `root`
are `c_creation.rs`.  `loose` is a ghost: families with a member that no
authority counted when it was made.  The comparison of two arms is a predicate
(`RecordsSameState`), judged in every pair of reachable ledgers.

**`Publication`**.  A flag is `None`, zero or nonzero.  An acquire load may
return a stale zero (C11 lets it) and leaves an observed right; `Resolve...` is
the branch that tests the value, with any steps of others in between.  A store
forgets (`Havoc`) what the thread knew of the payload.

**`WordTerms`, `DifferenceGraph`**.  Terms are trees; their meaning is an integer
for each assignment.  The graph does the code's work in the code's order,
including the limits on propagation and search.  Widths are parameters: no rule
of the graph mentions a width other than through ranges of domains and types.

**`FactContexts`**.  A graph is the set of facts it was built from.  Cells are
what `Arc<OnceLock<..>>` points to; `IsNew` is an allocation.  `forgot` is a
history variable: contexts that withdrew a fact, or were cloned from one.

**`CompilerProcess`**.  `pc` walks through the function; one read, one `try_wait`,
one signal is one step.  Processes fork, leave the group (`LeaveGroup`), write, exit
and die some time after `SIGKILL`; a pipe is closed when nobody holds it.  The
compiler may leave too: it leads its group, so `setsid` is refused, but `setpgid`
moves it to another group of its session, where `kill(-pid)` does not find it.  `kin`
is a history variable: who never left the group, as itself or as an ancestor.

**`IncrementalVerification`**.  A file version is a record of what the selection
compares and of what it does not.  `proved` is a ghost: the proofs an executable
checked, each with everything it depends on (`View`).  A call of a function
without a block is refused before the selection sees it (`WellFormed`).  A view
includes the tactics, which the selection (`SelectionOf`) does not compare;
`UpToTactics` is a view without them.  The inline
helpers of a header, which may go without, count as part of the header.  What a
change reaches is the least set closed under the calls of both versions
(`Closure`), which is what the code's work list computes.

## 3. Runs

| run | instance | states | properties |
|---|---|---|---|
| `loan_ledger` | 2 participants; an owned list (a concrete cell and a nested symbolic buffer), token and mutex, a received mutex and buffer, a local view; 3 loans, 4 shares, 1 hold | 105,537 | `TypeOK`, `ShareConservation`, `ReborrowPinsParent`, `HoldsKeepScopesOpen`, `OwnerExcludesReaders`, `EscrowConserved`, `BarrierCountsExact`, `BarrierCoversViews`, `MutexUseRooted`, `ReaderStability`, `ImplementsStableViews` |
| `loan_wind_down` | a token and a received buffer, 3 loans, 5 shares, 1 hold | 214,884 | `OwnersComeBack` |
| `exclusive_calls` | 3 participants, 2 occurrences, 3 calls, 6 state identities | 175,093 | `StateNamesLedger`, `ReceiptNamesOneCall`, `ReservationsHeld` |
| `local_references` | 2 invocations, 3 scalars, 5 references, 2 nested scopes | 656,152 | `BalancedScopeIsEntry`, `OneLeasePerOwner`, `EndedLeasesStayUnusable` |
| `thread_ledger` | a cell, a local, a mutex; 2 workers, 2 undecided stores | 255,120 | `NoDataRace`, `MemoryAgrees`, `WitnessIsThreadSteps`, `JoinsReturn` |
| `mutex_ledger` | an automatic and a heap mutex, 1 payload of 2 contents, a loop, 2 initializations, 2 acquisitions | 462,900 | `PayloadInOnePlace`, `AuthorityIsCurrent`, `LedgerTellsRuntime`, `ExitsCovered` |
| `population_ledger` | 2 arms, 1 heap block, 1 unresolved request, 1 family, counts up to 1, 5 identities, 1 call | 522,229 | `CountsExact`, `NoMemberUncounted`, `JoinedArmsAgree` |
| `publication` | 3 threads, 2 flags, 2 payloads, 2 values | 625,863 | `PayloadInOnePlace`, `ReceivedFactsHold`, `KnowledgeIsCurrent` |
| `compiler_process` | 3 process numbers, limit, pipe and buffer of 1 byte, 2 reads a drain, 1 retry | 518,231 | `SuccessIsComplete`, `NoSurvivors`, `AlwaysReturns` |
| `caches` | *markers*: 1 sidecar of 2 functions, 3 versions, 2 executables, 2 commits, 2 runs; *cells*: 2 contexts, 3 cells, 2 conditions of which one is read; *graph*: 13 facts (3 at a time), 19 questions, 1/2/4-bit words, edge limit 2 | 1,506,475 | `MarkersAttestProofs`, `VerdictsAreProvedUpToTactics`, `BranchesReadTheirFacts`, `BuiltGraphsStay`, `GraphAnswersFollow` |

Two runs expect a violation.  Each checks what a comment of the code says, on an
instance in which the code does something else; section 5 explains them.

| run | instance | property violated |
|---|---|---|
| `tactic_edits` | 2 functions, 2 versions that differ in a tactic | `VerdictsAreProved` |
| `converted_sums` | 2 facts, one with a conversion of a sum | `AnswersFollow` |

`caches` explores three systems that share no state, each by itself: the initial
state chooses which one moves (`active`), so its states are the sum of theirs and
not the product, and a property of one is judged in all of its states.

Deadlock is checked in `local_references`; the other systems may stop: identity
counters are bounded, processes end, a function returns, a commit budget is used
up.  Symmetry is used for interchangeable participants, arms and workers, in runs
without liveness only.  `loan_ledger` has a state constraint
(`Small`): one participant owns everything at first, and ledgers in which the
token, the owned mutex or the received buffer is lent are explored up to two loans
and three shares.  `mutex_ledger` has a view (`Readable`): states that differ in
the history since the loop head, where no later step reads it, are one state.

Why the bounds suffice:

* *Loans.*  Three loans are a root, a reborrow and a reborrow of that (the
  deepest shape in which "the scope above the scope above" matters), or a loan,
  its recovery and a second loan of the same owner with a reborrow.  Four shares
  are a root that is split beside a reborrow.  The wind-down has a fifth, with
  which a scope can be split beside two nested reborrows.  Two participants
  suffice because no check distinguishes a third party from the other one.
* *Exclusive calls.*  Three calls are a call, one nested in it, and one on another
  branch after a rollback; six identities allow each to be opened and returned.
* *Local references.*  Five references are two chains of borrows and a new birth
  after one of them was rolled back.
* *Threads.*  Two workers share a mutex; one creation can be undecided while the
  other worker runs.  Two deltas are a store and one that overwrites it.
* *Mutexes.*  Two initializations and two acquisitions are what a stale authority
  or guard needs.
* *Populations.*  Five identities are two anchors, the root holder, a callee and a
  population; a block can be freed and allocated again.
* *Publication.*  Two flags and two payloads let a payload come back through a
  second flag, and two flags name one payload.
* *Difference graph.*  Two bits are the smallest word with a wrap inside and at
  its ends; three facts are a cycle, or two terms with a link and a bound.  No fact
  or question of `caches` is a conversion of a sum: those are `converted_sums`.
* *Fact contexts.*  Two contexts are a context and its clone; three cells are one
  for each and one that nobody refers to.
* *Compiler.*  Three processes are the compiler, a member of its group and one
  that left it; limit and buffer of one byte put every read at the boundary.
* *Incremental.*  Two commits and two runs are a marker and its reuse.  One version
  edits a body and closes a call cycle with a function that did not change; the
  other edits the header, which one function includes, together with a tactic, so
  that the other function is reused across an edit of a tactic.

What the less obvious properties say:

* `ShareConservation`: there is a share tree of every open scope whose leaves are
  exactly the held or pinned shares, so `end`, which looks at the root share
  alone, has seen everything (the shape `invariant_holds` tests on sampled
  ledgers).
* `ReaderStability` (action property): only a participant's own step can take
  away something it can read.
* `BarrierCountsExact` compares the counters, kept incrementally, with the open
  loans; `Project` changes a loan between its opening and its end.
  `BarrierCoversViews` quantifies over the byte ranges of every valid view and
  every write the barrier would let through.  The ranges are those the opening of
  the resource enumerated and those the loan has in the index; a symbolic range
  that only a projection exposes has no entry in the code either, and is protected
  by its owner being in escrow.
* `ImplementsStableViews`: the readers of an occurrence are the holders of
  unpinned shares of open scopes over it; every ledger step is a `StableViews`
  step or stutters.
* `StateNamesLedger`: equality of ledgers compares identities only, so identities
  must tell versions apart on all branches.
* `MemoryAgrees`: knowledge survives a creation that is resolved only later, and
  is dropped for payloads another worker may have changed.
* `LedgerTellsRuntime`, `ExitsCovered`: what the ledger says of a mutex is what
  the run has, through lending, folding, storage ends and loop abstraction; a back
  edge and a return are accepted only in states that are described.
* `JoinedArmsAgree`: two ledgers a join accepts differ by a renaming of anchors.
* `NoSurvivors`: at the return the compiler has been reaped, and who never left its
  group is dead or has been sent `SIGKILL`.
* `AlwaysReturns`: the function returns, or it waits for ever in the `Drop` of the
  guard for a compiler that left its group and does not end (`CompilerStrayed`).
  The second case is real (section 5); the property says that it is the only one,
  whatever the compiler and its descendants do.
* `VerdictsAreProvedUpToTactics`: a success speaks only for functions of which this
  executable checked a proof with the same contracts, declarations, bodies, callees
  and target, with at most other tactics.  `VerdictsAreProved` wants the same
  tactics too.
* `AnswersFollow` judges every answer on all assignments of the words.
  `GraphAnswersFollow` is `AnswersFollow` in the behaviours of the graph.

### Fairness

* `LoanWindDown`: weak fairness of the returning steps once `returning` is set.  A
  call that returns runs its recovery to completion in one function
  (`recover_stable_views_impl`).  The model lets these steps interleave in any
  order, which is more than the code does; the property says that no order gets
  stuck.
* `ThreadLedger`: a running worker finishes when its mutexes are free, and a join
  of a finished worker returns.  Workers are verified terminating functions
  scheduled by the system; that a mutex becomes free is not assumed.
* `CompilerProcess`: the caller runs, the clock passes the deadline, and a process
  that was sent `SIGKILL` dies.  Nothing is assumed of a process that was not
  signalled, in particular not that it exits, closes a pipe or stays in its group.

## 4. Proofs

The theorems hold for every value of the constants that satisfies the named
assumptions: any number of participants, resources, scopes, threads or flags.
Each rests on an inductive invariant.

**`LoanLedgerProofs`** has three parts, in the order of the file.  *Safety.*  It
proves `TypeCorrect`.  `TypeOK` is not inductive (a
reborrow reads the loan of the share's scope), so the proof carries `TypeInv`,
which adds that every share belongs to an issued scope.

It goes on to prove, for any participants, resources and bounds,
`OwnersExcludeReaders`, `EscrowIsConserved`, `ReborrowsPinParents` and
`HoldsKeepOpen`: the invariants `OwnerExcludesReaders`, `EscrowConserved`,
`ReborrowPinsParent` and `HoldsKeepScopesOpen`.  `OwnerExcludesReaders` needs that
ending a root leaves no open scope below it, at any depth, but `end` only looks at
direct dependencies.  `SafeInv` records the reborrow forest: parents are older
than their children and have the same support, an open child pins its share and is
a dependency of an *open* parent, dependencies are open children, a root over an
owned occurrence is an escrow, open loans are unrecovered, and an occurrence is in
escrow of exactly one unrecovered loan while no context has it.  Then the *oldest*
open scope over an occurrence has no parent (`OpenScopeKeepsEscrow`, by the
least-number principle), so it is an open, hence unrecovered, escrow, hence nobody
has the owner.  Each action has a lemma about the fields it changes (`...Effect`)
and a lemma that the invariant survives it (`...Safe`).

*The barrier.*  It proves `BarrierCountsAreExact`, `BarrierCoversEveryView`
and `MutexUsesAreRooted`.  `Barrier` says what the barrier holds of each open loan:
the bytes of a loan without a parent are those its opening enumerates
(`OpenedBytes`); the index has the indexed bytes of every open loan, and the
symbolic list the others of loans without a parent (`Entries`); the two counters
are the numbers of protecting loans and of entries outside local blocks (`Counts`);
and the root of a mutex loan is its own or that of the loan above (`MutexRoots`).  A
view deep in reborrows is covered through the opening it descends from, which the
reborrow forest keeps open.

*The shares.*  It proves `SharesAreConserved`, `ReadersAreStable` and
`LedgerImplementsStableViews`.  The share tree of the property is carried by the
invariant as a set (`Partition`): it has the roots of the open scopes and every live
share, the parent of a member is a member that was split into it, and a member that is
not live is split into two members.  `Links` says how the records of a share refer to
each other (a share is older than its parts, and pinned only by an open child scope),
so a step changes the set at one place: a split adds two, a join and an end remove
what they close.  For the refinement, `Views` characterises the lender of an
occurrence and its readers by escrowed loans and held shares of open scopes; each
action is then a lend, a passing on, a return or a stutter of `StableViews`.

**`ExclusiveCallsProofs`** proves `StateIdentitiesAreExact` (`StateNamesLedger`),
`ReceiptsAreUnique` (`ReceiptNamesOneCall`) and `HoldersAgree`
(`HoldersAreCallees`).  Contents can only be compared through where they came
from: `Lineage` says that every transition has an after-identity of its own and
that every version but the first is the effect of a transition on a version with
its before-identity, so two versions with one identity are the same effect on,
inductively, the same version.  `Receipts` says that every receipt on record is
that of a transition and that its identity determines it; `Counters` keeps fresh
identities fresh.  `ReservationsStay` (`ReservationsHeld`) needs the counters
of children: `Family` says a call counts exactly its open children, whose caller is
its callee, and `Reserved` that what a call reserved is with its callee or in one of
these; a call may return only at count zero, when nothing is left with a child.

**`LocalReferencesProofs`** proves `ScopesBalance` (`BalancedScopeIsEntry`),
`OwnersHaveOneLease` (`OneLeasePerOwner`) and `EndedStayEnded`
(`EndedLeasesStayUnusable`).  A scope is closed by restoring the ledger of its
entry, so what the properties need of the current ledger is part of `ScopeInv` for
every remembered one as well: `Sound` says that parents and children name each
other, that the usable references are one for each root, and that holder counts and
source plans follow from the roots and the active references.  `Within` relates a
frame to the ledger of the frame it encloses, and the innermost one to the current
ledger: references from before the scope are as they were, except that the child of one may
be an active reference of the scope.  When no reference of the scope is active, that
exception is void, which is `ScopesBalance`.  Identities and the resource context
are not rolled back, which is why `Issued` and `Placed` are separate.

**`ThreadLedgerProofs`** proves `NoRaces` (`NoDataRace`), `MemoryIsTrue`
(`MemoryAgrees`) and `WitnessesAreThreadSteps` (`WitnessIsThreadSteps`).  The system
has decided a creation that the parent still waits to learn about, so `ThreadInv` is
about the *outcome*: the authority and the memory the parent will have once it knows
(`Outcome`, `OutcomeMemory`).  `Fits` says that authority has a right for exactly
the open workers, none of what they took, and counts their views and mutex uses;
`Known` and `Hidden` that the outcome's memory is true and says nothing of what
workers may write; `Neutrality` that the undecided parent has no more authority than
either outcome and sees the same values where it can read.  A store changes the
outcome's memory as it changes the parent's because the last remembered store to an
object decides what is replayed (`ReplayedStore`).  `Traced` describes a trace as two
moments of the loan ledger with only creates and joins between them.

**`MutexLedgerProofs`** proves `PayloadStaysInOnePlace` (`PayloadInOnePlace`),
`AuthorityStaysCurrent` (`AuthorityIsCurrent`), `LedgerStaysTrue`
(`LedgerTellsRuntime`) and `ExitsStayCovered` (`ExitsCovered`).  `MutexInv` says of
the path that its ledger is `Sound`: `Custody` places the lifetime authority of a
mutex (owned, folded or lent), its guard (out exactly while the entry is locked) and
its uses (of the loan that is out); `Payload` has each protected instance owned or in
escrow of one mutex, and not borrowed there; `Counted` makes the two counters exact.
`Mirrors` ties every entry to what the run holds.  Loops need two things more
(`Headed`): the state at the head is sound as well, and an entry outside `changed` is
still the head's, so that a back edge that compares the changed entries only has
compared all; a clause of the head is told by the condition while that is the same.

**`PopulationLedgerProofs`** proves `CountsStayExact` (`CountsExact`),
`MembersStayCounted` (`NoMemberUncounted`) and `JoinsStaySound` (`JoinedArmsAgree`).
`PopulationInv` has two levels.  `AuthInv` is about one abstract ledger: what it
counts (obligations, totals, registrations) is the size of a set or a sum over all
holders, and registrations and populations name each other.  Each operation has a
lemma about the fields it changes (`...Fields`) and one that `AuthInv` survives it
(`...Keeps`); that a move changes no total is a bijection of the members it hands
over.  `RootOk` ties the records of C storage to the ledger: live blocks have anchors
of their own (`Storage`), what was made outside an authority is remembered as taint
where no authority is (`Remembered`), and a zero answer is about a family that was
established and retired, so that it is never established again (`ZerosRetired`).
`Holders` keeps suspended callers and workers apart, so that giving and taking is
between two holders.  For the join, the anchors at the blocks in which two ledgers
differ are renamed block by block; this is a bijection because anchors of different
blocks differ, and it changes no population because those anchors never had one.

**`MachineryProofs`** has three parts.  *Compiler process*: `SuccessStaysComplete`
(`SuccessIsComplete`) and `NoneSurvive` (`NoSurvivors`), for any number of processes
that fork, leave the group, write and die as they like.  `CompilerInv` says when there
is a child (`Launched`), that the processes of its group carry its number and that a
zombie is the child, in its group or not (`Grouped`), that nothing of the group can fork after the kill of `Drop`
(`Killed`), and that output and pipe together are what was written until the limit is
hit, while a stream that was closed has no writer left (`Collected`).

*Incremental verification*: `MarkersStaySound` (`MarkersAttestProofs`) and
`VerdictsStayProved` (`VerdictsAreProvedUpToTactics`), for call graphs of any shape
and any edits, those of tactics included.
`IncrementalInv` says of every run that what it did not select is proved already and
that it may write markers only when everything is, and of every marker that it attests
proofs of the commit it names.  The step that reuses proofs needs that a function not
reached from a change reads the same in both versions, tactics apart (`Closure` and
`UpToTactics`); since a reused proof may itself have been reused, the invariant is
about `Checked` proofs, which is closed under this.  Both theorems have one
hypothesis, `~ ExeByPath`: the executable is fingerprinted as the file it was started
from, which is how the code reads on Linux (section 5).  The run is an instance of it.

*Fact contexts*: `GraphsOfBranches` (`BranchesReadTheirFacts`) and
`BuiltGraphsAreFixed` (`BuiltGraphsStay`).  Contexts that share a cell and are not in
`forgot` have the same expressed facts, and every change of facts takes a cell nobody
refers to.

**`PublicationProofs`** proves `PayloadIsExclusive` (`PayloadInOnePlace`),
`ReceivedPayloadsKeepTheirFacts` (`ReceivedFactsHold`) and
`ThreadKnowledgeIsCurrent` (`KnowledgeIsCurrent`) for any threads, flags and
payloads.  A store gives a payload away without a receiver and a branch takes it
without a giver, so exclusiveness rests on the rights: `FlagStorage` (storage has
one owner and is gone once a flag is initialized, so rights are minted once),
`Rights` (one right per side and flag, both name one payload, a publisher right
means nothing was published, an observed nonzero value means it was),
`Exclusive`, `NotRunning` and `Forgotten` (a thread knows nothing of objects it
gave away, which is what makes knowledge current when they return).

The proofs rest on the named assumptions of the modules about their constants,
which say what kind of thing each is and which the runs evaluate.  Three say more.
`ThreadAssumption`: different mutexes protect different objects, since the
invariant of a mutex owns what it protects.  `FootprintAssumption`, about the memory
map of the loan ledger: covering is reflexive, overlap is monotone in it, and a
range overlaps a local block only from within.  `IncrementalAssumption`: versions are
`WellFormed`.

Only model-checked:

* Liveness (`OwnersComeBack`, `JoinsReturn`, `AlwaysReturns`): out of the prover's
  reach.
* `GraphAnswersFollow`: `DifferenceGraph` and `WordTerms` use recursive operators, about
  which this prover cannot reason.

Every other property of the passing runs, invariant or action property, is a theorem.

## 5. Disagreements met while modelling

In these cases the code does something that its documents or comments do not say.
The first two are findings with runs of their own.  The others are outside the
instances or the properties of the passing runs, and each can be seen by a small
change of a run.

* *Tactics* (`surface/verification.rs:1503`, run `tactic_edits`).  The selection
  does not compare `tactic_definitions`, so an edit of a tactic selects nothing and
  the run reports success, although line 1498 says "Every file-level declaration a
  proof can depend on belongs here."  `VerdictsAreProved` fails; what holds, and is
  proved, is `VerdictsAreProvedUpToTactics`.
* *Sums under conversions* (`kernel/difference_graph.rs:1455`, run
  `converted_sums`).  `link_fits` ignores the offset of a link that must keep
  non-negative values, and `node` (line 633) files the link of a conversion with the
  offset of its base folded in.  From `0 <= x` and
  `u = UInt64From32(x - 1)` the graph answers `1 <= x`, which `x = 0` refutes, and
  `AnswersFollow` fails.  The comments at lines 50-52 and 1450 say the link waits
  until the value "is non-negative".
* *Strayed compiler* (`languages/compiler_process.rs:162` and `173`).  A compiler
  that moves itself to another group of its session escapes `kill(-pid)`, and the
  `wait` in `Drop`, which has no deadline, then blocks until it ends; lines 1-5 say
  "Owned, bounded execution" and that every exit cleans up "before returning".
  `<>(pc = "returned")` alone fails in `compiler_process`, which is why
  `AlwaysReturns` has a second disjunct.
* *Cleared graphs shared by clones* (`kernel/difference_graph.rs:1373`).  A clone
  of a context whose graph is cleared shares the empty cell, and whichever asks
  first fills it with its own facts; lines 1315-1318 say it is "rebuilt from the
  context's facts".  This is why `BranchesReadTheirFacts` speaks of contexts
  outside `forgot`; without that restriction it fails.
* *Tactics* (`surface/verification.rs:1503`).  The selection does not compare
  `tactic_definitions`, so an edit of a tactic selects nothing, although line 1498
  says "Every file-level declaration a proof can depend on belongs here."  Add a
  version with another `tactics` to `mcEdits` and `VerdictsAreProved` fails.
* *Fingerprint by path* (`bin/click-verify.rs:1169`).  The executable is
  fingerprinted after the proofs; where `current_exe` is a path, one installed
  meanwhile is attested.  `ExeByPath = TRUE` in `caches` makes `MarkersAttestProofs`
  fail.
  (`docs/internals/testing.md:1250`: the marker is "for that exact commit,
  sidecar, and Click executable".)
* *Zero evidence* (`kernel/population_authority/c_creation.rs:1649`).  After an
  authority was retired at zero, a named member can be created at the same live
  block without authority, and the count is still answered with zero;
  `mdtests/authority_count_after_cleanup.md:3` says the family "remains empty".
  `NoMemberUncounted` speaks of live populations only; the stronger statement,
  that `CheckedEmpty` excludes members in `loose`, fails.
* *Signals after reaping* (`languages/compiler_process.rs:162`).
  `kill_descendants` signals the group `-pid` after `try_wait` has reaped the
  compiler; with the group empty the number may be another's by then.  Line 159
  says it "addresses only that owned group".  The model has no other processes.

## 6. Not modelled

* *Call boundary*: the plan that decides which resources a call lends; the
  rollback of its ledger is in `ExclusiveCalls`, the return in `LoanWindDown`.
* *Compiler imports* (`project.rs`, `languages/c/compiler_import.rs`): preparation
  and loading race on files with editors and other preparations.
* *Pointer classes and the equality graph*: the union-find of pointers and a
  congruence closure over more than twenty kinds of terms.  Also left out of the
  difference graph: residues of low bits, scaled pointer offsets, intervals of
  products, quotients, masks and conditional values, overflow of shifts.
* *Named authority*: a map from names to authorities that decides nothing itself.
* *Populations* imported without a known total, symbolic batches, wildcard scopes,
  and the caches that return the same successor when a step is rechecked.
* *Mutexes*: contracts of helpers that are given a use, the shape of invariant
  declarations, functions that only preserve mutexes; one participant.  The
  adapters `lend_use` and `recover_use` of `mutexes.rs`, which `LendUse` and
  `RecoverUse` translate, are compiled for tests; a call that passes a use makes
  the same steps of the ledger (`loans/mutex_calls.rs`).
* *Compiler process*: a compiler that closes its pipes before it ends, and one that
  comes back into the group it left.
* *Incremental*: sidecars with imports or a C profile (always rebuilt in full and
  never recorded), `--explain`, and the proof checking itself.
* *Evaluator, term algebra, assumption indexes, surface language and tactics,
  front ends, tools*: large sequential functions of the program text, without
  interleaving and far beyond a small instance.  They are represented by the orders
  in which they may call the ledgers.

Two simplifications inside the loan ledger deserve a name.  Applying evidence
first advances the local-reference scope (`advance_local_reference_scope`), which
is the subject of `LocalReferences`.  A query outside the indexed ranges is
answered in the code by looking at every pointer alias of its base; the model
gives each range one base, so the test becomes membership in `LocalBlock`.

## 7. Plan

Done: the loan ledger with its abstract specification and wind-down, exclusive
calls, local references, threads, mutexes, populations, publication, the
difference graph, fact contexts, the compiler process, incremental verification;
theorems for the safety properties of all of them but the difference graph.

Next, in this order:

1. The thread ledger over the loan ledger itself, instead of over its steps.
2. The races of compiler imports; the classes of pointers.
3. The difference graph without recursive operators, to prove what does not need
   induction over its terms.
