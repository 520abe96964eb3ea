---------------------------- MODULE MutexLedger ----------------------------
(***************************************************************************)
(* Mutexes of the modelled pthread runtime (src/kernel/mutexes.rs, its     *)
(* loop abstraction in src/kernel/mutexes and its callers).  The symbolic  *)
(* state of one path keeps, besides the resources it owns, a ledger entry  *)
(* for every initialized mutex: unlocked with its invariant in escrow,     *)
(* locked under an acquisition epoch, or, inside a loop with a conditional *)
(* guard clause, held exactly when the clause's condition was true at the  *)
(* loop head.                                                              *)
(*                                                                         *)
(* A CState is one record, because the code passes it as a value and       *)
(* compares the state at a back edge with the one at the loop head.  Next  *)
(* to it the module has the execution it stands for: whether each mutex    *)
(* really is held, the value of the loop's condition, and what happened to *)
(* the bytes a mutex lives in.                                             *)
(***************************************************************************)
EXTENDS Integers, FiniteSets, FiniteSetsExt

CONSTANTS
    Mutex,      \* mutex pointers
    Automatic,  \* those in automatic storage; the others own their bytes
    Instance,   \* folded resource instances usable as invariants
    Protects,   \* Instance -> the mutex its declaration names
    Content,    \* field values an instance may have
    Lendable,   \* mutexes whose use the program lends
    Foldable,   \* kinds of authority the proof folds: "live", "guard"
    HasLoop,    \* whether the path has a loop
    MaxInit, MaxEpoch,  \* bounds: the two identity spaces
    None        \* Option::None

VARIABLES
    st,         \* the CState of the path
    top,        \* the CState at the loop head, with the mutexes really held
    phase,      \* "line", "body" of a loop, "after" it, "closed", "returned"
    flag,       \* the value of the condition of the loop's guard clause
    sameAsHead, \* the condition still has its symbolic value of the head
    headKnown,  \* a branch of the path decided that value
    real,       \* Mutex -> "none", "free" or "held" at run time
    spoiled,    \* mutexes whose bytes were written or ended while live
    ended,      \* mutexes whose storage ended
    nextInit, nextEpoch

vars == <<st, top, phase, flag, sameAsHead, headKnown, real, spoiled, ended,
          nextInit, nextEpoch>>
loopVars == <<top, phase, flag, sameAsHead, headKnown>>
runtime == <<real, spoiled, ended>>

(***************************************************************************)
(* Resource facts.                                                         *)
(***************************************************************************)
Fact(k, x, n) == [k |-> k, on |-> x, id |-> n]
Live(m, init) == Fact("live", m, init)
Guard(m, epoch) == Fact("guard", m, epoch)
Use(m, init) == Fact("use", m, init)
Storage(m) == Fact("storage", m, 0)
Carrier(m) == Fact("carrier", m, 0)
InstanceFacts == {Fact("instance", i, c) : i \in Instance, c \in Content}
FactType ==
    [k : {"live", "guard", "use", "storage", "carrier", "instance"},
     on : Mutex \cup Instance, id : Nat \cup Content]

(***************************************************************************)
(* Ledger entries.  inv is the set of the escrowed fact, empty for None;   *)
(* an entry has an interface exactly when it has an invariant.             *)
(***************************************************************************)
Unlocked(init, inv) ==
    [status |-> "unlocked", init |-> init, inv |-> inv, epoch |-> 0,
     hold |-> FALSE, held |-> FALSE]
Locked(init, inv, epoch, hold) ==
    [status |-> "locked", init |-> init, inv |-> inv, epoch |-> epoch,
     hold |-> hold, held |-> TRUE]
ConditionalLoop(init, epoch, held) ==
    [status |-> "loop", init |-> init, inv |-> {}, epoch |-> epoch,
     hold |-> FALSE, held |-> held]

Entry ==
    [status : {"unlocked", "locked", "loop"}, init : Nat,
     inv : SUBSET InstanceFacts, epoch : Nat, hold : BOOLEAN, held : BOOLEAN]

(* The loan of a mutex use; hold tells that a guard was taken through it.   *)
Loan == [init : Nat, hold : BOOLEAN]

CState ==
    [resources : SUBSET FactType, folded : SUBSET FactType,
     entries : [Mutex -> Entry \cup {None}],
     consumed : SUBSET Mutex, carriers : SUBSET Mutex,
     locked : Int, obligations : Int,
     changed : SUBSET Mutex, lost : BOOLEAN,
     lent : [Mutex -> Loan \cup {None}], borrowed : SUBSET Instance,
     loanSteps : BOOLEAN]

Runtime == [Mutex -> {"none", "free", "held"}]

ASSUME MutexAssumption ==
    /\ IsFiniteSet(Mutex)
    /\ Automatic \subseteq Mutex
    /\ Lendable \subseteq Mutex
    /\ Foldable \subseteq {"live", "guard"}
    /\ HasLoop \in BOOLEAN
    /\ Protects \in [Instance -> Mutex]
    /\ Content # {}
    /\ MaxInit \in Nat /\ MaxEpoch \in Nat
    /\ None \notin Entry /\ None \notin Loan
    /\ None \notin [state : CState, real : Runtime]

IsLocked(e) == e # None /\ e.status # "unlocked"
HasReturnObligation(e) == e # None /\ ~(e.status = "unlocked" /\ e.inv = {})
EmptyConcrete(e) == e.status \in {"unlocked", "locked"} /\ e.inv = {} /\ ~e.hold

Bit(b) == IF b THEN 1 ELSE 0

(* changed and lost stand for the predecessor chain back to the loop head:  *)
(* the mutexes it names, and that it was cut by a ledger that became empty. *)
Inserted(s, m, e) ==
    [s EXCEPT !.entries[m] = e,
              !.locked = @ + Bit(IsLocked(e)) - Bit(IsLocked(s.entries[m])),
              !.obligations = @ + Bit(HasReturnObligation(e))
                                - Bit(HasReturnObligation(s.entries[m])),
              !.changed = @ \cup {m}]

Without(s, m) ==
    LET gone == [s.entries EXCEPT ![m] = None] IN
    [s EXCEPT !.entries = gone,
              !.locked = @ - Bit(IsLocked(s.entries[m])),
              !.obligations = @ - Bit(HasReturnObligation(s.entries[m])),
              !.carriers = @ \ {m},
              !.consumed = @ \ {m},
              !.changed = @ \cup {m},
              !.lost = @ \/ \A n \in Mutex : gone[n] = None]

WithStorageConsumed(s, m) ==
    IF m \in Automatic THEN s
    ELSE [s EXCEPT !.resources = @ \ {Storage(m)},
                   !.consumed = @ \cup {m},
                   !.changed = @ \cup {m}]

(***************************************************************************)
(* The conditional guard of a loop: unfolding its carrier, then resolving  *)
(* the entry's heldness.  Both need the head's condition to be decided.    *)
(***************************************************************************)
Carried(s, m) == m \in s.carriers /\ Carrier(m) \in s.resources

OpenedLoopGuard(s, m) ==
    LET e == s.entries[m] IN
    IF ~Carried(s, m) THEN s
    ELSE [Inserted(s, m, e) EXCEPT
            !.carriers = @ \ {m},
            !.resources = (@ \ {Carrier(m)})
                \cup (IF e.held THEN {Guard(m, e.epoch)} ELSE {})]

MaterializedLoopMutex(s, m) ==
    LET e == s.entries[m] IN
    IF e = None \/ e.status # "loop" THEN s
    ELSE Inserted(s, m, IF e.held THEN Locked(e.init, {}, e.epoch, FALSE)
                                  ELSE Unlocked(e.init, {}))

Resolvable(s, m) ==
    \/ headKnown
    \/ ~Carried(s, m) /\ (s.entries[m] # None => s.entries[m].status # "loop")
Resolved(s, m) == MaterializedLoopMutex(OpenedLoopGuard(s, m), m)

(***************************************************************************)
(* Operations of the runtime.                                              *)
(***************************************************************************)
Running == phase \in {"line", "body", "after"}
Shown(m, how) == real' = [real EXCEPT ![m] = how]

(* initialize_empty, or publish_declared with one owned instance that no    *)
(* active loan or view can reach; then the storage is consumed.             *)
NoActiveMemoryLoans(s) == s.borrowed = {}

MayInitialize(s, m) ==
    /\ s.entries[m] = None
    /\ m \notin ended
    /\ m \in Automatic \/ Storage(m) \in s.resources

Initialize(m, inv) ==
    /\ Running
    /\ MayInitialize(st, m)
    /\ inv \subseteq st.resources
    /\ inv # {} => NoActiveMemoryLoans(st)
    /\ nextInit <= MaxInit
    /\ st' = WithStorageConsumed(
                Inserted([st EXCEPT !.resources = (@ \ inv) \cup {Live(m, nextInit)}],
                         m, Unlocked(nextInit, inv)), m)
    /\ nextInit' = nextInit + 1
    /\ Shown(m, "free")
    /\ UNCHANGED <<loopVars, spoiled, ended, nextEpoch>>

(* acquire_current: a use of the mutex selects its loan and holds it;       *)
(* otherwise the lifetime authority itself is required.                     *)
HeldUse(s, m, held) ==
    [s EXCEPT !.lent[m].hold = held, !.loanSteps = TRUE]

Acquire(m) ==
    LET s == Resolved(st, m)
        e == s.entries[m]
        epoch == nextEpoch
        byUse == e # None /\ Use(m, e.init) \in s.resources
        held == IF byUse THEN HeldUse(s, m, TRUE) ELSE s
    IN  /\ Running
        /\ Resolvable(st, m)
        /\ e # None /\ e.status = "unlocked"
        /\ IF byUse THEN s.lent[m].init = e.init ELSE Live(m, e.init) \in s.resources
        /\ nextEpoch <= MaxEpoch
        /\ st' = Inserted([held EXCEPT !.resources = @ \cup e.inv \cup {Guard(m, epoch)}],
                          m, Locked(e.init, e.inv, epoch, byUse))
        /\ nextEpoch' = nextEpoch + 1
        /\ Shown(m, "held")
        /\ UNCHANGED <<loopVars, spoiled, ended, nextInit>>

\* Mistake: the instance that was locked goes back, not the current one.
RestoredAsLocked(s, inv) == inv

(* release_current: the owned instance with the identity of the escrowed    *)
(* one goes back, with whatever content it has now.                         *)
Restorable(s, inv) ==
    {f \in s.resources \cap InstanceFacts : \E p \in inv : p.on = f.on}

Release(m) ==
    LET s == Resolved(st, m)
        e == s.entries[m]
        restored == Restorable(s, e.inv)
        freed == IF e.hold THEN HeldUse(s, m, FALSE) ELSE s
    IN  /\ Running
        /\ Resolvable(st, m)
        /\ e # None /\ e.status = "locked"
        /\ Guard(m, e.epoch) \in s.resources
        /\ Cardinality(restored) = Cardinality(e.inv)
        /\ restored # {} => NoActiveMemoryLoans(s)
        /\ st' = Inserted([freed EXCEPT !.resources =
                                (@ \ restored) \ {Guard(m, e.epoch)}],
                          m, Unlocked(e.init, restored))
        /\ Shown(m, "free")
        /\ UNCHANGED <<loopVars, spoiled, ended, nextInit, nextEpoch>>

\* Mistake: a held mutex can be destroyed.
DestroyableHeld(e) == e # None

(* destroy: only an unlocked mutex whose lifetime authority is at hand; the *)
(* invariant and the consumed bytes come back.                              *)
Destroyable(e) == e # None /\ e.status = "unlocked"

Destroy(m) ==
    LET s == Resolved(st, m)
        e == s.entries[m]
        bytes == IF m \in s.consumed THEN {Storage(m)} ELSE {}
    IN  /\ Running
        /\ Resolvable(st, m)
        /\ Destroyable(e)
        /\ Live(m, e.init) \in s.resources
        /\ st' = Without([s EXCEPT !.resources =
                            (@ \ {Live(m, e.init)}) \cup e.inv \cup bytes], m)
        /\ Shown(m, "none")
        /\ UNCHANGED <<loopVars, spoiled, ended, nextInit, nextEpoch>>

(* lend_use moves the lifetime authority into the loan ledger and leaves a  *)
(* use; recover_use brings it back once no guard holds the use.  These two  *)
(* adapters are compiled for tests; a call that passes a use makes the same *)
(* ledger steps (src/kernel/loans/mutex_calls.rs).                          *)
LendUse(m) ==
    LET e == st.entries[m]
    IN  /\ Running
        /\ m \in Lendable
        /\ e # None /\ e.status # "loop"
        /\ Live(m, e.init) \in st.resources
        /\ st' = [st EXCEPT !.resources = (@ \ {Live(m, e.init)}) \cup {Use(m, e.init)},
                            !.lent[m] = [init |-> e.init, hold |-> FALSE],
                            !.loanSteps = TRUE]
        /\ UNCHANGED <<loopVars, runtime, nextInit, nextEpoch>>

Recoverable(loan) == loan # None /\ ~loan.hold

RecoverUse(m) ==
    LET loan == st.lent[m]
    IN  /\ Running
        /\ Recoverable(loan)
        /\ Use(m, loan.init) \in st.resources
        /\ st' = [st EXCEPT !.resources = (@ \ {Use(m, loan.init)}) \cup {Live(m, loan.init)},
                            !.lent[m] = None,
                            !.loanSteps = TRUE]
        /\ UNCHANGED <<loopVars, runtime, nextInit, nextEpoch>>

(***************************************************************************)
(* What else the program does with memory and resources.                   *)
(***************************************************************************)
(* An ordinary write that reaches the bytes of the mutex.                   *)
StorageWriteRefused(s, m) == s.entries[m] # None /\ m \notin s.consumed

Write(m) ==
    /\ Running
    /\ m \notin ended
    /\ ~StorageWriteRefused(st, m)
    /\ m \notin Automatic => Storage(m) \in st.resources
    /\ spoiled' = IF real[m] = "none" THEN spoiled ELSE spoiled \cup {m}
    /\ UNCHANGED <<st, loopVars, real, ended, nextInit, nextEpoch>>

(* A local goes out of scope, or an owned allocation is freed.              *)
AutomaticStorageRefused(s, m) == s.entries[m] # None
StorageRetirementRefused(s, m) == s.entries[m] # None

EndStorage(m) ==
    /\ Running
    /\ m \notin ended
    /\ IF m \in Automatic
       THEN ~AutomaticStorageRefused(st, m)
       ELSE Storage(m) \in st.resources /\ ~StorageRetirementRefused(st, m)
    /\ st' = [st EXCEPT !.resources = @ \ {Storage(m)}]
    /\ ended' = ended \cup {m}
    /\ spoiled' = IF real[m] = "none" THEN spoiled ELSE spoiled \cup {m}
    /\ UNCHANGED <<loopVars, real, nextInit, nextEpoch>>

(* The proof folds a lifetime authority or a guard into a resource of its   *)
(* own, unfolds it, or changes the fields of an instance it owns.           *)
Fold(f) ==
    /\ Running
    /\ f.k \in Foldable
    /\ st' = [st EXCEPT !.resources = @ \ {f}, !.folded = @ \cup {f}]
    /\ UNCHANGED <<loopVars, runtime, nextInit, nextEpoch>>

Unfold(f) ==
    /\ Running
    /\ st' = [st EXCEPT !.resources = @ \cup {f}, !.folded = @ \ {f}]
    /\ UNCHANGED <<loopVars, runtime, nextInit, nextEpoch>>

Rewrite(f, c) ==
    /\ Running
    /\ f.on \notin st.borrowed /\ c # f.id
    /\ st' = [st EXCEPT !.resources = (@ \ {f}) \cup {Fact("instance", f.on, c)}]
    /\ UNCHANGED <<loopVars, runtime, nextInit, nextEpoch>>

(* The loan ledger lends the memory of an owned instance, or recovers it.   *)
Borrow(f) ==
    /\ Running
    /\ f.on \notin st.borrowed
    /\ st' = [st EXCEPT !.borrowed = @ \cup {f.on}, !.loanSteps = TRUE]
    /\ UNCHANGED <<loopVars, runtime, nextInit, nextEpoch>>

EndBorrow(i) ==
    /\ Running
    /\ st' = [st EXCEPT !.borrowed = @ \ {i}, !.loanSteps = TRUE]
    /\ UNCHANGED <<loopVars, runtime, nextInit, nextEpoch>>

\* Mistake: the head keeps the heldness of the loop's entry.
LoopHeadAtEntry(s, m, held) ==
    LET e == s.entries[m] IN
    [Inserted(s, m, ConditionalLoop(e.init, nextEpoch, IsLocked(e))) EXCEPT
        !.resources = (@ \ {Guard(m, e.epoch)}) \cup {Carrier(m)},
        !.carriers = @ \cup {m}]

(***************************************************************************)
(* Loops.  The rule verifies one arbitrary visit: the head forgets the     *)
(* condition's value and, for the mutex of a conditional guard clause,     *)
(* replaces the concrete entry by one that follows the condition.          *)
(***************************************************************************)
LoopHead(s, m, held) ==
    LET e == s.entries[m] IN
    [Inserted(s, m, ConditionalLoop(e.init, nextEpoch, held)) EXCEPT
        !.resources = (@ \ {Guard(m, e.epoch)}) \cup {Carrier(m)},
        !.carriers = @ \cup {m}]

\* entry is the value the condition has when the loop is entered.
MayAbstract(s, m, entry) ==
    LET e == s.entries[m] IN
    /\ e # None
    /\ EmptyConcrete(e)
    /\ IsLocked(e) <=> entry
    /\ entry => Guard(m, e.epoch) \in s.resources
    /\ Live(m, e.init) \in s.resources

AtHead(s) == [s EXCEPT !.changed = {}, !.lost = FALSE, !.loanSteps = FALSE]

EnterConditionalLoop(m, entry, held) ==
    /\ phase = "line" /\ HasLoop
    /\ MayAbstract(st, m, entry)
    /\ nextEpoch <= MaxEpoch
    /\ st' = AtHead(LoopHead(st, m, held))
    /\ Shown(m, IF held THEN "held" ELSE "free")
    /\ top' = [state |-> st', real |-> real']
    /\ phase' = "body"
    /\ flag' = held /\ sameAsHead' = TRUE /\ headKnown' = FALSE
    /\ nextEpoch' = nextEpoch + 1
    /\ UNCHANGED <<spoiled, ended, nextInit>>

EnterLoop ==
    /\ phase = "line" /\ HasLoop
    /\ st' = AtHead(st)
    /\ top' = [state |-> st', real |-> real]
    /\ phase' = "body"
    /\ sameAsHead' = TRUE
    /\ UNCHANGED <<flag, headKnown, runtime, nextInit, nextEpoch>>

(* The visit leaves the loop from the head.                                 *)
ExitLoop ==
    /\ phase = "body"
    /\ st = top.state /\ sameAsHead
    /\ phase' = "after"
    /\ UNCHANGED <<st, top, flag, sameAsHead, headKnown, runtime, nextInit, nextEpoch>>

(* A branch on the condition, and an assignment to what it reads.           *)
HasClause == top # None /\ top.state.carriers # {}

Branch ==
    /\ Running /\ HasClause /\ sameAsHead /\ ~headKnown
    /\ headKnown' = TRUE
    /\ UNCHANGED <<st, top, phase, flag, sameAsHead, runtime, nextInit, nextEpoch>>

SetFlag(b) ==
    /\ phase = "body" /\ HasClause
    /\ flag' = b /\ sameAsHead' = FALSE
    /\ UNCHANGED <<st, top, phase, headKnown, runtime, nextInit, nextEpoch>>

(* held_condition under the path's facts: the set of the values it can have. *)
HeldCondition(e) ==
    IF e # None /\ e.status = "loop"
    THEN IF headKnown THEN {e.held} ELSE BOOLEAN
    ELSE {IsLocked(e)}
SourceCondition == IF sameAsHead /\ ~headKnown THEN BOOLEAN ELSE {flag}

(* normalize_direct_loop_guards: a clause the body did not touch, or one    *)
(* whose condition matches the acquisition and whose guard can be folded.   *)
Untouched(m) ==
    sameAsHead /\ Carried(st, m) /\ st.entries[m] = top.state.entries[m]

LoopGuardCustody(m) ==
    LET o == OpenedLoopGuard(st, m) IN
    /\ SourceCondition = {flag}
    /\ HeldCondition(st.entries[m]) = {flag}
    /\ Carried(st, m) => headKnown
    /\ flag => Guard(m, o.entries[m].epoch) \in o.resources

ClosedLoopGuard(s, m) ==
    LET o == OpenedLoopGuard(s, m)
        guard == IF flag THEN {Guard(m, o.entries[m].epoch)} ELSE {}
    IN  [o EXCEPT !.resources = (@ \ guard) \cup {Carrier(m)}]

ClosedLoopGuards(s, listed) ==
    FoldSet(LAMBDA m, o : ClosedLoopGuard(o, m), s, listed)

Unchecked == {m \in top.state.carriers : Untouched(m)}
Checked == top.state.carriers \ Unchecked

Initialized(s) == {m \in Mutex : s.entries[m] # None}

\* Mistake: the escrowed invariants are not compared.
SameHeldness(a, b) ==
    /\ (a = None) <=> (b = None)
    /\ a # None => a.init = b.init /\ a.status = b.status /\ a.epoch = b.epoch

SameProtocol(a, b) ==
    /\ (a = None) <=> (b = None)
    /\ a # None =>
        /\ a.init = b.init /\ a.status = b.status
        /\ a.inv = b.inv /\ a.epoch = b.epoch /\ a.hold = b.hold /\ a.held = b.held

CheckProtocolStateSince(head, next) ==
    \/ Initialized(head) = {} /\ Initialized(next) = {}
    \/ /\ Cardinality(Initialized(head)) = Cardinality(Initialized(next))
       /\ head.locked = next.locked
       /\ head.obligations = next.obligations
       /\ ~next.lost
       /\ \A m \in next.changed : SameProtocol(head.entries[m], next.entries[m])

(* The listed mutexes were checked to follow the clause; they only have to  *)
(* be the same empty initialization.                                        *)
Relisted(head, next, listed) ==
    FoldSet(LAMBDA m, s : Inserted(s, m, head.entries[m]), next, listed)

CheckLoopProtocolStateSince(head, next, listed) ==
    /\ \A m \in listed :
        /\ next.entries[m] # None
        /\ next.entries[m].init = head.entries[m].init
        /\ EmptyConcrete(next.entries[m])
    /\ CheckProtocolStateSince(head, Relisted(head, next, listed))

BackEdge ==
    LET next == ClosedLoopGuards(st, Checked)
    IN  /\ phase = "body"
        /\ \A m \in Checked : LoopGuardCustody(m)
        /\ next.resources = top.state.resources
        /\ next.folded = top.state.folded
        /\ ~st.loanSteps
        /\ CheckLoopProtocolStateSince(top.state, next, Checked)
        /\ phase' = "closed"
        /\ UNCHANGED <<st, top, flag, sameAsHead, headKnown, runtime, nextInit, nextEpoch>>

(* return_authority_refusal.                                                *)
Return ==
    /\ Running
    /\ st.obligations = 0
    /\ phase' = "returned"
    /\ UNCHANGED <<st, top, flag, sameAsHead, headKnown, runtime, nextInit, nextEpoch>>

(***************************************************************************)
(* The specification.  A path starts owning every instance and the bytes   *)
(* of every mutex that is not automatic.                                   *)
(***************************************************************************)
InitialState ==
    [resources |-> {Storage(m) : m \in Mutex \ Automatic}
                    \cup {Fact("instance", i, c) : i \in Instance,
                            c \in {CHOOSE d \in Content : TRUE}},
     folded |-> {},
     entries |-> [m \in Mutex |-> None],
     consumed |-> {}, carriers |-> {},
     locked |-> 0, obligations |-> 0,
     changed |-> {}, lost |-> FALSE,
     lent |-> [m \in Mutex |-> None], borrowed |-> {}, loanSteps |-> FALSE]

Init ==
    /\ st = InitialState
    /\ top = None
    /\ phase = "line"
    /\ flag = FALSE /\ sameAsHead = FALSE /\ headKnown = FALSE
    /\ real = [m \in Mutex |-> "none"]
    /\ spoiled = {} /\ ended = {}
    /\ nextInit = 1 /\ nextEpoch = 1

Declared(m) == {{}} \cup {{f} : f \in {g \in InstanceFacts : Protects[g.on] = m}}

Next ==
    \/ \E m \in Mutex :
        \/ \E inv \in Declared(m) : Initialize(m, inv)
        \/ Acquire(m) \/ Release(m) \/ Destroy(m)
        \/ LendUse(m) \/ RecoverUse(m)
        \/ Write(m) \/ EndStorage(m)
        \/ \E entry, held \in BOOLEAN : EnterConditionalLoop(m, entry, held)
    \/ \E f \in st.resources : Fold(f)
    \/ \E f \in st.folded : Unfold(f)
    \/ \E f \in st.resources \cap InstanceFacts :
        Borrow(f) \/ \E c \in Content : Rewrite(f, c)
    \/ \E i \in st.borrowed : EndBorrow(i)
    \/ \E b \in BOOLEAN : SetFlag(b)
    \/ EnterLoop \/ ExitLoop \/ Branch \/ BackEdge \/ Return

Spec == Init /\ [][Next]_vars

(***************************************************************************)
(* Properties.                                                             *)
(***************************************************************************)
Escrow(s, m) ==
    IF s.entries[m] # None /\ s.entries[m].status = "unlocked"
    THEN s.entries[m].inv ELSE {}

(* A protected instance is in one place: owned by the path, or in escrow of *)
(* one unlocked mutex; locking, unlocking and destroying neither copy nor   *)
(* lose it.  In escrow it is not borrowed: another thread may take it any   *)
(* time, so no view of it may be alive.                                     *)
PayloadInOnePlace ==
    /\ \A i \in Instance :
        Cardinality({f \in st.resources \cap InstanceFacts : f.on = i})
        + Cardinality({m \in Mutex : \E f \in Escrow(st, m) : f.on = i}) = 1
    /\ \A m \in Mutex : \A f \in Escrow(st, m) : f.on \notin st.borrowed

(* Authority in the path's hands is about the current initialization and    *)
(* acquisition: no lifetime authority, use or guard survives the destroy or *)
(* unlock that ended what it names, and the lifetime authority of a live    *)
(* mutex is in exactly one place.  A lent use is held while a guard taken   *)
(* through it is out, so the mutex cannot be destroyed under it.            *)
AuthorityIsCurrent ==
    LET owned == st.resources \cup st.folded IN
    \A m \in Mutex :
        LET e == st.entries[m]
            lives == {f \in owned : f.k = "live" /\ f.on = m}
            loans == {x \in {st.lent[m]} : x # None}
        IN  /\ \A f \in lives : e # None /\ f.id = e.init
            /\ \A x \in loans : e # None /\ x.init = e.init
            /\ Cardinality(lives) + Cardinality(loans) = Bit(e # None)
            /\ {f \in owned : f.k = "guard" /\ f.on = m}
                = IF e # None /\ e.status = "locked" THEN {Guard(m, e.epoch)} ELSE {}
            /\ (\E x \in loans : x.hold) <=> (e # None /\ e.status = "locked" /\ e.hold)

(* The ledger tells the truth about the run: an operation it admits never   *)
(* locks a held mutex, unlocks a free one, destroys one that is held, or    *)
(* writes or ends the bytes of a live one, also when its authority is       *)
(* folded away or lent; and its counters are exact.                         *)
LedgerTellsRuntime ==
    /\ \A m \in Mutex :
        LET e == st.entries[m] IN
        real[m] = IF e = None THEN "none" ELSE IF e.held THEN "held" ELSE "free"
    /\ spoiled = {}
    /\ st.locked = Cardinality({m \in Mutex : IsLocked(st.entries[m])})
    /\ st.obligations = Cardinality({m \in Mutex : HasReturnObligation(st.entries[m])})

(* A back edge is accepted only in a state the head describes: the mutex of *)
(* a conditional clause is held exactly when the condition is true now, and *)
(* every other mutex and escrow is as it was at the head.  A function       *)
(* returns only with no mutex held and nothing in escrow.                   *)
ExitsCovered ==
    /\ phase = "closed" =>
        \A m \in Mutex :
            /\ real[m] = IF m \in top.state.carriers
                         THEN IF flag THEN "held" ELSE "free"
                         ELSE top.real[m]
            /\ Escrow(st, m) = Escrow(top.state, m)
    /\ phase = "returned" =>
        \A m \in Mutex : real[m] # "held" /\ Escrow(st, m) = {}
=============================================================================
