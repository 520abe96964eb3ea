-------------------------- MODULE MutexLedgerProofs --------------------------
(***************************************************************************)
(* Invariance proofs for MutexLedger.  The invariant says where the         *)
(* authority over a mutex is, in which of the path's resources, in its      *)
(* ledger entry and in its loan, and what of it a loop head promised.       *)
(***************************************************************************)
EXTENDS MutexLedger, FiniteSetTheorems, TLAPS

----------------------------------------------------------------------------
(* The invariant                                                           *)

\* What kind of entry goes with which fields.
Shape(e) ==
    e # None =>
        /\ e.status = "unlocked" => ~e.held /\ ~e.hold
        /\ e.status = "locked" => e.held
        /\ e.status = "loop" => e.inv = {} /\ ~e.hold
        /\ \A p, q \in e.inv : p = q

\* The lifetime authority is owned, folded or lent; the guard is out exactly
\* while the entry is locked; a use is that of the loan.
Custody(s, m) ==
    LET e == s.entries[m]
        loan == s.lent[m]
        owned == s.resources \cup s.folded
        locked == e # None /\ e.status = "locked"
        loop == e # None /\ e.status = "loop"
    IN  /\ \A f \in owned : f.k = "live" /\ f.on = m =>
              e # None /\ loan = None /\ f = Live(m, e.init)
        /\ e # None /\ loan = None => Live(m, e.init) \in owned
        /\ loan # None => e # None /\ loan.init = e.init
        /\ (loan # None /\ loan.hold) <=> (locked /\ e.hold)
        /\ \A f \in owned : f.k = "guard" /\ f.on = m =>
              locked /\ f = Guard(m, e.epoch)
        /\ locked => Guard(m, e.epoch) \in owned
        /\ \A f \in owned : f.k = "use" /\ f.on = m =>
              loan # None /\ f = Use(m, loan.init)
        /\ m \in s.consumed =>
              e # None /\ m \notin Automatic /\ Storage(m) \notin s.resources
        /\ m \in s.carriers <=> loop
        /\ Carrier(m) \in s.resources <=> loop

Folding(s) ==
    /\ s.resources \cap s.folded = {}
    /\ \A f \in s.folded : f.k \in {"live", "guard"}

\* The facts about instance i the path owns; the mutexes it is in escrow of.
OwnedOf(s, i) == {f \in s.resources \cap InstanceFacts : f.on = i}
EscrowOf(s, i) == {m \in Mutex : \E f \in Escrow(s, m) : f.on = i}

Payload(s) ==
    /\ \A i \in Instance :
          \/ (\E f \in InstanceFacts : OwnedOf(s, i) = {f}) /\ EscrowOf(s, i) = {}
          \/ OwnedOf(s, i) = {} /\ \E m \in Mutex : EscrowOf(s, i) = {m}
    /\ \A m \in Mutex : \A f \in Escrow(s, m) : f.on \notin s.borrowed

Counted(s) ==
    /\ s.locked = Cardinality({m \in Mutex : IsLocked(s.entries[m])})
    /\ s.obligations = Cardinality({m \in Mutex : HasReturnObligation(s.entries[m])})

Sound(s) ==
    /\ s \in CState
    /\ \A m \in Mutex : Shape(s.entries[m]) /\ Custody(s, m)
    /\ Folding(s) /\ Payload(s) /\ Counted(s)

Shows(e) == IF e = None THEN "none" ELSE IF e.held THEN "held" ELSE "free"

Mirrors(s, r) == r = [m \in Mutex |-> Shows(s.entries[m])]

\* While the loop runs, an entry that no step changed is the one of the head,
\* and as long as the condition has the value of the head the clause of the
\* head tells it.
Headed ==
    /\ phase = "line" => top = None /\ st.carriers = {}
    /\ top # None =>
          /\ Sound(top.state) /\ Mirrors(top.state, top.real)
          /\ \A m, n \in top.state.carriers : m = n
    /\ phase \in {"body", "closed"} =>
          /\ top # None
          /\ \A m \in Mutex \ st.changed : st.entries[m] = top.state.entries[m]
          /\ sameAsHead => \A m \in top.state.carriers : top.state.entries[m].held = flag

MutexInv ==
    /\ phase \in {"line", "body", "after", "closed", "returned"}
    /\ flag \in BOOLEAN /\ sameAsHead \in BOOLEAN /\ headKnown \in BOOLEAN
    /\ nextInit \in Nat /\ nextEpoch \in Nat
    /\ Sound(st) /\ Mirrors(st, real)
    /\ spoiled = {}
    /\ Headed /\ ExitsCovered

----------------------------------------------------------------------------
(* Facts and entries                                                       *)

LEMMA FactFields ==
    /\ \A m, i : Live(m, i).k = "live" /\ Live(m, i).on = m /\ Live(m, i).id = i
    /\ \A m, i : Guard(m, i).k = "guard" /\ Guard(m, i).on = m /\ Guard(m, i).id = i
    /\ \A m, i : Use(m, i).k = "use" /\ Use(m, i).on = m /\ Use(m, i).id = i
    /\ \A m : Storage(m).k = "storage" /\ Storage(m).on = m
    /\ \A m : Carrier(m).k = "carrier" /\ Carrier(m).on = m
  BY DEF Live, Guard, Use, Storage, Carrier, Fact

LEMMA FactTypes ==
    /\ \A m \in Mutex, i \in Nat :
          {Live(m, i), Guard(m, i), Use(m, i), Storage(m), Carrier(m)} \subseteq FactType
    /\ InstanceFacts \subseteq FactType
  BY DEF Live, Guard, Use, Storage, Carrier, Fact, FactType, InstanceFacts

\* An instance fact is determined by its instance and its content.
LEMMA InstanceFields ==
    /\ \A f \in InstanceFacts :
          f.k = "instance" /\ f.on \in Instance /\ f.id \in Content
    /\ \A i \in Instance, c \in Content :
          /\ Fact("instance", i, c) \in InstanceFacts
          /\ Fact("instance", i, c).on = i /\ Fact("instance", i, c).id = c
  BY DEF InstanceFacts, Fact

LEMMA EntryTypes ==
    /\ \A init \in Nat, inv \in SUBSET InstanceFacts :
          LET e == Unlocked(init, inv) IN
          /\ e \in Entry /\ e # None
          /\ e.status = "unlocked" /\ e.init = init /\ e.inv = inv
          /\ ~e.hold /\ ~e.held
    /\ \A init, epoch \in Nat, inv \in SUBSET InstanceFacts, hold \in BOOLEAN :
          LET e == Locked(init, inv, epoch, hold) IN
          /\ e \in Entry /\ e # None
          /\ e.status = "locked" /\ e.init = init /\ e.inv = inv
          /\ e.epoch = epoch /\ e.hold = hold /\ e.held
    /\ \A init, epoch \in Nat, held \in BOOLEAN :
          LET e == ConditionalLoop(init, epoch, held) IN
          /\ e \in Entry /\ e # None
          /\ e.status = "loop" /\ e.init = init /\ e.inv = {}
          /\ e.epoch = epoch /\ ~e.hold /\ e.held = held
  <1>1. None \notin Entry BY MutexAssumption
  <1>2. \A init \in Nat, inv \in SUBSET InstanceFacts : Unlocked(init, inv) \in Entry
    BY DEF Unlocked, Entry
  <1>3. \A init, epoch \in Nat, inv \in SUBSET InstanceFacts, hold \in BOOLEAN :
            Locked(init, inv, epoch, hold) \in Entry
    BY DEF Locked, Entry
  <1>4. \A init, epoch \in Nat, held \in BOOLEAN : ConditionalLoop(init, epoch, held) \in Entry
    BY DEF ConditionalLoop, Entry
  <1>5. \A init \in Nat, inv \in SUBSET InstanceFacts :
          LET e == Unlocked(init, inv) IN
          /\ e.status = "unlocked" /\ e.init = init /\ e.inv = inv
          /\ ~e.hold /\ ~e.held
    BY DEF Unlocked
  <1>6. \A init, epoch \in Nat, inv \in SUBSET InstanceFacts, hold \in BOOLEAN :
          LET e == Locked(init, inv, epoch, hold) IN
          /\ e.status = "locked" /\ e.init = init /\ e.inv = inv
          /\ e.epoch = epoch /\ e.hold = hold /\ e.held
    BY DEF Locked
  <1>7. \A init, epoch \in Nat, held \in BOOLEAN :
          LET e == ConditionalLoop(init, epoch, held) IN
          /\ e.status = "loop" /\ e.init = init /\ e.inv = {}
          /\ e.epoch = epoch /\ ~e.hold /\ e.held = held
    BY DEF ConditionalLoop
  <1>8. \A x, y, z : x \in Entry => x # None BY <1>1
  <1> HIDE DEF Entry, Unlocked, Locked, ConditionalLoop
  <1> QED BY <1>2, <1>3, <1>4, <1>5, <1>6, <1>7, <1>8

----------------------------------------------------------------------------
(* Counters                                                                *)

\* Changing one entry changes a count of entries by what it counts for.
LEMMA CountOne ==
    ASSUME NEW old \in SUBSET Mutex, NEW m \in Mutex, NEW here \in BOOLEAN
    PROVE  LET new == IF here THEN old \cup {m} ELSE old \ {m} IN
           /\ Cardinality(old) \in Nat
           /\ Cardinality(new) = Cardinality(old) + Bit(here) - Bit(m \in old)
  <1>1. IsFiniteSet(old) BY FS_Subset, MutexAssumption
  <1>2. Cardinality(old) \in Nat BY <1>1, FS_CardinalityType
  <1>3. CASE here
    <2>1. Cardinality(old \cup {m}) = IF m \in old THEN Cardinality(old) ELSE Cardinality(old) + 1
      BY <1>1, FS_AddElement
    <2> QED BY <1>2, <1>3, <2>1 DEF Bit
  <1>4. CASE ~here
    <2>1. Cardinality(old \ {m}) = IF m \in old THEN Cardinality(old) - 1 ELSE Cardinality(old)
      BY <1>1, FS_RemoveElement
    <2> QED BY <1>2, <1>4, <2>1 DEF Bit
  <1> QED BY <1>2, <1>3, <1>4

LEMMA CountedUpdate ==
    ASSUME NEW s, Counted(s), NEW t, NEW m \in Mutex,
           s.entries \in [Mutex -> Entry \cup {None}],
           NEW e, t.entries = [s.entries EXCEPT ![m] = e],
           t.locked = s.locked + Bit(IsLocked(e)) - Bit(IsLocked(s.entries[m])),
           t.obligations = s.obligations + Bit(HasReturnObligation(e))
                                - Bit(HasReturnObligation(s.entries[m]))
    PROVE  Counted(t)
  <1> DEFINE locked(x) == {n \in Mutex : IsLocked(x.entries[n])}
             obliged(x) == {n \in Mutex : HasReturnObligation(x.entries[n])}
  <1>1. IsLocked(e) \in BOOLEAN /\ HasReturnObligation(e) \in BOOLEAN
    BY DEF IsLocked, HasReturnObligation
  <1>2. locked(t) = (IF IsLocked(e) THEN locked(s) \cup {m} ELSE locked(s) \ {m})
    OBVIOUS
  <1>3. obliged(t) = (IF HasReturnObligation(e) THEN obliged(s) \cup {m} ELSE obliged(s) \ {m})
    OBVIOUS
  <1>4. (IsLocked(s.entries[m]) <=> m \in locked(s))
        /\ (HasReturnObligation(s.entries[m]) <=> m \in obliged(s))
    OBVIOUS
  <1>5. Cardinality(locked(t)) = Cardinality(locked(s)) + Bit(IsLocked(e)) - Bit(m \in locked(s))
    BY <1>1, <1>2, CountOne
  <1>6. Cardinality(obliged(t)) = Cardinality(obliged(s)) + Bit(HasReturnObligation(e))
                                    - Bit(m \in obliged(s))
    BY <1>1, <1>3, CountOne
  <1>7. Bit(IsLocked(s.entries[m])) = Bit(m \in locked(s))
        /\ Bit(HasReturnObligation(s.entries[m])) = Bit(m \in obliged(s))
    BY <1>4 DEF Bit
  <1> QED BY <1>5, <1>6, <1>7 DEF Counted

LEMMA CountedSame ==
    ASSUME NEW s, NEW t, Counted(s),
           t.entries = s.entries, t.locked = s.locked, t.obligations = s.obligations
    PROVE  Counted(t)
  BY DEF Counted

----------------------------------------------------------------------------
(* A step about one mutex                                                  *)

\* s and t differ, of what mutexes are about, in mutex m alone.
Frame(s, t, m) ==
    /\ \A f \in FactType : f.k # "instance" /\ f.on # m =>
          /\ f \in t.resources <=> f \in s.resources
          /\ f \in t.folded <=> f \in s.folded
    /\ \A n \in Mutex \ {m} :
          /\ t.entries[n] = s.entries[n] /\ t.lent[n] = s.lent[n]
          /\ n \in t.consumed <=> n \in s.consumed
          /\ n \in t.carriers <=> n \in s.carriers

LEMMA CustodyElsewhere ==
    ASSUME NEW s \in CState, NEW t \in CState, NEW m, Frame(s, t, m),
           NEW n \in Mutex, n # m, Custody(s, n), Shape(s.entries[n])
    PROVE  Custody(t, n) /\ Shape(t.entries[n])
  <1> DEFINE e == s.entries[n]
             loan == s.lent[n]
             owned(x) == x.resources \cup x.folded
  <1>1. t.entries[n] = e /\ t.lent[n] = loan
        /\ (n \in t.consumed <=> n \in s.consumed)
        /\ (n \in t.carriers <=> n \in s.carriers)
    BY DEF Frame
  <1>2. /\ owned(s) \subseteq FactType /\ owned(t) \subseteq FactType
        /\ s.resources \subseteq FactType /\ t.resources \subseteq FactType
    BY DEF CState
  <1>3. \A f \in FactType : f.k \in {"live", "guard", "use", "storage", "carrier"} /\ f.on = n =>
          /\ f \in t.resources <=> f \in s.resources
          /\ f \in owned(t) <=> f \in owned(s)
    BY DEF Frame
  <1>4. e # None => e.init \in Nat /\ e.epoch \in Nat
    BY DEF CState, Entry
  <1>5. /\ e # None => /\ Live(n, e.init) \in owned(t) <=> Live(n, e.init) \in owned(s)
                       /\ Guard(n, e.epoch) \in owned(t) <=> Guard(n, e.epoch) \in owned(s)
        /\ Storage(n) \in t.resources <=> Storage(n) \in s.resources
        /\ Carrier(n) \in t.resources <=> Carrier(n) \in s.resources
    <2>1. Storage(n) \in FactType /\ Carrier(n) \in FactType
      BY FactTypes, 0 \in Nat
    <2>2. e # None => Live(n, e.init) \in FactType /\ Guard(n, e.epoch) \in FactType
      BY FactTypes, <1>4
    <2> HIDE DEF owned, e
    <2> QED BY <2>1, <2>2, <1>3, FactFields
  <1> HIDE DEF owned
  <1> QED BY <1>1, <1>2, <1>3, <1>5 DEF Custody, Shape, owned

\* What is left to show of a step about one mutex.
LEMMA SoundStep ==
    ASSUME NEW s, Sound(s), NEW t \in CState, NEW m \in Mutex, Frame(s, t, m),
           Custody(t, m), Shape(t.entries[m]), Folding(t), Payload(t), Counted(t)
    PROVE  Sound(t)
  BY CustodyElsewhere DEF Sound

LEMMA InsertedFields ==
    ASSUME NEW s \in CState, NEW m \in Mutex, NEW e \in Entry
    PROVE  LET t == Inserted(s, m, e) IN
           /\ t \in CState
           /\ t.resources = s.resources /\ t.folded = s.folded
           /\ t.entries = [s.entries EXCEPT ![m] = e]
           /\ t.entries[m] = e
           /\ t.consumed = s.consumed /\ t.carriers = s.carriers
           /\ t.changed = s.changed \cup {m}
           /\ t.lent = s.lent /\ t.borrowed = s.borrowed
           /\ t.loanSteps = s.loanSteps
           /\ t.locked = s.locked + Bit(IsLocked(e)) - Bit(IsLocked(s.entries[m]))
           /\ t.obligations = s.obligations + Bit(HasReturnObligation(e))
                                - Bit(HasReturnObligation(s.entries[m]))
  <1>1. \A b \in BOOLEAN : Bit(b) \in Int BY DEF Bit
  <1>2. \A x : IsLocked(x) \in BOOLEAN /\ HasReturnObligation(x) \in BOOLEAN
    BY DEF IsLocked, HasReturnObligation
  <1>3. \A x : Bit(IsLocked(x)) \in Int /\ Bit(HasReturnObligation(x)) \in Int
    BY <1>1, <1>2
  <1>4. [s.entries EXCEPT ![m] = e] \in [Mutex -> Entry \cup {None}] BY DEF CState
  <1>5. s.locked + Bit(IsLocked(e)) - Bit(IsLocked(s.entries[m])) \in Int
        /\ s.obligations + Bit(HasReturnObligation(e))
                                - Bit(HasReturnObligation(s.entries[m])) \in Int
    BY <1>3 DEF CState
  <1>6. [s.entries EXCEPT ![m] = e][m] = e BY DEF CState
  <1> HIDE DEF Entry, Bit, IsLocked, HasReturnObligation
  <1> QED BY <1>4, <1>5, <1>6 DEF Inserted, CState

LEMMA InsertedCounted ==
    ASSUME NEW s \in CState, NEW m \in Mutex, NEW e \in Entry, Counted(s)
    PROVE  Counted(Inserted(s, m, e))
  <1>1. s.entries \in [Mutex -> Entry \cup {None}] BY DEF CState
  <1>2. /\ Inserted(s, m, e).entries = [s.entries EXCEPT ![m] = e]
        /\ Inserted(s, m, e).locked
             = s.locked + Bit(IsLocked(e)) - Bit(IsLocked(s.entries[m]))
        /\ Inserted(s, m, e).obligations
             = s.obligations + Bit(HasReturnObligation(e))
                                - Bit(HasReturnObligation(s.entries[m]))
    BY InsertedFields
  <1> QED BY <1>1, <1>2, CountedUpdate

\* Escrow and instances untouched.
LEMMA PayloadSame ==
    ASSUME NEW s, Payload(s), NEW t,
           t.resources \cap InstanceFacts = s.resources \cap InstanceFacts,
           \A m \in Mutex : Escrow(t, m) = Escrow(s, m),
           t.borrowed \subseteq s.borrowed
    PROVE  Payload(t)
  <1>1. \A i : OwnedOf(t, i) = OwnedOf(s, i) BY DEF OwnedOf
  <1>2. \A i : EscrowOf(t, i) = EscrowOf(s, i) BY DEF EscrowOf
  <1> QED BY <1>1, <1>2 DEF Payload

\* Adding and removing what is no instance leaves the owned instances.
LEMMA InstancesKept ==
    ASSUME NEW R, NEW gone, NEW new,
           \A f \in gone \cup new : f.k # "instance"
    PROVE  ((R \ gone) \cup new) \cap InstanceFacts = R \cap InstanceFacts
  BY InstanceFields

----------------------------------------------------------------------------
(* Resolving the clause of a loop                                          *)

\* t may replace s on the chain of steps since the loop head.
Chained(s, t) ==
    /\ s.changed \subseteq t.changed
    /\ \A m \in Mutex \ t.changed : t.entries[m] = s.entries[m]

LEMMA OpenedFields ==
    ASSUME NEW s \in CState, NEW m \in Mutex, s.entries[m] # None, Carried(s, m)
    PROVE  LET e == s.entries[m]
               t == OpenedLoopGuard(s, m) IN
           /\ t \in CState
           /\ t.resources = (s.resources \ {Carrier(m)})
                              \cup (IF e.held THEN {Guard(m, e.epoch)} ELSE {})
           /\ t.folded = s.folded /\ t.entries = s.entries
           /\ t.consumed = s.consumed /\ t.carriers = s.carriers \ {m}
           /\ t.changed = s.changed \cup {m}
           /\ t.lent = s.lent /\ t.borrowed = s.borrowed
           /\ t.loanSteps = s.loanSteps
           /\ Counted(s) => Counted(t)
  <1> DEFINE e == s.entries[m]
             i == Inserted(s, m, e)
             r == (s.resources \ {Carrier(m)})
                              \cup (IF e.held THEN {Guard(m, e.epoch)} ELSE {})
  <1>1. e \in Entry /\ s.entries \in [Mutex -> Entry \cup {None}] BY DEF CState
  <1>2. OpenedLoopGuard(s, m) = [i EXCEPT !.carriers = i.carriers \ {m},
            !.resources = (i.resources \ {Carrier(m)})
                              \cup (IF e.held THEN {Guard(m, e.epoch)} ELSE {})]
    BY DEF OpenedLoopGuard
  <1>3. /\ i \in CState /\ i.resources = s.resources /\ i.folded = s.folded
        /\ i.entries = s.entries
        /\ i.consumed = s.consumed /\ i.carriers = s.carriers
        /\ i.changed = s.changed \cup {m}
        /\ i.lent = s.lent /\ i.borrowed = s.borrowed
        /\ i.loanSteps = s.loanSteps
    <2>1. [s.entries EXCEPT ![m] = e] = s.entries BY <1>1
    <2> QED BY <1>1, <2>1, InsertedFields
  <1>4. Counted(s) => Counted(i) BY <1>1, InsertedCounted
  <1>5. r \subseteq FactType
    <2>1. e.epoch \in Nat BY <1>1 DEF Entry
    <2>2. Guard(m, e.epoch) \in FactType BY <2>1, FactTypes
    <2> QED BY <2>2 DEF CState
  <1> HIDE DEF i, r
  <1>6. /\ OpenedLoopGuard(s, m) \in CState
        /\ OpenedLoopGuard(s, m).resources = r
        /\ OpenedLoopGuard(s, m).folded = i.folded
        /\ OpenedLoopGuard(s, m).entries = i.entries
        /\ OpenedLoopGuard(s, m).consumed = i.consumed
        /\ OpenedLoopGuard(s, m).carriers = i.carriers \ {m}
        /\ OpenedLoopGuard(s, m).changed = i.changed
        /\ OpenedLoopGuard(s, m).lent = i.lent
        /\ OpenedLoopGuard(s, m).borrowed = i.borrowed
        /\ OpenedLoopGuard(s, m).loanSteps = i.loanSteps
        /\ OpenedLoopGuard(s, m).locked = i.locked
        /\ OpenedLoopGuard(s, m).obligations = i.obligations
    <2>1. OpenedLoopGuard(s, m) = [i EXCEPT !.carriers = i.carriers \ {m}, !.resources = r]
      BY <1>2, <1>3 DEF r
    <2>2. i \in CState /\ i.carriers \ {m} \in SUBSET Mutex /\ r \in SUBSET FactType
      BY <1>3, <1>5 DEF CState
    <2> QED BY <2>1, <2>2 DEF CState
  <1>7. Counted(s) => Counted(OpenedLoopGuard(s, m)) BY <1>4, <1>6, CountedSame
  <1> QED BY <1>3, <1>6, <1>7 DEF r

\* Resolving an entry keeps the path sound; the mutex is held or free as
\* before, and its entry is a concrete one.
LEMMA ResolvedSound ==
    ASSUME NEW s, Sound(s), NEW m \in Mutex
    PROVE  LET t == Resolved(s, m) IN
           /\ Sound(t) /\ Chained(s, t)
           /\ \A n \in Mutex : Shows(t.entries[n]) = Shows(s.entries[n])
           /\ \A n \in Mutex \ {m} : t.entries[n] = s.entries[n]
           /\ t.entries[m] # None => t.entries[m].status # "loop"
           /\ t.changed \subseteq s.changed \cup {m}
  <1> DEFINE e == s.entries[m]
             loop == e # None /\ e.status = "loop"
  <1>1. s \in CState /\ Shape(e) /\ Custody(s, m) /\ Folding(s) /\ Payload(s) /\ Counted(s)
    BY DEF Sound
  <1>2. (m \in s.carriers <=> loop) /\ (Carrier(m) \in s.resources <=> loop)
    BY <1>1 DEF Custody
  <1>3. CASE ~loop
    <2>1. OpenedLoopGuard(s, m) = s BY <1>2, <1>3 DEF OpenedLoopGuard, Carried
    <2>2. Resolved(s, m) = s BY <2>1, <1>3 DEF Resolved, MaterializedLoopMutex
    <2> QED BY <2>2, <1>3 DEF Chained
  <1>4. CASE loop
    <2> DEFINE o == OpenedLoopGuard(s, m)
               new == IF e.held THEN Locked(e.init, {}, e.epoch, FALSE)
                                ELSE Unlocked(e.init, {})
               t == Inserted(o, m, new)
               r == (s.resources \ {Carrier(m)})
                              \cup (IF e.held THEN {Guard(m, e.epoch)} ELSE {})
    <2>1. e \in Entry /\ e.init \in Nat /\ e.epoch \in Nat /\ e.held \in BOOLEAN
          /\ e.inv = {} /\ ~e.hold
      BY <1>1, <1>4 DEF CState, Entry, Shape
    <2>2. /\ o \in CState /\ o.resources = r
          /\ o.folded = s.folded /\ o.entries = s.entries
          /\ o.consumed = s.consumed /\ o.carriers = s.carriers \ {m}
          /\ o.changed = s.changed \cup {m}
          /\ o.lent = s.lent /\ o.borrowed = s.borrowed
          /\ o.loanSteps = s.loanSteps
          /\ Counted(o)
      <3>1. Carried(s, m) BY <1>2, <1>4 DEF Carried
      <3> QED BY <3>1, <1>1, <1>4, OpenedFields
    <2>3. Resolved(s, m) = t BY <1>4, <2>2 DEF Resolved, MaterializedLoopMutex
    <2>4. /\ new \in Entry /\ new # None /\ new.init = e.init /\ new.inv = {} /\ ~new.hold
          /\ (new.held <=> e.held)
          /\ new.status = IF e.held THEN "locked" ELSE "unlocked"
          /\ e.held => new.epoch = e.epoch
      <3>1. {} \in SUBSET InstanceFacts OBVIOUS
      <3>2. CASE e.held
        <4>1. new = Locked(e.init, {}, e.epoch, FALSE) BY <3>2
        <4>2. PICK hold \in BOOLEAN : hold = FALSE OBVIOUS
        <4>3. new = Locked(e.init, {}, e.epoch, hold) BY <4>1, <4>2
        <4> HIDE DEF new, e
        <4> QED BY <2>1, <3>1, <3>2, <4>2, <4>3, EntryTypes
      <3>3. CASE ~e.held
        <4>1. new = Unlocked(e.init, {}) BY <3>3
        <4> HIDE DEF new, e
        <4> QED BY <2>1, <3>1, <3>3, <4>1, EntryTypes
      <3> QED BY <3>2, <3>3
    <2> HIDE DEF o, new
    <2>5. /\ t \in CState /\ t.resources = r /\ t.folded = s.folded
          /\ t.entries = [s.entries EXCEPT ![m] = new] /\ t.entries[m] = new
          /\ t.consumed = s.consumed /\ t.carriers = s.carriers \ {m}
          /\ t.changed = s.changed \cup {m}
          /\ t.lent = s.lent /\ t.borrowed = s.borrowed
          /\ Counted(t)
      BY <2>2, <2>4, InsertedFields, InsertedCounted
    <2> HIDE DEF t
    <2>6. \A n \in Mutex \ {m} : t.entries[n] = s.entries[n]
      BY <2>5, <1>1 DEF CState
    <2>7. Frame(s, t, m)
      BY <2>5, <2>6, FactFields DEF Frame
    <2>8. Shape(t.entries[m])
      BY <2>4, <2>5 DEF Shape
    <2>9. Custody(t, m)
      BY <1>1, <1>2, <1>4, <2>1, <2>4, <2>5, FactFields DEF Custody
    <2>10. Folding(t)
      <3>1. Guard(m, e.epoch) \notin s.folded
        BY <1>1, <1>4, FactFields DEF Custody
      <3> QED BY <1>1, <2>5, <3>1 DEF Folding
    <2>11. Payload(t)
      <3>1. t.resources \cap InstanceFacts = s.resources \cap InstanceFacts
        BY <2>5, FactFields, InstanceFields
      <3>2. \A n \in Mutex : Escrow(t, n) = Escrow(s, n)
        BY <1>4, <2>1, <2>4, <2>5, <2>6 DEF Escrow
      <3> QED BY <1>1, <2>5, <3>1, <3>2, PayloadSame
    <2>12. Sound(t) BY <2>5, <2>7, <2>8, <2>9, <2>10, <2>11, SoundStep
    <2>13. Chained(s, t) BY <2>5, <2>6 DEF Chained
    <2>14. \A n \in Mutex : Shows(t.entries[n]) = Shows(s.entries[n])
      BY <1>4, <2>4, <2>5, <2>6 DEF Shows
    <2> QED BY <2>3, <2>4, <2>5, <2>6, <2>12, <2>13, <2>14
  <1> QED BY <1>3, <1>4

----------------------------------------------------------------------------
(* Instances that change hands                                             *)

\* inv goes from the path into the escrow of m.
LEMMA PayloadGiven ==
    ASSUME NEW s, Payload(s), NEW t, NEW m \in Mutex, NEW inv,
           inv \subseteq s.resources \cap InstanceFacts, \A p, q \in inv : p = q,
           inv # {} => t.borrowed = {},
           t.borrowed \subseteq s.borrowed,
           t.resources \cap InstanceFacts = (s.resources \cap InstanceFacts) \ inv,
           Escrow(s, m) = {}, Escrow(t, m) = inv,
           \A n \in Mutex \ {m} : Escrow(t, n) = Escrow(s, n)
    PROVE  Payload(t)
  <1>1. CASE inv = {}
    <2>1. \A n \in Mutex : Escrow(t, n) = Escrow(s, n) BY <1>1
    <2>2. t.resources \cap InstanceFacts = s.resources \cap InstanceFacts BY <1>1
    <2> QED BY <2>1, <2>2, PayloadSame
  <1>2. CASE inv # {}
    <2>1. PICK f : inv = {f} BY <1>2
    <2>2. f \in s.resources \cap InstanceFacts /\ f.on \in Instance BY <2>1, InstanceFields
    <2>3. \A i : i # f.on => OwnedOf(t, i) = OwnedOf(s, i) BY <2>1 DEF OwnedOf
    <2>4. \A i : i # f.on => EscrowOf(t, i) = EscrowOf(s, i)
      BY <2>1 DEF EscrowOf
    <2>5. OwnedOf(s, f.on) = {f} /\ EscrowOf(s, f.on) = {}
      <3>1. f \in OwnedOf(s, f.on) BY <2>2 DEF OwnedOf
      <3> QED BY <2>2, <3>1 DEF Payload
    <2>6. OwnedOf(t, f.on) = {} BY <2>1, <2>5 DEF OwnedOf
    <2>7. EscrowOf(t, f.on) = {m} BY <2>1, <2>5 DEF EscrowOf
    <2> QED BY <1>2, <2>3, <2>4, <2>6, <2>7 DEF Payload
  <1> QED BY <1>1, <1>2

\* What m had in escrow comes back to the path.
LEMMA PayloadTaken ==
    ASSUME NEW s, Payload(s), NEW t, NEW m \in Mutex, NEW inv,
           inv \subseteq InstanceFacts, \A p, q \in inv : p = q,
           t.borrowed \subseteq s.borrowed,
           t.resources \cap InstanceFacts = (s.resources \cap InstanceFacts) \cup inv,
           Escrow(s, m) = inv, Escrow(t, m) = {},
           \A n \in Mutex \ {m} : Escrow(t, n) = Escrow(s, n)
    PROVE  Payload(t)
  <1>1. CASE inv = {}
    <2>1. \A n \in Mutex : Escrow(t, n) = Escrow(s, n) BY <1>1
    <2>2. t.resources \cap InstanceFacts = s.resources \cap InstanceFacts BY <1>1
    <2> QED BY <2>1, <2>2, PayloadSame
  <1>2. CASE inv # {}
    <2>1. PICK f : inv = {f} BY <1>2
    <2>2. f \in InstanceFacts /\ f.on \in Instance BY <2>1, InstanceFields
    <2>3. \A i : i # f.on => OwnedOf(t, i) = OwnedOf(s, i) BY <2>1 DEF OwnedOf
    <2>4. \A i : i # f.on => EscrowOf(t, i) = EscrowOf(s, i)
      BY <2>1 DEF EscrowOf
    <2>5. OwnedOf(s, f.on) = {} /\ EscrowOf(s, f.on) = {m}
      <3>1. m \in EscrowOf(s, f.on) BY <2>1 DEF EscrowOf
      <3> QED BY <2>2, <3>1 DEF Payload
    <2>6. OwnedOf(t, f.on) = {f} BY <2>1, <2>2, <2>5 DEF OwnedOf
    <2>7. EscrowOf(t, f.on) = {} BY <2>1, <2>5 DEF EscrowOf
    <2> QED BY <2>2, <2>3, <2>4, <2>6, <2>7 DEF Payload
  <1> QED BY <1>1, <1>2

----------------------------------------------------------------------------
(* The operations of the runtime keep the path sound                       *)

LEMMA ResourcesFields ==
    ASSUME NEW s \in CState, NEW r \in SUBSET FactType
    PROVE  LET t == [s EXCEPT !.resources = r] IN
           /\ t \in CState
           /\ t.resources = r /\ t.folded = s.folded /\ t.entries = s.entries
           /\ t.consumed = s.consumed /\ t.carriers = s.carriers
           /\ t.changed = s.changed /\ t.lent = s.lent /\ t.borrowed = s.borrowed
           /\ t.loanSteps = s.loanSteps
           /\ Counted(s) => Counted(t)
  <1> DEFINE t == [s EXCEPT !.resources = r]
  <1>1. /\ t \in CState
        /\ t.resources = r /\ t.folded = s.folded /\ t.entries = s.entries
        /\ t.consumed = s.consumed /\ t.carriers = s.carriers
        /\ t.changed = s.changed /\ t.lent = s.lent /\ t.borrowed = s.borrowed
        /\ t.loanSteps = s.loanSteps
        /\ t.locked = s.locked /\ t.obligations = s.obligations
    BY DEF CState
  <1> HIDE DEF t
  <1>2. Counted(s) => Counted(t) BY <1>1, CountedSame
  <1> QED BY <1>1, <1>2 DEF t

LEMMA ConsumedFields ==
    ASSUME NEW s \in CState, NEW m \in Mutex, NEW t, t = WithStorageConsumed(s, m)
    PROVE  /\ t \in CState
           /\ m \in Automatic => t.resources = s.resources /\ t.consumed = s.consumed
           /\ m \notin Automatic => /\ t.resources = s.resources \ {Storage(m)}
                                    /\ t.consumed = s.consumed \cup {m}
           /\ t.changed \in {s.changed, s.changed \cup {m}}
           /\ t.folded = s.folded /\ t.entries = s.entries
           /\ t.carriers = s.carriers
           /\ t.lent = s.lent /\ t.borrowed = s.borrowed
           /\ Counted(s) => Counted(t)
  <1>1. CASE m \in Automatic BY <1>1 DEF WithStorageConsumed
  <1>2. CASE m \notin Automatic
    <2>1. PICK r \in SUBSET FactType, u \in SUBSET Mutex, c \in SUBSET Mutex :
             r = s.resources \ {Storage(m)} /\ u = s.consumed \cup {m} /\ c = s.changed \cup {m}
      BY DEF CState
    <2>2. t = [s EXCEPT !.resources = r, !.consumed = u, !.changed = c]
      BY <1>2, <2>1 DEF WithStorageConsumed
    <2>3. t \in CState BY <2>2 DEF CState
    <2>4. /\ t.resources = r /\ t.consumed = u /\ t.changed = c
          /\ t.folded = s.folded /\ t.entries = s.entries
          /\ t.carriers = s.carriers
          /\ t.lent = s.lent /\ t.borrowed = s.borrowed
          /\ t.locked = s.locked /\ t.obligations = s.obligations
      BY <2>2 DEF CState
    <2>5. Counted(s) => Counted(t) BY <2>4, CountedSame
    <2> QED BY <1>2, <2>1, <2>3, <2>4, <2>5
  <1> QED BY <1>1, <1>2

LEMMA InitializeSound ==
    ASSUME NEW s, Sound(s), NEW m \in Mutex, MayInitialize(s, m),
           NEW inv \in Declared(m), inv \subseteq s.resources,
           inv # {} => NoActiveMemoryLoans(s), NEW id \in Nat
    PROVE  LET t == WithStorageConsumed(
                        Inserted([s EXCEPT !.resources = (s.resources \ inv) \cup {Live(m, id)}],
                                 m, Unlocked(id, inv)), m) IN
           /\ Sound(t) /\ Chained(s, t)
           /\ \A n \in Mutex : Shows(t.entries[n]) = IF n = m THEN "free" ELSE Shows(s.entries[n])
           /\ t.carriers = s.carriers
  <1> DEFINE e == Unlocked(id, inv)
             a == [s EXCEPT !.resources = (s.resources \ inv) \cup {Live(m, id)}]
             b == Inserted(a, m, e)
             t == WithStorageConsumed(b, m)
  <1>0. t = WithStorageConsumed(b, m) OBVIOUS
  <1>1. s \in CState /\ Custody(s, m) /\ Folding(s) /\ Payload(s) /\ Counted(s)
        /\ s.entries[m] = None
    BY DEF Sound, MayInitialize
  <1>2. inv \subseteq InstanceFacts /\ \A p, q \in inv : p = q
    BY DEF Declared
  <1>3. e \in Entry /\ e # None /\ e.status = "unlocked" /\ e.init = id /\ e.inv = inv
        /\ ~e.hold /\ ~e.held
    BY <1>2, EntryTypes
  <1>4. (s.resources \ inv) \cup {Live(m, id)} \subseteq FactType
    BY <1>1, FactTypes DEF CState
  <1> HIDE DEF e
  <1>5. /\ a \in CState /\ a.resources = (s.resources \ inv) \cup {Live(m, id)}
        /\ a.folded = s.folded /\ a.entries = s.entries
        /\ a.consumed = s.consumed /\ a.carriers = s.carriers
        /\ a.changed = s.changed /\ a.lent = s.lent /\ a.borrowed = s.borrowed
        /\ Counted(a)
    BY <1>1, <1>4, ResourcesFields
  <1> HIDE DEF a
  <1>6. /\ b \in CState /\ b.resources = a.resources /\ b.folded = s.folded
        /\ b.entries = [s.entries EXCEPT ![m] = e] /\ b.entries[m] = e
        /\ b.consumed = s.consumed /\ b.carriers = s.carriers
        /\ b.changed = s.changed \cup {m} /\ b.lent = s.lent /\ b.borrowed = s.borrowed
        /\ Counted(b)
    BY <1>3, <1>5, InsertedFields, InsertedCounted
  <1> HIDE DEF b, t
  <1>7. /\ t \in CState
        /\ t.resources = (IF m \in Automatic THEN a.resources
                                             ELSE a.resources \ {Storage(m)})
        /\ t.consumed = (IF m \in Automatic THEN s.consumed ELSE s.consumed \cup {m})
        /\ t.changed = s.changed \cup {m}
        /\ t.folded = s.folded /\ t.entries[m] = e
        /\ t.carriers = s.carriers /\ t.lent = s.lent /\ t.borrowed = s.borrowed
        /\ Counted(t)
    <2>1. /\ t \in CState
          /\ m \in Automatic => t.resources = b.resources /\ t.consumed = b.consumed
          /\ m \notin Automatic => /\ t.resources = b.resources \ {Storage(m)}
                                   /\ t.consumed = b.consumed \cup {m}
          /\ t.changed \in {b.changed, b.changed \cup {m}}
          /\ t.folded = b.folded /\ t.entries = b.entries
          /\ t.carriers = b.carriers
          /\ t.lent = b.lent /\ t.borrowed = b.borrowed
      BY <1>0, <1>6, ConsumedFields
    <2>2. Counted(t) BY <1>0, <1>6, ConsumedFields
    <2> QED BY <1>6, <2>1, <2>2
  <1>8. \A n \in Mutex \ {m} : t.entries[n] = s.entries[n]
    <2>1. t.entries = [s.entries EXCEPT ![m] = e] BY <1>0, <1>6, ConsumedFields
    <2> QED BY <2>1, <1>1 DEF CState
  <1>9. /\ \A f \in t.resources : f \in s.resources \/ f = Live(m, id)
        /\ Live(m, id) \in t.resources
        /\ \A f \in s.resources \ t.resources : f \in inv \/ f = Storage(m)
        /\ m \notin Automatic => Storage(m) \notin t.resources
    BY <1>5, <1>7, FactFields
  <1>10. \A f \in inv : f.k = "instance" BY <1>2, InstanceFields
  <1>11. Frame(s, t, m)
    BY <1>7, <1>8, <1>9, <1>10, FactFields DEF Frame
  <1>12. Custody(t, m)
    BY <1>1, <1>3, <1>7, <1>9, <1>10, FactFields DEF Custody
  <1>13. Shape(t.entries[m])
    BY <1>2, <1>3, <1>7 DEF Shape
  <1>14. Folding(t)
    <2>1. Live(m, id) \notin s.folded BY <1>1, FactFields DEF Custody
    <2> QED BY <1>1, <1>7, <1>9, <2>1 DEF Folding
  <1>15. Payload(t)
    <2>1. Escrow(s, m) = {} /\ Escrow(t, m) = inv BY <1>1, <1>3, <1>7 DEF Escrow
    <2>2. \A n \in Mutex \ {m} : Escrow(t, n) = Escrow(s, n) BY <1>8 DEF Escrow
    <2>3. t.resources \cap InstanceFacts = (s.resources \cap InstanceFacts) \ inv
      BY <1>5, <1>7, FactFields, InstanceFields
    <2>4. inv # {} => t.borrowed = {} BY <1>7 DEF NoActiveMemoryLoans
    <2> QED BY <1>1, <1>2, <1>7, <2>1, <2>2, <2>3, <2>4, PayloadGiven
  <1>16. Sound(t) BY <1>7, <1>11, <1>12, <1>13, <1>14, <1>15, SoundStep
  <1>17. Chained(s, t) BY <1>7, <1>8 DEF Chained
  <1>18. \A n \in Mutex : Shows(t.entries[n]) = IF n = m THEN "free" ELSE Shows(s.entries[n])
    BY <1>3, <1>7, <1>8 DEF Shows
  <1> QED BY <1>7, <1>16, <1>17, <1>18 DEF t, b, a, e

LEMMA HeldUseFields ==
    ASSUME NEW s \in CState, NEW m \in Mutex, s.lent[m] # None, NEW h \in BOOLEAN,
           NEW t, t = HeldUse(s, m, h)
    PROVE  /\ t \in CState
           /\ t.lent[m] # None /\ t.lent[m].init = s.lent[m].init /\ (t.lent[m].hold <=> h)
           /\ \A n \in Mutex \ {m} : t.lent[n] = s.lent[n]
           /\ t.resources = s.resources /\ t.folded = s.folded /\ t.entries = s.entries
           /\ t.consumed = s.consumed /\ t.carriers = s.carriers
           /\ t.changed = s.changed /\ t.borrowed = s.borrowed
           /\ Counted(s) => Counted(t)
  <1> DEFINE loan == [s.lent[m] EXCEPT !.hold = h]
             lent == [s.lent EXCEPT ![m] = loan]
  <1>1. s.lent[m] \in Loan BY DEF CState
  <1>2. loan \in Loan /\ loan.init = s.lent[m].init /\ (loan.hold <=> h)
    BY <1>1 DEF Loan
  <1>3. loan # None BY <1>2, MutexAssumption
  <1>4. lent \in [Mutex -> Loan \cup {None}] /\ lent[m] = loan
        /\ \A n \in Mutex \ {m} : lent[n] = s.lent[n]
    BY <1>2 DEF CState
  <1>5. t = [s EXCEPT !.lent = lent, !.loanSteps = TRUE]
    BY DEF HeldUse, CState
  <1> HIDE DEF lent, loan
  <1>6. t \in CState BY <1>4, <1>5 DEF CState
  <1>7. /\ t.lent = lent
        /\ t.resources = s.resources /\ t.folded = s.folded /\ t.entries = s.entries
        /\ t.consumed = s.consumed /\ t.carriers = s.carriers
        /\ t.changed = s.changed /\ t.borrowed = s.borrowed
        /\ t.locked = s.locked /\ t.obligations = s.obligations
    BY <1>5 DEF CState
  <1>8. Counted(s) => Counted(t) BY <1>7, CountedSame
  <1> QED BY <1>2, <1>3, <1>4, <1>6, <1>7, <1>8

\* The path after acquiring m, and what acquiring requires of it.
Acquired(s, m, epoch) ==
    LET e == s.entries[m]
        byUse == Use(m, e.init) \in s.resources
        held == IF byUse THEN HeldUse(s, m, TRUE) ELSE s
    IN  Inserted([held EXCEPT !.resources = held.resources \cup e.inv \cup {Guard(m, epoch)}],
                 m, Locked(e.init, e.inv, epoch, byUse))

MayAcquire(s, m) ==
    LET e == s.entries[m] IN
    /\ e # None /\ e.status = "unlocked"
    /\ Use(m, e.init) \in s.resources \/ Live(m, e.init) \in s.resources

LEMMA AcquireSound ==
    ASSUME NEW s, Sound(s), NEW m \in Mutex, NEW epoch \in Nat, MayAcquire(s, m)
    PROVE  LET t == Acquired(s, m, epoch) IN
           /\ Sound(t) /\ Chained(s, t)
           /\ \A n \in Mutex : n # m => Shows(t.entries[n]) = Shows(s.entries[n])
           /\ Shows(t.entries[m]) = "held"
           /\ t.carriers = s.carriers
  <1> DEFINE e == s.entries[m]
             loan == s.lent[m]
             byUse == Use(m, e.init) \in s.resources
             new == Locked(e.init, e.inv, epoch, byUse)
             held == IF byUse THEN HeldUse(s, m, TRUE) ELSE s
             a == [held EXCEPT !.resources = held.resources \cup e.inv \cup {Guard(m, epoch)}]
             t == Inserted(a, m, new)
  <1>0. t = Acquired(s, m, epoch) /\ byUse \in BOOLEAN
    BY DEF Acquired, MayAcquire
  <1>a. e # None /\ e.status = "unlocked" /\ (byUse \/ Live(m, e.init) \in s.resources)
    BY DEF MayAcquire
  <1>1. s \in CState /\ Custody(s, m) /\ Shape(e) /\ Folding(s) /\ Payload(s) /\ Counted(s)
    BY DEF Sound
  <1>2. e \in Entry /\ e.init \in Nat /\ e.inv \in SUBSET InstanceFacts
        /\ e.hold \in BOOLEAN /\ ~e.hold /\ ~e.held
        /\ \A p, q \in e.inv : p = q
    BY <1>a, <1>1 DEF CState, Entry, Shape
  <1> HIDE DEF t, a, held, byUse
  <1>3. new \in Entry /\ new # None /\ new.status = "locked" /\ new.init = e.init
        /\ new.inv = e.inv /\ new.epoch = epoch /\ (new.hold <=> byUse) /\ new.held
    BY <1>0, <1>2, EntryTypes
  <1> HIDE DEF new
  <1>4. byUse => loan # None
    BY <1>a, <1>1, <1>2, FactFields DEF Custody, byUse
  <1>5. ~byUse => loan = None
    BY <1>a, <1>1, <1>2, FactFields DEF Custody
  <1>6. /\ held \in CState
        /\ held.lent[m] # None <=> byUse
        /\ byUse => held.lent[m].init = loan.init /\ held.lent[m].hold
        /\ \A n \in Mutex \ {m} : held.lent[n] = s.lent[n]
        /\ held.resources = s.resources /\ held.folded = s.folded /\ held.entries = s.entries
        /\ held.consumed = s.consumed /\ held.carriers = s.carriers
        /\ held.changed = s.changed /\ held.borrowed = s.borrowed
        /\ Counted(held)
    <2>1. CASE byUse
      <3>1. held = HeldUse(s, m, TRUE) BY <2>1 DEF held
      <3>2. PICK h \in BOOLEAN : h = TRUE OBVIOUS
      <3>3. held = HeldUse(s, m, h) BY <3>1, <3>2
      <3>4. s \in CState /\ s.lent[m] # None BY <1>1, <1>4, <2>1
      <3>5. /\ held \in CState
            /\ held.lent[m] # None /\ held.lent[m].init = s.lent[m].init /\ (held.lent[m].hold <=> h)
            /\ \A n \in Mutex \ {m} : held.lent[n] = s.lent[n]
            /\ held.resources = s.resources /\ held.folded = s.folded /\ held.entries = s.entries
            /\ held.consumed = s.consumed /\ held.carriers = s.carriers
            /\ held.changed = s.changed /\ held.borrowed = s.borrowed
            /\ Counted(s) => Counted(held)
        BY <3>3, <3>4, HeldUseFields
      <3> QED BY <1>1, <2>1, <3>2, <3>5
    <2>2. CASE ~byUse BY <1>1, <1>5, <2>2 DEF held
    <2> QED BY <2>1, <2>2
  <1> DEFINE r == held.resources \cup e.inv \cup {Guard(m, epoch)}
  <1>7. r \in SUBSET FactType
    BY <1>1, <1>2, <1>6, FactTypes DEF CState
  <1>8. /\ a \in CState /\ a.resources = s.resources \cup e.inv \cup {Guard(m, epoch)}
        /\ a.folded = s.folded /\ a.entries = s.entries
        /\ a.consumed = s.consumed /\ a.carriers = s.carriers
        /\ a.changed = s.changed /\ a.lent = held.lent /\ a.borrowed = s.borrowed
        /\ Counted(a)
    <2>1. a = [held EXCEPT !.resources = r] BY DEF a
    <2>2. r = s.resources \cup e.inv \cup {Guard(m, epoch)} BY <1>6
    <2> HIDE DEF r
    <2> QED BY <1>6, <1>7, <2>1, <2>2, ResourcesFields
  <1>9. /\ t \in CState /\ t.resources = s.resources \cup e.inv \cup {Guard(m, epoch)}
        /\ t.folded = s.folded /\ t.entries = [s.entries EXCEPT ![m] = new]
        /\ t.entries[m] = new
        /\ t.consumed = s.consumed /\ t.carriers = s.carriers
        /\ t.changed = s.changed \cup {m} /\ t.lent = held.lent /\ t.borrowed = s.borrowed
        /\ Counted(t)
    <2>1. t = Inserted(a, m, new) BY DEF t
    <2> QED BY <1>3, <1>8, <2>1, InsertedFields, InsertedCounted
  <1>10. \A n \in Mutex \ {m} : t.entries[n] = s.entries[n]
    BY <1>1, <1>9 DEF CState
  <1>11. \A f \in e.inv : f.k = "instance" BY <1>2, InstanceFields
  <1>12. Frame(s, t, m)
    BY <1>6, <1>9, <1>10, <1>11, FactFields DEF Frame
  <1>13. Custody(t, m)
    BY <1>a, <1>1, <1>2, <1>3, <1>4, <1>5, <1>6, <1>9, <1>11, FactFields DEF Custody
  <1>14. Shape(t.entries[m]) BY <1>2, <1>3, <1>9 DEF Shape
  <1>15. Folding(t)
    <2>1. Guard(m, epoch) \notin s.folded BY <1>a, <1>1, FactFields DEF Custody
    <2> QED BY <1>1, <1>9, <1>11, <2>1 DEF Folding
  <1>16. Payload(t)
    <2>1. Escrow(s, m) = e.inv /\ Escrow(t, m) = {} BY <1>a, <1>3, <1>9 DEF Escrow
    <2>2. \A n \in Mutex \ {m} : Escrow(t, n) = Escrow(s, n) BY <1>10 DEF Escrow
    <2>3. t.resources \cap InstanceFacts = (s.resources \cap InstanceFacts) \cup e.inv
      BY <1>2, <1>9, FactFields, InstanceFields
    <2> QED BY <1>1, <1>2, <1>9, <2>1, <2>2, <2>3, PayloadTaken
  <1>17. Sound(t) BY <1>9, <1>12, <1>13, <1>14, <1>15, <1>16, SoundStep
  <1>18. Chained(s, t) BY <1>9, <1>10 DEF Chained
  <1>19. (\A n \in Mutex : n # m => Shows(t.entries[n]) = Shows(s.entries[n]))
         /\ Shows(t.entries[m]) = "held"
    BY <1>3, <1>9, <1>10 DEF Shows
  <1> QED BY <1>0, <1>9, <1>17, <1>18, <1>19

MayRelease(s, m) ==
    LET e == s.entries[m]
        restored == Restorable(s, e.inv) IN
    /\ e # None /\ e.status = "locked"
    /\ Guard(m, e.epoch) \in s.resources
    /\ restored # {} => NoActiveMemoryLoans(s)

Released(s, m) ==
    LET e == s.entries[m]
        restored == Restorable(s, e.inv)
        freed == IF e.hold THEN HeldUse(s, m, FALSE) ELSE s
    IN  Inserted([freed EXCEPT !.resources = (freed.resources \ restored) \ {Guard(m, e.epoch)}],
                 m, Unlocked(e.init, restored))

LEMMA ReleaseSound ==
    ASSUME NEW s, Sound(s), NEW m \in Mutex, MayRelease(s, m)
    PROVE  LET t == Released(s, m) IN
           /\ Sound(t) /\ Chained(s, t)
           /\ \A n \in Mutex : n # m => Shows(t.entries[n]) = Shows(s.entries[n])
           /\ Shows(t.entries[m]) = "free"
           /\ t.carriers = s.carriers
  <1> DEFINE e == s.entries[m]
             inv == Restorable(s, e.inv)
             new == Unlocked(e.init, inv)
             held == IF e.hold THEN HeldUse(s, m, FALSE) ELSE s
             a == [held EXCEPT !.resources = (held.resources \ inv) \ {Guard(m, e.epoch)}]
             t == Inserted(a, m, new)
  <1>0. t = Released(s, m) BY DEF Released
  <1>a. /\ e # None /\ e.status = "locked" /\ Guard(m, e.epoch) \in s.resources
        /\ inv # {} => NoActiveMemoryLoans(s)
    BY DEF MayRelease
  <1>1. s \in CState /\ Custody(s, m) /\ Shape(e) /\ Folding(s) /\ Payload(s) /\ Counted(s)
    BY DEF Sound
  <1>2. e \in Entry /\ e.init \in Nat /\ e.epoch \in Nat /\ e.inv \in SUBSET InstanceFacts
        /\ e.hold \in BOOLEAN /\ \A p, q \in e.inv : p = q
    BY <1>a, <1>1 DEF CState, Entry, Shape
  <1> HIDE DEF t, a, held
  <1>3. inv \subseteq s.resources \cap InstanceFacts /\ \A p, q \in inv : p = q
    <2>1. inv \subseteq s.resources \cap InstanceFacts BY DEF Restorable
    <2>2. ASSUME NEW p \in inv, NEW q \in inv PROVE p = q
      <3>1. p.on = q.on BY <1>2 DEF Restorable
      <3>2. p \in OwnedOf(s, p.on) /\ q \in OwnedOf(s, p.on) BY <2>1, <3>1 DEF OwnedOf
      <3>3. p.on \in Instance BY <2>1, InstanceFields
      <3> QED BY <1>1, <3>2, <3>3 DEF Payload
    <2> QED BY <2>1, <2>2
  <1> HIDE DEF inv
  <1>4. new \in Entry /\ new # None /\ new.status = "unlocked" /\ new.init = e.init
        /\ new.inv = inv /\ ~new.hold /\ ~new.held
    BY <1>2, <1>3, EntryTypes
  <1> HIDE DEF new
  <1>5. e.hold => s.lent[m] # None
    BY <1>a, <1>1 DEF Custody
  <1>6. /\ held \in CState
        /\ held.lent[m] # None <=> s.lent[m] # None
        /\ s.lent[m] # None => held.lent[m].init = s.lent[m].init /\ ~held.lent[m].hold
        /\ \A n \in Mutex \ {m} : held.lent[n] = s.lent[n]
        /\ held.resources = s.resources /\ held.folded = s.folded /\ held.entries = s.entries
        /\ held.consumed = s.consumed /\ held.carriers = s.carriers
        /\ held.changed = s.changed /\ held.borrowed = s.borrowed
        /\ Counted(held)
    <2>1. CASE e.hold
      <3>1. held = HeldUse(s, m, FALSE) BY <2>1 DEF held
      <3>2. PICK h \in BOOLEAN : h = FALSE OBVIOUS
      <3>3. held = HeldUse(s, m, h) BY <3>1, <3>2
      <3>4. s \in CState /\ s.lent[m] # None BY <1>1, <1>5, <2>1
      <3>5. /\ held \in CState
            /\ held.lent[m] # None /\ held.lent[m].init = s.lent[m].init /\ (held.lent[m].hold <=> h)
            /\ \A n \in Mutex \ {m} : held.lent[n] = s.lent[n]
            /\ held.resources = s.resources /\ held.folded = s.folded /\ held.entries = s.entries
            /\ held.consumed = s.consumed /\ held.carriers = s.carriers
            /\ held.changed = s.changed /\ held.borrowed = s.borrowed
            /\ Counted(s) => Counted(held)
        BY <3>3, <3>4, HeldUseFields
      <3> QED BY <1>1, <3>2, <3>4, <3>5
    <2>2. CASE ~e.hold
      <3>1. held = s BY <2>2 DEF held
      <3>2. s.lent[m] # None => ~s.lent[m].hold BY <1>1, <2>2 DEF Custody
      <3> QED BY <1>1, <3>1, <3>2
    <2> QED BY <2>1, <2>2
  <1> DEFINE r == (held.resources \ inv) \ {Guard(m, e.epoch)}
  <1>8. /\ a \in CState /\ a.resources = (s.resources \ inv) \ {Guard(m, e.epoch)}
        /\ a.folded = s.folded /\ a.entries = s.entries
        /\ a.consumed = s.consumed /\ a.carriers = s.carriers
        /\ a.changed = s.changed /\ a.lent = held.lent /\ a.borrowed = s.borrowed
        /\ Counted(a)
    <2>1. a = [held EXCEPT !.resources = r] BY DEF a
    <2>2. r = (s.resources \ inv) \ {Guard(m, e.epoch)} /\ r \in SUBSET FactType
      BY <1>1, <1>6 DEF CState
    <2> HIDE DEF r
    <2> QED BY <1>6, <2>1, <2>2, ResourcesFields
  <1>9. /\ t \in CState /\ t.resources = (s.resources \ inv) \ {Guard(m, e.epoch)}
        /\ t.folded = s.folded /\ t.entries = [s.entries EXCEPT ![m] = new]
        /\ t.entries[m] = new
        /\ t.consumed = s.consumed /\ t.carriers = s.carriers
        /\ t.changed = s.changed \cup {m} /\ t.lent = held.lent /\ t.borrowed = s.borrowed
        /\ Counted(t)
    <2>1. t = Inserted(a, m, new) BY DEF t
    <2> QED BY <1>4, <1>8, <2>1, InsertedFields, InsertedCounted
  <1>10. \A n \in Mutex \ {m} : t.entries[n] = s.entries[n]
    BY <1>1, <1>9 DEF CState
  <1>11. \A f \in inv : f.k = "instance" BY <1>3, InstanceFields
  <1>12. Frame(s, t, m)
    BY <1>6, <1>9, <1>10, <1>11, FactFields DEF Frame
  <1>13. Custody(t, m)
    <2>1. Guard(m, e.epoch) \notin s.folded BY <1>a, <1>1 DEF Folding
    <2>2. \A f \in s.resources \cup s.folded : f.k = "guard" /\ f.on = m => f = Guard(m, e.epoch)
      BY <1>1 DEF Custody
    <2>3. \A f \in s.resources : f.k # "guard" /\ f.k # "instance" => f \in t.resources
      BY <1>9, <1>11, FactFields
    <2>4. t.resources \subseteq s.resources /\ Guard(m, e.epoch) \notin t.resources
      BY <1>9
    <2> QED BY <1>a, <1>1, <1>2, <1>4, <1>6, <1>9, <2>1, <2>2, <2>3, <2>4, FactFields DEF Custody
  <1>14. Shape(t.entries[m]) BY <1>3, <1>4, <1>9 DEF Shape
  <1>15. Folding(t) BY <1>1, <1>9 DEF Folding
  <1>16. Payload(t)
    <2>1. Escrow(s, m) = {} /\ Escrow(t, m) = inv BY <1>a, <1>4, <1>9 DEF Escrow
    <2>2. \A n \in Mutex \ {m} : Escrow(t, n) = Escrow(s, n) BY <1>10 DEF Escrow
    <2>3. t.resources \cap InstanceFacts = (s.resources \cap InstanceFacts) \ inv
      BY <1>9, FactFields, InstanceFields
    <2>4. inv # {} => t.borrowed = {} BY <1>a, <1>9 DEF NoActiveMemoryLoans
    <2> QED BY <1>1, <1>3, <1>9, <2>1, <2>2, <2>3, <2>4, PayloadGiven
  <1>17. Sound(t) BY <1>9, <1>12, <1>13, <1>14, <1>15, <1>16, SoundStep
  <1>18. Chained(s, t) BY <1>9, <1>10 DEF Chained
  <1>19. (\A n \in Mutex : n # m => Shows(t.entries[n]) = Shows(s.entries[n]))
         /\ Shows(t.entries[m]) = "free"
    BY <1>4, <1>9, <1>10 DEF Shows
  <1> QED BY <1>0, <1>9, <1>17, <1>18, <1>19

LEMMA WithoutFields ==
    ASSUME NEW s \in CState, NEW m \in Mutex, NEW t, t = Without(s, m)
    PROVE  /\ t \in CState
           /\ t.resources = s.resources /\ t.folded = s.folded
           /\ t.entries[m] = None
           /\ \A n \in Mutex \ {m} : t.entries[n] = s.entries[n]
           /\ t.consumed = s.consumed \ {m} /\ t.carriers = s.carriers \ {m}
           /\ t.changed = s.changed \cup {m}
           /\ t.lent = s.lent /\ t.borrowed = s.borrowed
           /\ Counted(s) => Counted(t)
  <1> DEFINE gone == [s.entries EXCEPT ![m] = None]
             cut == s.lost \/ \A n \in Mutex : gone[n] = None
             lk == s.locked - Bit(IsLocked(s.entries[m]))
             ob == s.obligations - Bit(HasReturnObligation(s.entries[m]))
             c == s.changed \cup {m}
             u == s.consumed \ {m}
             k == s.carriers \ {m}
  <1>1. t = [s EXCEPT !.entries = gone, !.locked = lk, !.obligations = ob,
                      !.carriers = k, !.consumed = u, !.changed = c, !.lost = cut]
    BY DEF Without
  <1>2. gone \in [Mutex -> Entry \cup {None}] /\ gone[m] = None
        /\ \A n \in Mutex \ {m} : gone[n] = s.entries[n]
    BY DEF CState
  <1>3. cut \in BOOLEAN
    BY DEF CState
  <1>4. lk \in Int /\ ob \in Int
    BY DEF CState, Bit
  <1>5. c \in SUBSET Mutex /\ u \in SUBSET Mutex /\ k \in SUBSET Mutex
    BY DEF CState
  <1> HIDE DEF gone, cut, lk, ob, c, u, k
  <1>6. t \in CState BY <1>1, <1>2, <1>3, <1>4, <1>5 DEF CState
  <1>7. /\ t.resources = s.resources /\ t.folded = s.folded /\ t.entries = gone
        /\ t.consumed = u /\ t.carriers = k /\ t.changed = c
        /\ t.lent = s.lent /\ t.borrowed = s.borrowed
        /\ t.locked = lk /\ t.obligations = ob
    BY <1>1 DEF CState
  <1>8. ASSUME Counted(s) PROVE Counted(t)
    <2>1. s.entries \in [Mutex -> Entry \cup {None}] /\ s.locked \in Int /\ s.obligations \in Int
      BY DEF CState
    <2>2. t.entries = [s.entries EXCEPT ![m] = None] BY <1>7 DEF gone
    <2>3. ~IsLocked(None) /\ ~HasReturnObligation(None) BY DEF IsLocked, HasReturnObligation
    <2>4. Bit(IsLocked(None)) = 0 /\ Bit(HasReturnObligation(None)) = 0 BY <2>3 DEF Bit
    <2>5. \A x : Bit(x) \in Int BY DEF Bit
    <2>6. t.locked = s.locked + Bit(IsLocked(None)) - Bit(IsLocked(s.entries[m]))
          /\ t.obligations = s.obligations + Bit(HasReturnObligation(None))
                                - Bit(HasReturnObligation(s.entries[m]))
      BY <1>7, <2>1, <2>4, <2>5 DEF lk, ob
    <2> QED BY <1>8, <2>1, <2>2, <2>6, CountedUpdate
  <1> QED BY <1>2, <1>6, <1>7, <1>8 DEF c, u, k

Destroyed(s, m) ==
    LET e == s.entries[m]
        bytes == IF m \in s.consumed THEN {Storage(m)} ELSE {} IN
    Without([s EXCEPT !.resources = (s.resources \ {Live(m, e.init)}) \cup e.inv \cup bytes], m)

LEMMA DestroySound ==
    ASSUME NEW s, Sound(s), NEW m \in Mutex,
           Destroyable(s.entries[m]), Live(m, s.entries[m].init) \in s.resources
    PROVE  LET t == Destroyed(s, m) IN
           /\ Sound(t) /\ Chained(s, t)
           /\ \A n \in Mutex : n # m => Shows(t.entries[n]) = Shows(s.entries[n])
           /\ Shows(t.entries[m]) = "none"
           /\ t.carriers = s.carriers \ {m}
  <1> DEFINE e == s.entries[m]
             bytes == IF m \in s.consumed THEN {Storage(m)} ELSE {}
             r == (s.resources \ {Live(m, e.init)}) \cup e.inv \cup bytes
             a == [s EXCEPT !.resources = r]
             t == Without(a, m)
  <1>0. t = Destroyed(s, m) BY DEF Destroyed
  <1>a. e # None /\ e.status = "unlocked" /\ Live(m, e.init) \in s.resources
    BY DEF Destroyable
  <1>1. s \in CState /\ Custody(s, m) /\ Shape(e) /\ Folding(s) /\ Payload(s) /\ Counted(s)
    BY DEF Sound
  <1>2. e \in Entry /\ e.init \in Nat /\ e.inv \in SUBSET InstanceFacts
        /\ ~e.hold /\ \A p, q \in e.inv : p = q
    BY <1>a, <1>1 DEF CState, Entry, Shape
  <1>3. r \in SUBSET FactType
    BY <1>1, <1>2, FactTypes, 0 \in Nat DEF CState
  <1>4. /\ a \in CState /\ a.resources = r
        /\ a.folded = s.folded /\ a.entries = s.entries
        /\ a.consumed = s.consumed /\ a.carriers = s.carriers
        /\ a.changed = s.changed /\ a.lent = s.lent /\ a.borrowed = s.borrowed
        /\ Counted(a)
    <2> HIDE DEF r
    <2> QED BY <1>1, <1>3, ResourcesFields
  <1>5. t = Without(a, m) OBVIOUS
  <1> HIDE DEF t, a
  <1>6. /\ t \in CState /\ t.resources = r
        /\ t.folded = s.folded /\ t.entries[m] = None
        /\ \A n \in Mutex \ {m} : t.entries[n] = s.entries[n]
        /\ t.consumed = s.consumed \ {m} /\ t.carriers = s.carriers \ {m}
        /\ t.changed = s.changed \cup {m} /\ t.lent = s.lent /\ t.borrowed = s.borrowed
        /\ Counted(t)
    <2> HIDE DEF r
    <2> QED BY <1>4, <1>5, WithoutFields
  <1>7. \A f \in e.inv : f.k = "instance" BY <1>2, InstanceFields
  <1>8. \A f \in bytes : f = Storage(m) OBVIOUS
  <1> HIDE DEF bytes
  <1>9. /\ \A f \in t.resources : (f \in s.resources /\ f # Live(m, e.init)) \/ f \in e.inv \/ f = Storage(m)
        /\ \A f \in s.resources : f # Live(m, e.init) => f \in t.resources
        /\ Live(m, e.init) \notin t.resources
    BY <1>6, <1>7, <1>8, FactFields
  <1>10. Live(m, e.init) \notin s.folded
    BY <1>a, <1>1 DEF Folding
  <1>11. Frame(s, t, m)
    BY <1>6, <1>7, <1>9, FactFields DEF Frame
  <1>12. Custody(t, m)
    <2>1. s.lent[m] = None BY <1>a, <1>1, FactFields DEF Custody
    <2>2. \A f \in t.resources \cup t.folded : f.on = m => f.k \notin {"live", "guard", "use"}
      BY <1>a, <1>1, <1>6, <1>7, <1>9, <1>10, <2>1, FactFields DEF Custody
    <2>3. m \notin t.carriers /\ Carrier(m) \notin t.resources
      BY <1>a, <1>1, <1>6, <1>7, <1>9, FactFields DEF Custody
    <2> QED BY <1>6, <2>1, <2>2, <2>3 DEF Custody
  <1>13. Shape(t.entries[m]) BY <1>6 DEF Shape
  <1>14. Folding(t)
    BY <1>1, <1>6, <1>7, <1>9, FactFields DEF Folding
  <1>15. Payload(t)
    <2>1. Escrow(s, m) = e.inv /\ Escrow(t, m) = {} BY <1>a, <1>6 DEF Escrow
    <2>2. \A n \in Mutex \ {m} : Escrow(t, n) = Escrow(s, n) BY <1>6 DEF Escrow
    <2>3. t.resources \cap InstanceFacts = (s.resources \cap InstanceFacts) \cup e.inv
      BY <1>2, <1>6, <1>8, FactFields, InstanceFields
    <2> QED BY <1>1, <1>2, <1>6, <2>1, <2>2, <2>3, PayloadTaken
  <1>16. Sound(t) BY <1>6, <1>11, <1>12, <1>13, <1>14, <1>15, SoundStep
  <1>17. Chained(s, t) BY <1>6 DEF Chained
  <1>18. (\A n \in Mutex : n # m => Shows(t.entries[n]) = Shows(s.entries[n]))
         /\ Shows(t.entries[m]) = "none"
    BY <1>6 DEF Shows
  <1> QED BY <1>0, <1>6, <1>16, <1>17, <1>18
----------------------------------------------------------------------------
(* Lending keeps the path sound                                            *)

\* s with other resources and another loan of m.
Relent(s, m, r, loan) ==
    [s EXCEPT !.resources = r, !.lent[m] = loan, !.loanSteps = TRUE]

LEMMA RelentFields ==
    ASSUME NEW s \in CState, NEW m \in Mutex, NEW r \in SUBSET FactType,
           NEW loan \in Loan \cup {None}
    PROVE  LET t == Relent(s, m, r, loan) IN
           /\ t \in CState /\ t.resources = r /\ t.folded = s.folded
           /\ t.entries = s.entries /\ t.lent[m] = loan
           /\ \A n \in Mutex \ {m} : t.lent[n] = s.lent[n]
           /\ t.consumed = s.consumed /\ t.carriers = s.carriers
           /\ t.changed = s.changed /\ t.borrowed = s.borrowed
           /\ Counted(s) => Counted(t)
  <1> DEFINE lent == [s.lent EXCEPT ![m] = loan]
             t == Relent(s, m, r, loan)
  <1>1. t = [s EXCEPT !.resources = r, !.lent = lent, !.loanSteps = TRUE]
    BY DEF CState, Relent
  <1>2. lent \in [Mutex -> Loan \cup {None}] /\ lent[m] = loan
        /\ \A n \in Mutex \ {m} : lent[n] = s.lent[n]
    BY DEF CState
  <1> HIDE DEF lent, t
  <1>3. t \in CState BY <1>1, <1>2 DEF CState
  <1>4. /\ t.resources = r /\ t.folded = s.folded
        /\ t.entries = s.entries /\ t.lent = lent
        /\ t.consumed = s.consumed /\ t.carriers = s.carriers
        /\ t.changed = s.changed /\ t.borrowed = s.borrowed
        /\ t.locked = s.locked /\ t.obligations = s.obligations
    BY <1>1 DEF CState
  <1>5. Counted(s) => Counted(t) BY <1>4, CountedSame
  <1> QED BY <1>2, <1>3, <1>4, <1>5 DEF t

\* Entries, instances and what is folded untouched: the custody of m is all
\* that a change of one loan has to respect.
LEMMA RelentSound ==
    ASSUME NEW s, Sound(s), NEW m \in Mutex, NEW t \in CState,
           t.folded = s.folded, t.entries = s.entries,
           \A n \in Mutex \ {m} : t.lent[n] = s.lent[n],
           t.consumed = s.consumed, t.carriers = s.carriers,
           t.borrowed = s.borrowed, Counted(t),
           \A f \in t.resources : f \in s.resources \/ (f.on = m /\ f.k # "instance" /\ f \notin s.folded),
           \A f \in s.resources : f \in t.resources \/ (f.on = m /\ f.k # "instance"),
           Custody(t, m)
    PROVE  Sound(t)
  <1>1. s \in CState /\ Shape(s.entries[m]) /\ Folding(s) /\ Payload(s)
    BY DEF Sound
  <1>2. Frame(s, t, m) BY DEF Frame
  <1>3. Shape(t.entries[m]) BY <1>1
  <1>4. Folding(t) BY <1>1 DEF Folding
  <1>5. Payload(t)
    <2>1. t.resources \cap InstanceFacts = s.resources \cap InstanceFacts
      BY InstanceFields
    <2>2. \A n \in Mutex : Escrow(t, n) = Escrow(s, n) BY DEF Escrow
    <2> QED BY <1>1, <2>1, <2>2, PayloadSame
  <1> QED BY <1>2, <1>3, <1>4, <1>5, SoundStep

Lent(s, m) ==
    LET e == s.entries[m] IN
    Relent(s, m, (s.resources \ {Live(m, e.init)}) \cup {Use(m, e.init)},
           [init |-> e.init, hold |-> FALSE])

LEMMA LendSound ==
    ASSUME NEW s, Sound(s), NEW m \in Mutex, s.entries[m] # None,
           Live(m, s.entries[m].init) \in s.resources
    PROVE  LET t == Lent(s, m) IN
           Sound(t) /\ t.entries = s.entries /\ t.changed = s.changed /\ t.carriers = s.carriers
  <1> DEFINE e == s.entries[m]
             r == (s.resources \ {Live(m, e.init)}) \cup {Use(m, e.init)}
             loan == [init |-> e.init, hold |-> FALSE]
             t == Relent(s, m, r, loan)
  <1>0. t = Lent(s, m) BY DEF Lent
  <1>1. s \in CState /\ Custody(s, m) /\ Folding(s) /\ Counted(s)
    BY DEF Sound
  <1>2. e \in Entry /\ e.init \in Nat BY <1>1 DEF CState, Entry
  <1>3. r \in SUBSET FactType BY <1>1, <1>2, FactTypes DEF CState
  <1>4. loan \in Loan /\ loan # None /\ loan.init = e.init /\ ~loan.hold
    <2>1. loan \in Loan BY <1>2 DEF Loan
    <2>2. loan # None
      <3> HIDE DEF loan
      <3> QED BY <2>1, MutexAssumption
    <2> QED BY <2>1, <2>2
  <1> HIDE DEF loan, r
  <1>5. /\ t \in CState /\ t.resources = r /\ t.folded = s.folded
        /\ t.entries = s.entries /\ t.lent[m] = loan
        /\ \A n \in Mutex \ {m} : t.lent[n] = s.lent[n]
        /\ t.consumed = s.consumed /\ t.carriers = s.carriers
        /\ t.changed = s.changed /\ t.borrowed = s.borrowed
        /\ Counted(t)
    BY <1>1, <1>3, <1>4, RelentFields
  <1> HIDE DEF t
  <1>6. /\ \A f \in t.resources : (f \in s.resources /\ f # Live(m, e.init)) \/ f = Use(m, e.init)
        /\ Use(m, e.init) \in t.resources
        /\ \A f \in s.resources : f \in t.resources \/ f = Live(m, e.init)
    BY <1>5 DEF r
  <1>7. Live(m, e.init) \notin s.folded /\ Use(m, e.init) \notin s.folded
    BY <1>1, FactFields DEF Folding
  <1>8. s.lent[m] = None BY <1>1, FactFields DEF Custody
  <1>9. Custody(t, m)
    <2>1. t.entries[m] = e BY <1>5
    <2>2. \A f \in t.resources \cup t.folded : f.k = "live" /\ f.on = m => FALSE
      BY <1>1, <1>5, <1>6, <1>7, FactFields DEF Custody
    <2>3. \A f \in t.resources \cup t.folded : f.k = "guard" /\ f.on = m =>
              e.status = "locked" /\ f = Guard(m, e.epoch)
      BY <1>1, <1>5, <1>6, FactFields DEF Custody
    <2>4. e.status = "locked" => Guard(m, e.epoch) \in t.resources \cup t.folded /\ ~e.hold
      BY <1>1, <1>5, <1>6, <1>8, FactFields DEF Custody
    <2>5. \A f \in t.resources \cup t.folded : f.k = "use" /\ f.on = m => f = Use(m, loan.init)
      BY <1>1, <1>4, <1>5, <1>6, <1>8, FactFields DEF Custody
    <2>6. m \in t.consumed => m \notin Automatic /\ Storage(m) \notin t.resources
      BY <1>1, <1>5, <1>6, FactFields DEF Custody
    <2>7. (m \in t.carriers <=> e.status = "loop")
          /\ (Carrier(m) \in t.resources <=> e.status = "loop")
      BY <1>1, <1>5, <1>6, FactFields DEF Custody
    <2> QED BY <1>4, <1>5, <2>1, <2>2, <2>3, <2>4, <2>5, <2>6, <2>7 DEF Custody
  <1>10. Sound(t)
    <2>1. \A f \in t.resources : f \in s.resources \/ (f.on = m /\ f.k # "instance" /\ f \notin s.folded)
      BY <1>6, <1>7, FactFields
    <2>2. \A f \in s.resources : f \in t.resources \/ (f.on = m /\ f.k # "instance")
      BY <1>6, FactFields
    <2> QED BY <1>5, <1>9, <2>1, <2>2, RelentSound
  <1> QED BY <1>0, <1>5, <1>10

Recovered(s, m) ==
    LET loan == s.lent[m] IN
    Relent(s, m, (s.resources \ {Use(m, loan.init)}) \cup {Live(m, loan.init)}, None)

LEMMA RecoverSound ==
    ASSUME NEW s, Sound(s), NEW m \in Mutex, Recoverable(s.lent[m]),
           Use(m, s.lent[m].init) \in s.resources
    PROVE  LET t == Recovered(s, m) IN
           Sound(t) /\ t.entries = s.entries /\ t.changed = s.changed /\ t.carriers = s.carriers
  <1> DEFINE e == s.entries[m]
             loan == s.lent[m]
             r == (s.resources \ {Use(m, loan.init)}) \cup {Live(m, loan.init)}
             t == Relent(s, m, r, None)
  <1>0. t = Recovered(s, m) BY DEF Recovered
  <1>1. s \in CState /\ Custody(s, m) /\ Folding(s) /\ Counted(s)
    BY DEF Sound
  <1>2. loan # None /\ ~loan.hold /\ loan.init \in Nat
        /\ e # None /\ loan.init = e.init
    BY <1>1 DEF CState, Loan, Recoverable, Custody
  <1>3. r \in SUBSET FactType BY <1>1, <1>2, FactTypes DEF CState
  <1> HIDE DEF r
  <1>5. /\ t \in CState /\ t.resources = r /\ t.folded = s.folded
        /\ t.entries = s.entries /\ t.lent[m] = None
        /\ \A n \in Mutex \ {m} : t.lent[n] = s.lent[n]
        /\ t.consumed = s.consumed /\ t.carriers = s.carriers
        /\ t.changed = s.changed /\ t.borrowed = s.borrowed
        /\ Counted(t)
    BY <1>1, <1>3, RelentFields
  <1> HIDE DEF t
  <1>6. /\ \A f \in t.resources : (f \in s.resources /\ f # Use(m, e.init)) \/ f = Live(m, e.init)
        /\ Live(m, e.init) \in t.resources
        /\ \A f \in s.resources : f \in t.resources \/ f = Use(m, e.init)
    BY <1>2, <1>5 DEF r
  <1>7. Live(m, e.init) \notin s.folded /\ Use(m, e.init) \notin s.folded
    BY <1>1, <1>2, FactFields DEF Folding, Custody
  <1> HIDE DEF loan
  <1>8. s.lent[m] = loan BY DEF loan
  <1>9. Custody(t, m)
    <2>1. t.entries[m] = e BY <1>5
    <2>2. \A f \in t.resources \cup t.folded : f.k = "live" /\ f.on = m => f = Live(m, e.init)
      BY <1>1, <1>2, <1>5, <1>6, <1>8, FactFields DEF Custody
    <2>3. \A f \in t.resources \cup t.folded : f.k = "guard" /\ f.on = m =>
              e.status = "locked" /\ f = Guard(m, e.epoch)
      BY <1>1, <1>5, <1>6, FactFields DEF Custody
    <2>4. e.status = "locked" => Guard(m, e.epoch) \in t.resources \cup t.folded /\ ~e.hold
      BY <1>1, <1>2, <1>5, <1>6, <1>8, FactFields DEF Custody
    <2>5. \A f \in t.resources \cup t.folded : f.k = "use" /\ f.on = m => FALSE
      BY <1>1, <1>2, <1>5, <1>6, <1>7, <1>8, FactFields DEF Custody
    <2>6. m \in t.consumed => m \notin Automatic /\ Storage(m) \notin t.resources
      BY <1>1, <1>5, <1>6, FactFields DEF Custody
    <2>7. (m \in t.carriers <=> e.status = "loop")
          /\ (Carrier(m) \in t.resources <=> e.status = "loop")
      BY <1>1, <1>2, <1>5, <1>6, FactFields DEF Custody
    <2> QED BY <1>2, <1>5, <1>6, <2>1, <2>2, <2>3, <2>4, <2>5, <2>6, <2>7 DEF Custody
  <1>10. Sound(t)
    <2>1. \A f \in t.resources : f \in s.resources \/ (f.on = m /\ f.k # "instance" /\ f \notin s.folded)
      BY <1>6, <1>7, FactFields
    <2>2. \A f \in s.resources : f \in t.resources \/ (f.on = m /\ f.k # "instance")
      BY <1>6, FactFields
    <2> QED BY <1>5, <1>9, <2>1, <2>2, RelentSound
  <1> QED BY <1>0, <1>5, <1>10

LEMMA EndStorageSound ==
    ASSUME NEW s, Sound(s), NEW m \in Mutex, s.entries[m] = None
    PROVE  LET t == [s EXCEPT !.resources = s.resources \ {Storage(m)}] IN
           Sound(t) /\ t.entries = s.entries /\ t.changed = s.changed /\ t.carriers = s.carriers
  <1> DEFINE r == s.resources \ {Storage(m)}
             t == [s EXCEPT !.resources = r]
  <1>1. s \in CState /\ Custody(s, m) /\ Folding(s) /\ Counted(s)
    BY DEF Sound
  <1>2. r \in SUBSET FactType BY <1>1 DEF CState
  <1>3. /\ t \in CState /\ t.resources = r /\ t.folded = s.folded
        /\ t.entries = s.entries /\ t.lent = s.lent
        /\ t.consumed = s.consumed /\ t.carriers = s.carriers
        /\ t.changed = s.changed /\ t.borrowed = s.borrowed
        /\ Counted(t)
    <2> HIDE DEF r
    <2> QED BY <1>1, <1>2, ResourcesFields
  <1>4. /\ \A f \in t.resources : f \in s.resources
        /\ \A f \in s.resources : f \in t.resources \/ f = Storage(m)
    BY <1>3
  <1> HIDE DEF t
  <1>5. Custody(t, m) BY <1>1, <1>3, <1>4, FactFields DEF Custody
  <1>6. Sound(t)
    <2>1. \A f \in s.resources : f \in t.resources \/ (f.on = m /\ f.k # "instance")
      BY <1>4, FactFields
    <2> QED BY <1>3, <1>4, <1>5, <2>1, RelentSound
  <1> QED BY <1>3, <1>6 DEF t

----------------------------------------------------------------------------
(* Folding, rewriting and borrowing keep the path sound                    *)

\* Neither entries nor loans change, nor what of a mutex is owned or folded.
LEMMA CustodySame ==
    ASSUME NEW s, Sound(s), NEW t,
           t.entries = s.entries, t.lent = s.lent,
           t.consumed = s.consumed, t.carriers = s.carriers,
           \A f : f.k # "instance" =>
              (f \in t.resources \cup t.folded <=> f \in s.resources \cup s.folded),
           \A f : f.k \in {"storage", "carrier"} =>
              (f \in t.resources <=> f \in s.resources)
    PROVE  \A m \in Mutex : Shape(t.entries[m]) /\ Custody(t, m)
  <1> SUFFICES ASSUME NEW m \in Mutex PROVE Shape(t.entries[m]) /\ Custody(t, m)
    OBVIOUS
  <1>1. Shape(s.entries[m]) /\ Custody(s, m) BY DEF Sound
  <1>2. Storage(m) \in t.resources <=> Storage(m) \in s.resources
    BY FactFields
  <1>3. Carrier(m) \in t.resources <=> Carrier(m) \in s.resources
    BY FactFields
  <1>4. \A i : Live(m, i) \in t.resources \cup t.folded <=> Live(m, i) \in s.resources \cup s.folded
    BY FactFields
  <1>5. \A i : Guard(m, i) \in t.resources \cup t.folded <=> Guard(m, i) \in s.resources \cup s.folded
    BY FactFields
  <1>6. \A f : f.k \in {"live", "guard", "use"} =>
              (f \in t.resources \cup t.folded <=> f \in s.resources \cup s.folded)
    OBVIOUS
  <1> DEFINE to == t.resources \cup t.folded
             so == s.resources \cup s.folded
  <1> HIDE DEF to, so
  <1>7. Custody(t, m) BY <1>1, <1>2, <1>3, <1>4, <1>5, <1>6 DEF Custody
  <1> QED BY <1>1, <1>7

\* s with f moved between the owned and the folded facts.
Moved(s, r, g) == [s EXCEPT !.resources = r, !.folded = g]
Folded(s, f) == Moved(s, s.resources \ {f}, s.folded \cup {f})
Unfolded(s, f) == Moved(s, s.resources \cup {f}, s.folded \ {f})

LEMMA MovedFields ==
    ASSUME NEW s \in CState, NEW r \in SUBSET FactType, NEW g \in SUBSET FactType
    PROVE  LET t == Moved(s, r, g) IN
           /\ t \in CState /\ t.resources = r /\ t.folded = g
           /\ t.entries = s.entries /\ t.lent = s.lent
           /\ t.consumed = s.consumed /\ t.carriers = s.carriers
           /\ t.changed = s.changed /\ t.borrowed = s.borrowed
           /\ Counted(s) => Counted(t)
  <1> DEFINE t == Moved(s, r, g)
  <1>1. /\ t \in CState /\ t.resources = r /\ t.folded = g
        /\ t.entries = s.entries /\ t.lent = s.lent
        /\ t.consumed = s.consumed /\ t.carriers = s.carriers
        /\ t.changed = s.changed /\ t.borrowed = s.borrowed
        /\ t.locked = s.locked /\ t.obligations = s.obligations
    BY DEF CState, Moved
  <1> HIDE DEF t
  <1>2. Counted(s) => Counted(t) BY <1>1, CountedSame
  <1> QED BY <1>1, <1>2 DEF t

LEMMA FoldSound ==
    ASSUME NEW s, Sound(s), NEW f \in s.resources, f.k \in Foldable
    PROVE  LET t == Folded(s, f) IN
           Sound(t) /\ t.entries = s.entries /\ t.changed = s.changed /\ t.carriers = s.carriers
  <1> DEFINE t == Folded(s, f)
  <1>1. s \in CState /\ Folding(s) /\ Payload(s) /\ Counted(s) BY DEF Sound
  <1>2. f.k \in {"live", "guard"} BY MutexAssumption
  <1>3. /\ t \in CState /\ t.resources = s.resources \ {f} /\ t.folded = s.folded \cup {f}
        /\ t.entries = s.entries /\ t.lent = s.lent
        /\ t.consumed = s.consumed /\ t.carriers = s.carriers
        /\ t.changed = s.changed /\ t.borrowed = s.borrowed
        /\ Counted(t)
    <2>1. s.resources \ {f} \in SUBSET FactType /\ s.folded \cup {f} \in SUBSET FactType
      BY <1>1 DEF CState
    <2> QED BY <1>1, <2>1, MovedFields DEF Folded
  <1> HIDE DEF t
  <1>4. \A m \in Mutex : Shape(t.entries[m]) /\ Custody(t, m)
    BY <1>2, <1>3, CustodySame
  <1>5. Folding(t) BY <1>1, <1>2, <1>3 DEF Folding
  <1>6. Payload(t)
    <2>1. t.resources \cap InstanceFacts = s.resources \cap InstanceFacts
      BY <1>2, <1>3, InstanceFields
    <2>2. \A n \in Mutex : Escrow(t, n) = Escrow(s, n) BY <1>3 DEF Escrow
    <2> QED BY <1>1, <1>3, <2>1, <2>2, PayloadSame
  <1> QED BY <1>3, <1>4, <1>5, <1>6 DEF Sound, t

LEMMA UnfoldSound ==
    ASSUME NEW s, Sound(s), NEW f \in s.folded
    PROVE  LET t == Unfolded(s, f) IN
           Sound(t) /\ t.entries = s.entries /\ t.changed = s.changed /\ t.carriers = s.carriers
  <1> DEFINE t == Unfolded(s, f)
  <1>1. s \in CState /\ Folding(s) /\ Payload(s) /\ Counted(s) BY DEF Sound
  <1>2. f.k \in {"live", "guard"} BY <1>1 DEF Folding
  <1>3. /\ t \in CState /\ t.resources = s.resources \cup {f} /\ t.folded = s.folded \ {f}
        /\ t.entries = s.entries /\ t.lent = s.lent
        /\ t.consumed = s.consumed /\ t.carriers = s.carriers
        /\ t.changed = s.changed /\ t.borrowed = s.borrowed
        /\ Counted(t)
    <2>1. s.resources \cup {f} \in SUBSET FactType /\ s.folded \ {f} \in SUBSET FactType
      BY <1>1 DEF CState
    <2> QED BY <1>1, <2>1, MovedFields DEF Unfolded
  <1> HIDE DEF t
  <1>4. \A m \in Mutex : Shape(t.entries[m]) /\ Custody(t, m)
    BY <1>2, <1>3, CustodySame
  <1>5. Folding(t) BY <1>1, <1>2, <1>3 DEF Folding
  <1>6. Payload(t)
    <2>1. t.resources \cap InstanceFacts = s.resources \cap InstanceFacts
      BY <1>2, <1>3, InstanceFields
    <2>2. \A n \in Mutex : Escrow(t, n) = Escrow(s, n) BY <1>3 DEF Escrow
    <2> QED BY <1>1, <1>3, <2>1, <2>2, PayloadSame
  <1> QED BY <1>3, <1>4, <1>5, <1>6 DEF Sound, t

Rewritten(s, f, c) ==
    [s EXCEPT !.resources = (s.resources \ {f}) \cup {Fact("instance", f.on, c)}]

LEMMA RewriteSound ==
    ASSUME NEW s, Sound(s), NEW f \in s.resources \cap InstanceFacts, NEW c \in Content
    PROVE  LET t == Rewritten(s, f, c) IN
           Sound(t) /\ t.entries = s.entries /\ t.changed = s.changed /\ t.carriers = s.carriers
  <1> DEFINE t == Rewritten(s, f, c)
             g == Fact("instance", f.on, c)
  <1>1. s \in CState /\ Folding(s) /\ Payload(s) /\ Counted(s) BY DEF Sound
  <1>2. f.k = "instance" /\ f.on \in Instance BY InstanceFields
  <1>3. g \in InstanceFacts /\ g.k = "instance" /\ g.on = f.on BY <1>2, InstanceFields
  <1>4. (s.resources \ {f}) \cup {g} \in SUBSET FactType
    BY <1>1, <1>3, FactTypes DEF CState
  <1> HIDE DEF g
  <1>5. /\ t \in CState /\ t.resources = (s.resources \ {f}) \cup {g} /\ t.folded = s.folded
        /\ t.entries = s.entries /\ t.lent = s.lent
        /\ t.consumed = s.consumed /\ t.carriers = s.carriers
        /\ t.changed = s.changed /\ t.borrowed = s.borrowed
        /\ Counted(t)
    BY <1>1, <1>4, ResourcesFields DEF Rewritten, g
  <1> HIDE DEF t
  <1>6. \A m \in Mutex : Shape(t.entries[m]) /\ Custody(t, m)
    BY <1>2, <1>3, <1>5, CustodySame
  <1>7. Folding(t) BY <1>1, <1>3, <1>5 DEF Folding
  <1>8. Payload(t)
    <2>1. \A i \in Instance : i # f.on => OwnedOf(t, i) = OwnedOf(s, i)
      BY <1>3, <1>5 DEF OwnedOf
    <2>2. \A n \in Mutex : Escrow(t, n) = Escrow(s, n) BY <1>5 DEF Escrow
    <2>3. \A i : EscrowOf(t, i) = EscrowOf(s, i) BY <2>2 DEF EscrowOf
    <2>4. f \in OwnedOf(s, f.on) BY DEF OwnedOf
    <2>5. OwnedOf(s, f.on) = {f} /\ EscrowOf(s, f.on) = {}
      BY <1>1, <1>2, <2>4 DEF Payload
    <2>6. OwnedOf(t, f.on) = {g} BY <1>3, <1>5, <2>5 DEF OwnedOf
    <2> QED BY <1>1, <1>3, <1>5, <2>1, <2>2, <2>3, <2>5, <2>6 DEF Payload
  <1> QED BY <1>5, <1>6, <1>7, <1>8 DEF Sound, t

\* s with another set of borrowed instances, none of them in escrow.
Borrowing(s, b) == [s EXCEPT !.borrowed = b, !.loanSteps = TRUE]

LEMMA BorrowSound ==
    ASSUME NEW s, Sound(s), NEW b \in SUBSET Instance,
           \A i \in b \ s.borrowed : EscrowOf(s, i) = {}
    PROVE  LET t == Borrowing(s, b) IN
           Sound(t) /\ t.entries = s.entries /\ t.changed = s.changed /\ t.carriers = s.carriers
  <1> DEFINE t == Borrowing(s, b)
  <1>1. s \in CState /\ Folding(s) /\ Payload(s) /\ Counted(s) BY DEF Sound
  <1>2. /\ t \in CState /\ t.resources = s.resources /\ t.folded = s.folded
        /\ t.entries = s.entries /\ t.lent = s.lent
        /\ t.consumed = s.consumed /\ t.carriers = s.carriers
        /\ t.changed = s.changed /\ t.borrowed = b
        /\ t.locked = s.locked /\ t.obligations = s.obligations
    BY <1>1 DEF CState, Borrowing
  <1> HIDE DEF t
  <1>3. Counted(t) BY <1>1, <1>2, CountedSame
  <1>4. \A m \in Mutex : Shape(t.entries[m]) /\ Custody(t, m)
    BY <1>2, CustodySame
  <1>5. Folding(t) BY <1>1, <1>2 DEF Folding
  <1>6. Payload(t)
    <2>1. \A i : OwnedOf(t, i) = OwnedOf(s, i) BY <1>2 DEF OwnedOf
    <2>2. \A n \in Mutex : Escrow(t, n) = Escrow(s, n) BY <1>2 DEF Escrow
    <2>3. \A i : EscrowOf(t, i) = EscrowOf(s, i) BY <2>2 DEF EscrowOf
    <2>4. ASSUME NEW m \in Mutex, NEW f \in Escrow(s, m) PROVE f.on \notin b
      <3>1. m \in EscrowOf(s, f.on) BY DEF EscrowOf
      <3>2. f.on \notin s.borrowed BY <1>1 DEF Payload
      <3> QED BY <3>1, <3>2
    <2> QED BY <1>1, <1>2, <2>1, <2>2, <2>3, <2>4 DEF Payload
  <1> QED BY <1>2, <1>3, <1>4, <1>5, <1>6 DEF Sound, t

----------------------------------------------------------------------------
(* The head of a loop                                                      *)

LEMMA AtHeadSound ==
    ASSUME NEW s, Sound(s)
    PROVE  LET t == AtHead(s) IN
           /\ Sound(t) /\ t.entries = s.entries /\ t.carriers = s.carriers
           /\ t.changed = {}
  <1> DEFINE t == AtHead(s)
  <1>1. s \in CState /\ Folding(s) /\ Payload(s) /\ Counted(s) BY DEF Sound
  <1>2. /\ t \in CState /\ t.resources = s.resources /\ t.folded = s.folded
        /\ t.entries = s.entries /\ t.lent = s.lent
        /\ t.consumed = s.consumed /\ t.carriers = s.carriers
        /\ t.changed = {} /\ t.borrowed = s.borrowed
        /\ t.locked = s.locked /\ t.obligations = s.obligations
    BY <1>1 DEF CState, AtHead
  <1> HIDE DEF t
  <1>3. Counted(t) BY <1>1, <1>2, CountedSame
  <1>4. \A m \in Mutex : Shape(t.entries[m]) /\ Custody(t, m)
    BY <1>2, CustodySame
  <1>5. Folding(t) BY <1>1, <1>2 DEF Folding
  <1>6. Payload(t)
    <2>1. \A n \in Mutex : Escrow(t, n) = Escrow(s, n) BY <1>2 DEF Escrow
    <2> QED BY <1>1, <1>2, <2>1, PayloadSame
  <1> QED BY <1>2, <1>3, <1>4, <1>5, <1>6 DEF Sound, t

LEMMA LoopHeadSound ==
    ASSUME NEW s, Sound(s), NEW m \in Mutex, nextEpoch \in Nat,
           NEW entry \in BOOLEAN, MayAbstract(s, m, entry), NEW held \in BOOLEAN
    PROVE  LET t == LoopHead(s, m, held) IN
           /\ Sound(t) /\ t.carriers = s.carriers \cup {m}
           /\ t.entries[m].held <=> held
           /\ \A n \in Mutex : n # m => Shows(t.entries[n]) = Shows(s.entries[n])
           /\ held => Shows(t.entries[m]) = "held"
           /\ ~held => Shows(t.entries[m]) = "free"
  <1> DEFINE e == s.entries[m]
             new == ConditionalLoop(e.init, nextEpoch, held)
             i == Inserted(s, m, new)
             r == (i.resources \ {Guard(m, e.epoch)}) \cup {Carrier(m)}
             k == i.carriers \cup {m}
             t == [i EXCEPT !.resources = r, !.carriers = k]
  <1>0. LoopHead(s, m, held) = t BY DEF LoopHead
  <1>a. /\ e # None /\ e.inv = {} /\ ~e.hold /\ e.status \in {"unlocked", "locked"}
        /\ e.status = "locked" => Guard(m, e.epoch) \in s.resources
        /\ Live(m, e.init) \in s.resources
    BY DEF MayAbstract, EmptyConcrete, IsLocked
  <1>1. s \in CState /\ Custody(s, m) /\ Shape(e) /\ Folding(s) /\ Payload(s) /\ Counted(s)
    BY DEF Sound
  <1>2. e \in Entry /\ e.init \in Nat
    BY <1>a, <1>1 DEF CState, Entry
  <1>3. new \in Entry /\ new # None /\ new.status = "loop" /\ new.init = e.init /\ new.inv = {}
        /\ ~new.hold /\ (new.held <=> held)
    BY <1>2, EntryTypes
  <1> HIDE DEF new
  <1>4. /\ i \in CState /\ i.resources = s.resources /\ i.folded = s.folded
        /\ i.entries = [s.entries EXCEPT ![m] = new] /\ i.entries[m] = new
        /\ i.consumed = s.consumed /\ i.carriers = s.carriers
        /\ i.lent = s.lent /\ i.borrowed = s.borrowed
        /\ Counted(i)
    BY <1>1, <1>3, InsertedFields, InsertedCounted
  <1> HIDE DEF i
  <1>5. r \in SUBSET FactType /\ k \in SUBSET Mutex
    <2>1. Carrier(m) \in FactType BY FactTypes, 0 \in Nat
    <2> QED BY <1>4, <2>1 DEF CState
  <1> HIDE DEF r, k
  <1>6. /\ t \in CState /\ t.resources = r /\ t.carriers = k
        /\ t.folded = s.folded /\ t.entries = [s.entries EXCEPT ![m] = new]
        /\ t.entries[m] = new
        /\ t.consumed = s.consumed /\ t.lent = s.lent /\ t.borrowed = s.borrowed
        /\ t.locked = i.locked /\ t.obligations = i.obligations
        /\ t.entries = i.entries
    BY <1>4, <1>5 DEF CState
  <1> HIDE DEF t
  <1>7. Counted(t) BY <1>4, <1>6, CountedSame
  <1>8. \A n \in Mutex \ {m} : t.entries[n] = s.entries[n]
    BY <1>1, <1>6 DEF CState
  <1>9. /\ \A f \in t.resources : (f \in s.resources /\ f # Guard(m, e.epoch)) \/ f = Carrier(m)
        /\ Carrier(m) \in t.resources
        /\ \A f \in s.resources : f # Guard(m, e.epoch) => f \in t.resources
    BY <1>4, <1>6 DEF r
  <1>10. t.carriers = s.carriers \cup {m} BY <1>4, <1>6 DEF k
  <1>11. Frame(s, t, m)
    BY <1>6, <1>8, <1>9, <1>10, FactFields DEF Frame
  <1>12. Custody(t, m)
    <2>1. s.lent[m] = None BY <1>a, <1>1, FactFields DEF Custody
    <2>2. \A f \in t.resources \cup t.folded : f.k = "guard" /\ f.on = m => FALSE
      <3>1. CASE e.status = "locked"
        <4>1. Guard(m, e.epoch) \notin s.folded BY <1>a, <1>1, <3>1 DEF Folding
        <4> QED BY <1>1, <1>6, <1>9, <4>1, FactFields DEF Custody
      <3>2. CASE e.status # "locked"
        BY <1>1, <1>6, <1>9, <3>2, FactFields DEF Custody
      <3> QED BY <3>1, <3>2
    <2>3. \A f \in t.resources \cup t.folded : f.k = "live" /\ f.on = m => f = Live(m, e.init)
      BY <1>1, <1>6, <1>9, FactFields DEF Custody
    <2>4. Live(m, e.init) \in t.resources BY <1>a, <1>9, FactFields
    <2>5. \A f \in t.resources \cup t.folded : f.k = "use" /\ f.on = m => FALSE
      BY <1>1, <1>6, <1>9, <2>1, FactFields DEF Custody
    <2>6. m \in t.consumed => m \notin Automatic /\ Storage(m) \notin t.resources
      BY <1>1, <1>6, <1>9, FactFields DEF Custody
    <2> QED BY <1>3, <1>6, <1>9, <1>10, <2>1, <2>2, <2>3, <2>4, <2>5, <2>6 DEF Custody
  <1>13. Shape(t.entries[m]) BY <1>3, <1>6 DEF Shape
  <1>14. Folding(t) BY <1>1, <1>6, <1>9, FactFields DEF Folding
  <1>15. Payload(t)
    <2>1. t.resources \cap InstanceFacts = s.resources \cap InstanceFacts
      BY <1>9, FactFields, InstanceFields
    <2>2. \A n \in Mutex : Escrow(t, n) = Escrow(s, n)
      BY <1>a, <1>3, <1>6, <1>8 DEF Escrow
    <2> QED BY <1>1, <1>6, <2>1, <2>2, PayloadSame
  <1>16. Sound(t) BY <1>6, <1>7, <1>11, <1>12, <1>13, <1>14, <1>15, SoundStep
  <1>17. /\ \A n \in Mutex : n # m => Shows(t.entries[n]) = Shows(s.entries[n])
         /\ held => Shows(t.entries[m]) = "held"
         /\ ~held => Shows(t.entries[m]) = "free"
    BY <1>3, <1>6, <1>8 DEF Shows
  <1> QED BY <1>0, <1>3, <1>6, <1>10, <1>16, <1>17

----------------------------------------------------------------------------
(* The back edge of a loop.  At most one clause is checked there, so its    *)
(* folds go over no mutex or one.                                           *)

LEMMA GuardsClosed ==
    ASSUME NEW b, NEW m
    PROVE  ClosedLoopGuards(b, {}) = b /\ ClosedLoopGuards(b, {m}) = ClosedLoopGuard(b, m)
  <1> DEFINE step(g, s) == IF s = {} THEN b
                           ELSE LET x == CHOOSE x \in s : TRUE IN ClosedLoopGuard(g[s \ {x}], x)
             none == CHOOSE g : g = [s \in SUBSET {} |-> step(g, s)]
             one == CHOOSE g : g = [s \in SUBSET {m} |-> step(g, s)]
  <1>1. ClosedLoopGuards(b, {}) = none[{}] /\ ClosedLoopGuards(b, {m}) = one[{m}]
    BY DEF FoldSet, MapThenFoldSet, ClosedLoopGuards
  <1>2. none[{}] = b
    <2> DEFINE w == [s \in SUBSET {} |-> b]
    <2>1. w = [s \in SUBSET {} |-> step(w, s)] OBVIOUS
    <2>2. none = [s \in SUBSET {} |-> step(none, s)] BY <2>1
    <2> QED BY <2>2
  <1>3. one[{m}] = ClosedLoopGuard(b, m)
    <2> DEFINE w == [s \in SUBSET {m} |-> IF s = {} THEN b ELSE ClosedLoopGuard(b, m)]
    <2>1. ASSUME NEW s \in SUBSET {m}, s # {} PROVE step(w, s) = ClosedLoopGuard(b, m)
      <3>1. s = {m} BY <2>1
      <3>2. (CHOOSE x \in s : TRUE) = m BY <3>1
      <3>3. s \ {m} = {} BY <3>1
      <3>4. w[{}] = b OBVIOUS
      <3> HIDE DEF w
      <3> QED BY <2>1, <3>2, <3>3, <3>4
    <2>2. \A s \in SUBSET {m} : step(w, s) = IF s = {} THEN b ELSE ClosedLoopGuard(b, m)
      <3> HIDE DEF w
      <3> QED BY <2>1
    <2>3. w = [s \in SUBSET {m} |-> step(w, s)]
      <3> HIDE DEF step
      <3> QED BY <2>2
    <2>4. one = [s \in SUBSET {m} |-> step(one, s)]
      <3> HIDE DEF w, step
      <3> QED BY <2>3
    <2>5. one[{m}] = step(one, {m}) /\ one[{}] = step(one, {})
      <3> HIDE DEF step, one
      <3> QED BY <2>4
    <2>6. one[{}] = b BY <2>5
    <2>7. (CHOOSE x \in {m} : TRUE) = m /\ {m} \ {m} = {} OBVIOUS
    <2> HIDE DEF one
    <2> QED BY <2>5, <2>6, <2>7
  <1> HIDE DEF none, one
  <1> QED BY <1>1, <1>2, <1>3

LEMMA ListRestored ==
    ASSUME NEW b, NEW head, NEW m
    PROVE  Relisted(head, b, {}) = b /\ Relisted(head, b, {m}) = Inserted(b, m, head.entries[m])
  <1> DEFINE step(g, s) == IF s = {} THEN b
                           ELSE LET x == CHOOSE x \in s : TRUE IN Inserted(g[s \ {x}], x, head.entries[x])
             none == CHOOSE g : g = [s \in SUBSET {} |-> step(g, s)]
             one == CHOOSE g : g = [s \in SUBSET {m} |-> step(g, s)]
  <1>1. Relisted(head, b, {}) = none[{}] /\ Relisted(head, b, {m}) = one[{m}]
    BY DEF FoldSet, MapThenFoldSet, Relisted
  <1>2. none[{}] = b
    <2> DEFINE w == [s \in SUBSET {} |-> b]
    <2>1. w = [s \in SUBSET {} |-> step(w, s)] OBVIOUS
    <2>2. none = [s \in SUBSET {} |-> step(none, s)] BY <2>1
    <2> QED BY <2>2
  <1>3. one[{m}] = Inserted(b, m, head.entries[m])
    <2> DEFINE w == [s \in SUBSET {m} |-> IF s = {} THEN b ELSE Inserted(b, m, head.entries[m])]
    <2>1. ASSUME NEW s \in SUBSET {m}, s # {} PROVE step(w, s) = Inserted(b, m, head.entries[m])
      <3>1. s = {m} BY <2>1
      <3>2. (CHOOSE x \in s : TRUE) = m BY <3>1
      <3>3. s \ {m} = {} BY <3>1
      <3>4. w[{}] = b OBVIOUS
      <3> HIDE DEF w
      <3> QED BY <2>1, <3>2, <3>3, <3>4
    <2>2. \A s \in SUBSET {m} : step(w, s) = IF s = {} THEN b ELSE Inserted(b, m, head.entries[m])
      <3> HIDE DEF w
      <3> QED BY <2>1
    <2>3. w = [s \in SUBSET {m} |-> step(w, s)]
      <3> HIDE DEF step
      <3> QED BY <2>2
    <2>4. one = [s \in SUBSET {m} |-> step(one, s)]
      <3> HIDE DEF w, step
      <3> QED BY <2>3
    <2>5. one[{m}] = step(one, {m}) /\ one[{}] = step(one, {})
      <3> HIDE DEF step, one
      <3> QED BY <2>4
    <2>6. one[{}] = b BY <2>5
    <2>7. (CHOOSE x \in {m} : TRUE) = m /\ {m} \ {m} = {} OBVIOUS
    <2> HIDE DEF one
    <2> QED BY <2>5, <2>6, <2>7
  <1> HIDE DEF none, one
  <1> QED BY <1>1, <1>2, <1>3

LEMMA ClosedFields ==
    ASSUME NEW s \in CState, NEW m \in Mutex, s.entries[m] # None
    PROVE  LET t == ClosedLoopGuard(s, m) IN
           /\ t \in CState /\ t.entries = s.entries
           /\ \A n \in s.changed : n \in t.changed
  <1> DEFINE o == OpenedLoopGuard(s, m)
             guard == IF flag THEN {Guard(m, o.entries[m].epoch)} ELSE {}
             r == (o.resources \ guard) \cup {Carrier(m)}
  <1>1. o \in CState /\ o.entries = s.entries /\ \A n \in s.changed : n \in o.changed
    <2>1. CASE Carried(s, m) BY <2>1, OpenedFields
    <2>2. CASE ~Carried(s, m) BY <2>2 DEF OpenedLoopGuard
    <2> QED BY <2>1, <2>2
  <1>2. ClosedLoopGuard(s, m) = [o EXCEPT !.resources = r]
    BY DEF ClosedLoopGuard
  <1> HIDE DEF o, guard
  <1>3. r \in SUBSET FactType
    <2>1. Carrier(m) \in FactType BY FactTypes, 0 \in Nat
    <2> QED BY <1>1, <2>1 DEF CState
  <1> HIDE DEF r
  <1>4. LET t == [o EXCEPT !.resources = r] IN
           t \in CState /\ t.entries = o.entries /\ t.changed = o.changed
    BY <1>1, <1>3, ResourcesFields
  <1> QED BY <1>1, <1>2, <1>4

\* What an accepted back edge compared, for every mutex: an unchanged entry,
\* one with the protocol state of the head, or one of the checked clause.
LEMMA BackEdgeChecks ==
    ASSUME MutexInv, BackEdge, NEW n \in Mutex
    PROVE  \/ st.entries[n] = top.state.entries[n] /\ n \notin Checked
           \/ SameProtocol(top.state.entries[n], st.entries[n]) /\ n \notin Checked
           \/ /\ n \in Checked /\ EmptyConcrete(st.entries[n]) /\ st.entries[n] # None
              /\ HeldCondition(st.entries[n]) = {flag}
  <1> DEFINE head == top.state
             next == ClosedLoopGuards(st, Checked)
             all == Relisted(head, next, Checked)
  <1>1. /\ top # None /\ Sound(head) /\ Sound(st)
        /\ \A m \in Mutex : m \notin st.changed => st.entries[m] = head.entries[m]
        /\ \A p, q \in head.carriers : p = q
    BY DEF BackEdge, MutexInv, Headed
  <1>2. /\ \A m \in Checked : HeldCondition(st.entries[m]) = {flag}
        /\ \A m \in Checked : next.entries[m] # None /\ EmptyConcrete(next.entries[m])
        /\ CheckProtocolStateSince(head, all)
    BY DEF BackEdge, LoopGuardCustody, CheckLoopProtocolStateSince
  <1>3. head \in CState /\ st \in CState /\ Checked \subseteq head.carriers
    BY <1>1 DEF Sound, Checked
  <1>4. \A p, q \in Checked : p = q BY <1>1, <1>3
  <1>5. CASE Checked = {}
    <2>1. next = st BY <1>5, GuardsClosed
    <2>2. all = st BY <1>5, <2>1, ListRestored
    <2> HIDE DEF next, all, head
    <2>3. CASE Initialized(head) = {} /\ Initialized(st) = {}
      <3>1. head.entries[n] = None /\ st.entries[n] = None BY <2>3 DEF Initialized
      <3> QED BY <1>5, <3>1 DEF head
    <2>4. CASE \A m \in st.changed : SameProtocol(head.entries[m], st.entries[m])
      BY <1>1, <1>5, <2>4 DEF head
    <2> QED BY <1>2, <2>2, <2>3, <2>4 DEF CheckProtocolStateSince
  <1>6. CASE Checked # {}
    <2>1. PICK m : m \in Checked BY <1>6
    <2>2. Checked = {m} BY <1>4, <2>1
    <2>3. m \in Mutex /\ m \in head.carriers BY <1>3, <2>1 DEF CState
    <2>4. next = ClosedLoopGuard(st, m)
      <3>1. next = ClosedLoopGuards(st, {m}) BY <2>2
      <3> HIDE DEF next, head
      <3> QED BY <3>1, GuardsClosed
    <2>5. all = Inserted(next, m, head.entries[m])
      <3>1. all = Relisted(head, next, {m}) BY <2>2
      <3> HIDE DEF all, next, head
      <3> QED BY <3>1, ListRestored
    <2> HIDE DEF next, all, head
    <2>6. head.entries[m] \in Entry /\ head.entries[m] # None
      BY <1>1, <1>3, <2>3 DEF CState, Sound, Custody
    <2>7. next.entries[m] # None BY <1>2, <2>1
    <2>8. next \in CState /\ next.entries = st.entries
          /\ \A k \in st.changed : k \in next.changed
      <3>1. st.entries[m] # None
        <4>1. HeldCondition(st.entries[m]) = {flag} BY <1>2, <2>1
        <4>2. CASE Carried(st, m)
          BY <1>1, <2>3, <4>2 DEF Sound, Custody, Carried
        <4>3. CASE ~Carried(st, m)
          <5>1. next.entries = st.entries
            <6>1. next = [st EXCEPT !.resources =
                            (st.resources \ (IF flag THEN {Guard(m, st.entries[m].epoch)} ELSE {}))
                              \cup {Carrier(m)}]
              BY <2>4, <4>3 DEF ClosedLoopGuard, OpenedLoopGuard
            <6> QED BY <1>3, <6>1 DEF CState
          <5> QED BY <2>7, <5>1
        <4> QED BY <4>2, <4>3
      <3> QED BY <1>3, <2>3, <2>4, <3>1, ClosedFields
    <2>9. /\ all.entries = [st.entries EXCEPT ![m] = head.entries[m]]
          /\ all.changed = next.changed \cup {m}
      BY <2>3, <2>5, <2>6, <2>8, InsertedFields
    <2>10. CASE n = m BY <1>2, <2>1, <2>8, <2>10
    <2>11. CASE n # m
      <3>1. Initialized(head) # {} BY <2>3, <2>6 DEF Initialized
      <3>2. \A k \in all.changed : SameProtocol(head.entries[k], all.entries[k])
        BY <1>2, <3>1 DEF CheckProtocolStateSince
      <3>3. all.entries[n] = st.entries[n] BY <1>3, <2>9, <2>11 DEF CState
      <3>4. n \in all.changed \/ st.entries[n] = head.entries[n]
        BY <1>1, <2>8, <2>9 DEF head
      <3> QED BY <2>2, <2>11, <3>2, <3>3, <3>4 DEF head
    <2> QED BY <2>10, <2>11
  <1> QED BY <1>5, <1>6

\* So every mutex is as the head describes it.
LEMMA BackEdgeCovered ==
    ASSUME MutexInv, BackEdge, NEW m \in Mutex
    PROVE  /\ real[m] = IF m \in top.state.carriers
                        THEN IF flag THEN "held" ELSE "free"
                        ELSE top.real[m]
           /\ Escrow(st, m) = Escrow(top.state, m)
  <1> DEFINE head == top.state
             e == st.entries[m]
             h == head.entries[m]
  <1>1. /\ top # None /\ Sound(head) /\ Sound(st)
        /\ real[m] = Shows(e) /\ top.real[m] = Shows(h)
        /\ sameAsHead => \A n \in head.carriers : head.entries[n].held = flag
        /\ flag \in BOOLEAN
    BY DEF BackEdge, MutexInv, Headed, Mirrors
  <1>2. Shape(e) /\ Shape(h) /\ (m \in head.carriers <=> h # None /\ h.status = "loop")
    BY <1>1 DEF Sound, Custody
  <1>3. m \in head.carriers /\ m \notin Checked => sameAsHead /\ e = h
    BY DEF Checked, Unchecked, Untouched
  <1>4. m \in Checked => m \in head.carriers BY DEF Checked
  <1>5. m \in head.carriers /\ m \notin Checked => h.held = flag
    BY <1>1, <1>3
  <1>6. \/ e = h /\ m \notin Checked
        \/ SameProtocol(h, e) /\ m \notin Checked
        \/ /\ m \in Checked /\ EmptyConcrete(e) /\ e # None
           /\ HeldCondition(e) = {flag}
    BY BackEdgeChecks
  <1> HIDE DEF e, h
  <1>7. CASE e = h /\ m \notin Checked
    BY <1>1, <1>2, <1>5, <1>7 DEF Escrow, Shows, e, h
  <1>8. CASE SameProtocol(h, e) /\ m \notin Checked
    BY <1>1, <1>2, <1>3, <1>5, <1>8 DEF SameProtocol, Escrow, Shows, e, h
  <1>9. CASE /\ m \in Checked /\ EmptyConcrete(e) /\ e # None
             /\ HeldCondition(e) = {flag}
    <2>1. e.status \in {"unlocked", "locked"} /\ e.inv = {} BY <1>9 DEF EmptyConcrete
    <2>2. (e.status = "locked") <=> flag
      <3>1. HeldCondition(e) = {IsLocked(e)} BY <2>1 DEF HeldCondition
      <3>2. IsLocked(e) = flag BY <1>9, <3>1
      <3>3. IsLocked(e) <=> e.status = "locked" BY <1>9, <2>1 DEF IsLocked
      <3> QED BY <3>2, <3>3
    <2>3. Escrow(st, m) = {} BY <2>1 DEF Escrow, e
    <2>4. Escrow(head, m) = {} BY <1>2, <1>4, <1>9 DEF Escrow, h
    <2>5. flag => real[m] = "held" BY <1>1, <1>2, <1>9, <2>2 DEF Shape, Shows
    <2>6. ~flag => real[m] = "free" BY <1>1, <1>2, <1>9, <2>1, <2>2 DEF Shape, Shows
    <2> QED BY <1>4, <1>9, <2>3, <2>4, <2>5, <2>6
  <1> QED BY <1>6, <1>7, <1>8, <1>9

\* A path without obligations holds no mutex and has nothing in escrow.
LEMMA ReturnCovered ==
    ASSUME NEW s, Sound(s), s.obligations = 0, NEW m \in Mutex
    PROVE  Shows(s.entries[m]) # "held" /\ Escrow(s, m) = {}
  <1>1. s.obligations = Cardinality({n \in Mutex : HasReturnObligation(s.entries[n])})
    BY DEF Sound, Counted
  <1>2. IsFiniteSet({n \in Mutex : HasReturnObligation(s.entries[n])})
    BY FS_Subset, MutexAssumption
  <1>3. {n \in Mutex : HasReturnObligation(s.entries[n])} = {}
    BY <1>1, <1>2, FS_EmptySet
  <1>4. ~HasReturnObligation(s.entries[m]) /\ Shape(s.entries[m]) BY <1>3 DEF Sound
  <1> QED BY <1>4 DEF HasReturnObligation, Shape, Shows, Escrow

----------------------------------------------------------------------------
(* The invariant                                                           *)

LEMMA MirrorsOne ==
    ASSUME NEW s, NEW r, Mirrors(s, r), NEW m \in Mutex, NEW t, NEW how,
           \A n \in Mutex : n # m => Shows(t.entries[n]) = Shows(s.entries[n]),
           Shows(t.entries[m]) = how
    PROVE  Mirrors(t, [r EXCEPT ![m] = how])
  BY DEF Mirrors

LEMMA MirrorsSame ==
    ASSUME NEW s, NEW r, Mirrors(s, r), NEW t, t.entries = s.entries
    PROVE  Mirrors(t, r)
  BY DEF Mirrors

\* A step of the running path: nothing of the loop changes but the path.
LEMMA RunningStep ==
    ASSUME MutexInv, Running, UNCHANGED loopVars, spoiled' = {},
           nextInit' \in Nat, nextEpoch' \in Nat,
           Sound(st'), Chained(st, st'), Mirrors(st', real'),
           \A m \in st'.carriers : m \in st.carriers
    PROVE  MutexInv'
  <1>1. /\ phase \in {"line", "body", "after"} /\ phase' = phase
        /\ top' = top /\ flag' = flag /\ sameAsHead' = sameAsHead
        /\ headKnown' = headKnown
    BY DEF Running, loopVars
  <1>2. Headed /\ flag \in BOOLEAN /\ sameAsHead \in BOOLEAN /\ headKnown \in BOOLEAN
    BY DEF MutexInv
  <1>3. \A m \in Mutex \ st'.changed : m \notin st.changed /\ st'.entries[m] = st.entries[m]
    BY DEF Chained
  <1>4. (phase = "line" => top = None /\ st.carriers = {})'
    BY <1>1, <1>2 DEF Headed
  <1>5. (top # None =>
          /\ Sound(top.state) /\ Mirrors(top.state, top.real)
          /\ \A m, n \in top.state.carriers : m = n)'
    BY <1>1, <1>2 DEF Headed
  <1>6. (phase \in {"body", "closed"} =>
          /\ top # None
          /\ \A m \in Mutex \ st.changed : st.entries[m] = top.state.entries[m]
          /\ sameAsHead => \A m \in top.state.carriers : top.state.entries[m].held = flag)'
    BY <1>1, <1>2, <1>3 DEF Headed
  <1>7. Headed' BY <1>4, <1>5, <1>6 DEF Headed
  <1>8. ExitsCovered' BY <1>1 DEF ExitsCovered
  <1> QED BY <1>1, <1>2, <1>7, <1>8 DEF MutexInv

LEMMA ChainedSame ==
    ASSUME NEW s, NEW t, t.entries = s.entries, t.changed = s.changed
    PROVE  Chained(s, t)
  BY DEF Chained

LEMMA ChainedTrans ==
    ASSUME NEW s, NEW t, NEW u, Chained(s, t), Chained(t, u)
    PROVE  Chained(s, u)
  BY DEF Chained

\* A step that leaves entries and run alone.
LEMMA LedgerSameStep ==
    ASSUME MutexInv, Running, UNCHANGED <<loopVars, real, nextInit, nextEpoch>>, spoiled' = {},
           Sound(st'), st'.entries = st.entries, st'.changed = st.changed,
           st'.carriers = st.carriers
    PROVE  MutexInv'
  <1>1. Sound(st) /\ Mirrors(st, real) /\ nextInit \in Nat /\ nextEpoch \in Nat
    BY DEF MutexInv
  <1>2. Chained(st, st') BY ChainedSame
  <1>3. Mirrors(st', real') BY <1>1, MirrorsSame
  <1> QED BY <1>1, <1>2, <1>3, RunningStep

\* Resolving creates no clause.
LEMMA ResolvedCarriers ==
    ASSUME NEW s, Sound(s), NEW m \in Mutex, NEW n \in Resolved(s, m).carriers
    PROVE  n \in s.carriers
  <1> DEFINE t == Resolved(s, m)
  <1>1. /\ Sound(t)
        /\ \A k \in Mutex \ {m} : t.entries[k] = s.entries[k]
        /\ t.entries[m] # None => t.entries[m].status # "loop"
    BY ResolvedSound
  <1> HIDE DEF t
  <1>2. n \in Mutex /\ n \in t.carriers BY <1>1 DEF Sound, CState, t
  <1>3. t.entries[n] # None /\ t.entries[n].status = "loop"
    BY <1>1, <1>2 DEF Sound, Custody
  <1>4. s.entries[n] # None /\ s.entries[n].status = "loop" BY <1>1, <1>2, <1>3
  <1> QED BY <1>2, <1>4 DEF Sound, Custody

LEMMA InitializeStep ==
    ASSUME MutexInv, NEW m \in Mutex, NEW inv \in Declared(m), Initialize(m, inv)
    PROVE  MutexInv'
  <1> DEFINE t == WithStorageConsumed(
                        Inserted([st EXCEPT !.resources =
                                    (st.resources \ inv) \cup {Live(m, nextInit)}],
                                 m, Unlocked(nextInit, inv)), m)
  <1>1. Sound(st) /\ Mirrors(st, real) /\ nextInit \in Nat /\ nextEpoch \in Nat /\ spoiled = {}
    BY DEF MutexInv
  <1>2. /\ Running /\ MayInitialize(st, m) /\ inv \subseteq st.resources
        /\ inv # {} => NoActiveMemoryLoans(st)
        /\ st' = t /\ nextInit' = nextInit + 1 /\ real' = [real EXCEPT ![m] = "free"]
        /\ UNCHANGED <<loopVars, spoiled, nextEpoch>>
    BY DEF Initialize, Shown
  <1>3. /\ Sound(t) /\ Chained(st, t)
        /\ \A n \in Mutex : Shows(t.entries[n]) = IF n = m THEN "free" ELSE Shows(st.entries[n])
        /\ t.carriers = st.carriers
    BY <1>1, <1>2, InitializeSound
  <1> HIDE DEF t
  <1>4. Mirrors(t, [real EXCEPT ![m] = "free"]) BY <1>1, <1>3, MirrorsOne
  <1> QED BY <1>1, <1>2, <1>3, <1>4, RunningStep

LEMMA AcquireStep ==
    ASSUME MutexInv, NEW m \in Mutex, Acquire(m)
    PROVE  MutexInv'
  <1> DEFINE s == Resolved(st, m)
             t == Acquired(s, m, nextEpoch)
  <1>1. Sound(st) /\ Mirrors(st, real) /\ nextInit \in Nat /\ nextEpoch \in Nat /\ spoiled = {}
    BY DEF MutexInv
  <1>2. /\ Running /\ MayAcquire(s, m)
        /\ nextEpoch' = nextEpoch + 1 /\ real' = [real EXCEPT ![m] = "held"]
        /\ UNCHANGED <<loopVars, spoiled, nextInit>>
    BY DEF Acquire, Shown, MayAcquire
  <1>3. st' = t
    <2>1. s.entries[m] # None BY <1>2 DEF MayAcquire
    <2> QED BY <2>1 DEF Acquire, Acquired
  <1>4. /\ Sound(s) /\ Chained(st, s)
        /\ \A n \in Mutex : Shows(s.entries[n]) = Shows(st.entries[n])
        /\ \A n \in s.carriers : n \in st.carriers
    BY <1>1, ResolvedSound, ResolvedCarriers
  <1> HIDE DEF s
  <1>5. /\ Sound(t) /\ Chained(s, t)
        /\ \A n \in Mutex : n # m => Shows(t.entries[n]) = Shows(s.entries[n])
        /\ Shows(t.entries[m]) = "held"
        /\ t.carriers = s.carriers
    BY <1>1, <1>2, <1>4, AcquireSound
  <1> HIDE DEF t
  <1>6. Chained(st, t) BY <1>4, <1>5, ChainedTrans
  <1>7. Mirrors(t, [real EXCEPT ![m] = "held"]) BY <1>1, <1>4, <1>5, MirrorsOne
  <1> QED BY <1>1, <1>2, <1>3, <1>4, <1>5, <1>6, <1>7, RunningStep

LEMMA ReleaseStep ==
    ASSUME MutexInv, NEW m \in Mutex, Release(m)
    PROVE  MutexInv'
  <1> DEFINE s == Resolved(st, m)
             t == Released(s, m)
  <1>1. Sound(st) /\ Mirrors(st, real) /\ nextInit \in Nat /\ nextEpoch \in Nat /\ spoiled = {}
    BY DEF MutexInv
  <1>2. /\ Running /\ MayRelease(s, m)
        /\ real' = [real EXCEPT ![m] = "free"]
        /\ UNCHANGED <<loopVars, spoiled, nextInit, nextEpoch>>
    BY DEF Release, Shown, MayRelease
  <1>3. st' = t
    BY DEF Release, Released
  <1>4. /\ Sound(s) /\ Chained(st, s)
        /\ \A n \in Mutex : Shows(s.entries[n]) = Shows(st.entries[n])
        /\ \A n \in s.carriers : n \in st.carriers
    BY <1>1, ResolvedSound, ResolvedCarriers
  <1> HIDE DEF s
  <1>5. /\ Sound(t) /\ Chained(s, t)
        /\ \A n \in Mutex : n # m => Shows(t.entries[n]) = Shows(s.entries[n])
        /\ Shows(t.entries[m]) = "free"
        /\ t.carriers = s.carriers
    BY <1>2, <1>4, ReleaseSound
  <1> HIDE DEF t
  <1>6. Chained(st, t) BY <1>4, <1>5, ChainedTrans
  <1>7. Mirrors(t, [real EXCEPT ![m] = "free"]) BY <1>1, <1>4, <1>5, MirrorsOne
  <1> QED BY <1>1, <1>2, <1>3, <1>4, <1>5, <1>6, <1>7, RunningStep

LEMMA DestroyStep ==
    ASSUME MutexInv, NEW m \in Mutex, Destroy(m)
    PROVE  MutexInv'
  <1> DEFINE s == Resolved(st, m)
             t == Destroyed(s, m)
  <1>1. Sound(st) /\ Mirrors(st, real) /\ nextInit \in Nat /\ nextEpoch \in Nat /\ spoiled = {}
    BY DEF MutexInv
  <1>2. /\ Running /\ Destroyable(s.entries[m]) /\ Live(m, s.entries[m].init) \in s.resources
        /\ real' = [real EXCEPT ![m] = "none"]
        /\ UNCHANGED <<loopVars, spoiled, nextInit, nextEpoch>>
    BY DEF Destroy, Shown
  <1>3. st' = t
    BY DEF Destroy, Destroyed
  <1>4. /\ Sound(s) /\ Chained(st, s)
        /\ \A n \in Mutex : Shows(s.entries[n]) = Shows(st.entries[n])
        /\ \A n \in s.carriers : n \in st.carriers
    BY <1>1, ResolvedSound, ResolvedCarriers
  <1> HIDE DEF s
  <1>5. /\ Sound(t) /\ Chained(s, t)
        /\ \A n \in Mutex : n # m => Shows(t.entries[n]) = Shows(s.entries[n])
        /\ Shows(t.entries[m]) = "none"
        /\ \A n \in t.carriers : n \in s.carriers
    BY <1>2, <1>4, DestroySound
  <1> HIDE DEF t
  <1>6. Chained(st, t) BY <1>4, <1>5, ChainedTrans
  <1>7. Mirrors(t, [real EXCEPT ![m] = "none"]) BY <1>1, <1>4, <1>5, MirrorsOne
  <1> QED BY <1>1, <1>2, <1>3, <1>4, <1>5, <1>6, <1>7, RunningStep

LEMMA WriteStep ==
    ASSUME MutexInv, NEW m \in Mutex, Write(m)
    PROVE  MutexInv'
  <1>1. Sound(st) /\ Mirrors(st, real) /\ nextInit \in Nat /\ nextEpoch \in Nat /\ spoiled = {}
    BY DEF MutexInv
  <1>2. /\ Running /\ UNCHANGED <<st, loopVars, real, nextInit, nextEpoch>>
        /\ ~StorageWriteRefused(st, m)
        /\ m \notin Automatic => Storage(m) \in st.resources
        /\ real[m] = "none" => spoiled' = spoiled
    BY DEF Write
  <1>3. st.entries[m] = None
    BY <1>1, <1>2 DEF StorageWriteRefused, Sound, Custody
  <1>4. real[m] = "none" BY <1>1, <1>3 DEF Mirrors, Shows
  <1> QED BY <1>1, <1>2, <1>4, LedgerSameStep

LEMMA EndStorageStep ==
    ASSUME MutexInv, NEW m \in Mutex, EndStorage(m)
    PROVE  MutexInv'
  <1> DEFINE t == [st EXCEPT !.resources = st.resources \ {Storage(m)}]
  <1>1. Sound(st) /\ Mirrors(st, real) /\ nextInit \in Nat /\ nextEpoch \in Nat /\ spoiled = {}
    BY DEF MutexInv
  <1>2. /\ Running /\ UNCHANGED <<loopVars, real, nextInit, nextEpoch>>
        /\ st.entries[m] = None
        /\ st' = t
        /\ real[m] = "none" => spoiled' = spoiled
    BY DEF EndStorage, AutomaticStorageRefused, StorageRetirementRefused
  <1>3. real[m] = "none" BY <1>1, <1>2 DEF Mirrors, Shows
  <1>4. Sound(t) /\ t.entries = st.entries /\ t.changed = st.changed /\ t.carriers = st.carriers
    BY <1>1, <1>2, EndStorageSound
  <1> HIDE DEF t
  <1> QED BY <1>1, <1>2, <1>3, <1>4, LedgerSameStep

LEMMA LendUseStep ==
    ASSUME MutexInv, NEW m \in Mutex, LendUse(m)
    PROVE  MutexInv'
  <1>1. Sound(st) /\ spoiled = {} BY DEF MutexInv
  <1>2. /\ Running /\ UNCHANGED <<loopVars, real, spoiled, nextInit, nextEpoch>>
        /\ st.entries[m] # None /\ Live(m, st.entries[m].init) \in st.resources
        /\ st' = Lent(st, m)
    BY DEF LendUse, Lent, Relent, runtime
  <1> DEFINE t == Lent(st, m)
  <1>3. Sound(t) /\ t.entries = st.entries /\ t.changed = st.changed /\ t.carriers = st.carriers
    BY <1>1, <1>2, LendSound
  <1>4. st' = t BY <1>2
  <1> HIDE DEF t
  <1> QED BY <1>1, <1>2, <1>3, <1>4, LedgerSameStep

LEMMA RecoverUseStep ==
    ASSUME MutexInv, NEW m \in Mutex, RecoverUse(m)
    PROVE  MutexInv'
  <1>1. Sound(st) /\ spoiled = {} BY DEF MutexInv
  <1>2. /\ Running /\ UNCHANGED <<loopVars, real, spoiled, nextInit, nextEpoch>>
        /\ Recoverable(st.lent[m]) /\ Use(m, st.lent[m].init) \in st.resources
        /\ st' = Recovered(st, m)
    BY DEF RecoverUse, Recovered, Relent, runtime
  <1> DEFINE t == Recovered(st, m)
  <1>3. Sound(t) /\ t.entries = st.entries /\ t.changed = st.changed /\ t.carriers = st.carriers
    BY <1>1, <1>2, RecoverSound
  <1>4. st' = t BY <1>2
  <1> HIDE DEF t
  <1> QED BY <1>1, <1>2, <1>3, <1>4, LedgerSameStep

LEMMA FoldStep ==
    ASSUME MutexInv, NEW f \in st.resources, Fold(f)
    PROVE  MutexInv'
  <1>1. Sound(st) /\ spoiled = {} BY DEF MutexInv
  <1>2. /\ Running /\ UNCHANGED <<loopVars, real, spoiled, nextInit, nextEpoch>>
        /\ f.k \in Foldable /\ st' = Folded(st, f)
    BY DEF Fold, Folded, Moved, runtime
  <1> DEFINE t == Folded(st, f)
  <1>3. Sound(t) /\ t.entries = st.entries /\ t.changed = st.changed /\ t.carriers = st.carriers
    BY <1>1, <1>2, FoldSound
  <1>4. st' = t BY <1>2
  <1> HIDE DEF t
  <1> QED BY <1>1, <1>2, <1>3, <1>4, LedgerSameStep

LEMMA UnfoldStep ==
    ASSUME MutexInv, NEW f \in st.folded, Unfold(f)
    PROVE  MutexInv'
  <1>1. Sound(st) /\ spoiled = {} BY DEF MutexInv
  <1>2. /\ Running /\ UNCHANGED <<loopVars, real, spoiled, nextInit, nextEpoch>>
        /\ st' = Unfolded(st, f)
    BY DEF Unfold, Unfolded, Moved, runtime
  <1> DEFINE t == Unfolded(st, f)
  <1>3. Sound(t) /\ t.entries = st.entries /\ t.changed = st.changed /\ t.carriers = st.carriers
    BY <1>1, UnfoldSound
  <1>4. st' = t BY <1>2
  <1> HIDE DEF t
  <1> QED BY <1>1, <1>2, <1>3, <1>4, LedgerSameStep

LEMMA RewriteStep ==
    ASSUME MutexInv, NEW f \in st.resources \cap InstanceFacts, NEW c \in Content, Rewrite(f, c)
    PROVE  MutexInv'
  <1>1. Sound(st) /\ spoiled = {} BY DEF MutexInv
  <1>2. /\ Running /\ UNCHANGED <<loopVars, real, spoiled, nextInit, nextEpoch>>
        /\ st' = Rewritten(st, f, c)
    BY DEF Rewrite, Rewritten, runtime
  <1> DEFINE t == Rewritten(st, f, c)
  <1>3. Sound(t) /\ t.entries = st.entries /\ t.changed = st.changed /\ t.carriers = st.carriers
    BY <1>1, RewriteSound
  <1>4. st' = t BY <1>2
  <1> HIDE DEF t
  <1> QED BY <1>1, <1>2, <1>3, <1>4, LedgerSameStep

LEMMA BorrowStep ==
    ASSUME MutexInv, NEW f \in st.resources \cap InstanceFacts, Borrow(f)
    PROVE  MutexInv'
  <1>1. Sound(st) /\ spoiled = {} /\ Payload(st) /\ st \in CState BY DEF MutexInv, Sound
  <1> DEFINE b == st.borrowed \cup {f.on}
             t == Borrowing(st, b)
  <1>2. /\ Running /\ UNCHANGED <<loopVars, real, spoiled, nextInit, nextEpoch>>
        /\ st' = t
    BY DEF Borrow, Borrowing, runtime
  <1>3. f.on \in Instance /\ f \in OwnedOf(st, f.on) BY InstanceFields DEF OwnedOf
  <1>4. b \in SUBSET Instance BY <1>1, <1>3 DEF CState
  <1>5. EscrowOf(st, f.on) = {} BY <1>1, <1>3 DEF Payload
  <1>6. \A i \in b \ st.borrowed : EscrowOf(st, i) = {} BY <1>5
  <1> HIDE DEF b
  <1>7. Sound(t) /\ t.entries = st.entries /\ t.changed = st.changed /\ t.carriers = st.carriers
    BY <1>1, <1>4, <1>6, BorrowSound
  <1> HIDE DEF t
  <1> QED BY <1>1, <1>2, <1>7, LedgerSameStep

LEMMA EndBorrowStep ==
    ASSUME MutexInv, NEW i \in st.borrowed, EndBorrow(i)
    PROVE  MutexInv'
  <1>1. Sound(st) /\ spoiled = {} /\ st \in CState BY DEF MutexInv, Sound
  <1> DEFINE b == st.borrowed \ {i}
             t == Borrowing(st, b)
  <1>2. /\ Running /\ UNCHANGED <<loopVars, real, spoiled, nextInit, nextEpoch>>
        /\ st' = t
    BY DEF EndBorrow, Borrowing, runtime
  <1>3. b \in SUBSET Instance BY <1>1 DEF CState
  <1>4. \A j \in b \ st.borrowed : EscrowOf(st, j) = {} OBVIOUS
  <1> HIDE DEF b
  <1>5. Sound(t) /\ t.entries = st.entries /\ t.changed = st.changed /\ t.carriers = st.carriers
    BY <1>1, <1>3, <1>4, BorrowSound
  <1> HIDE DEF t
  <1> QED BY <1>1, <1>2, <1>5, LedgerSameStep

\* A head records the path and the run it stands for.
LEMMA HeadStep ==
    ASSUME MutexInv, phase' = "body", Sound(st'), st'.changed = {}, Mirrors(st', real'),
           top' = [state |-> st', real |-> real'],
           \A m, n \in st'.carriers : m = n,
           flag' \in BOOLEAN, headKnown' \in BOOLEAN, sameAsHead' = TRUE,
           \A m \in st'.carriers : st'.entries[m].held = flag',
           spoiled' = {}, nextInit' \in Nat, nextEpoch' \in Nat
    PROVE  MutexInv'
  <1>1. top' # None
    <2>1. st' \in CState BY DEF Sound
    <2>2. \A e : Shows(e) \in {"none", "free", "held"} BY DEF Shows
    <2>3. real' \in Runtime BY <2>2 DEF Mirrors, Runtime
    <2>4. top' \in [state : CState, real : Runtime] BY <2>1, <2>3
    <2> QED BY <2>4, MutexAssumption
  <1>2. (top.state)' = st' /\ (top.real)' = real' OBVIOUS
  <1>3. Headed' BY <1>1, <1>2 DEF Headed
  <1>4. ExitsCovered' BY DEF ExitsCovered
  <1> QED BY <1>3, <1>4 DEF MutexInv

LEMMA EnterLoopStep ==
    ASSUME MutexInv, EnterLoop
    PROVE  MutexInv'
  <1> DEFINE t == AtHead(st)
  <1>1. /\ Sound(st) /\ Mirrors(st, real) /\ spoiled = {} /\ flag \in BOOLEAN
        /\ headKnown \in BOOLEAN /\ nextInit \in Nat /\ nextEpoch \in Nat
        /\ st.carriers = {}
    BY DEF MutexInv, Headed, EnterLoop
  <1>2. /\ st' = t /\ top' = [state |-> st', real |-> real] /\ phase' = "body"
        /\ sameAsHead' = TRUE
        /\ UNCHANGED <<flag, headKnown, real, spoiled, nextInit, nextEpoch>>
    BY DEF EnterLoop, runtime
  <1>3. Sound(t) /\ t.entries = st.entries /\ t.carriers = st.carriers /\ t.changed = {}
    BY <1>1, AtHeadSound
  <1> HIDE DEF t
  <1>4. Mirrors(t, real) BY <1>1, <1>3, MirrorsSame
  <1> QED BY <1>1, <1>2, <1>3, <1>4, HeadStep

LEMMA EnterConditionalLoopStep ==
    ASSUME MutexInv, NEW m \in Mutex, NEW entry \in BOOLEAN, NEW held \in BOOLEAN,
           EnterConditionalLoop(m, entry, held)
    PROVE  MutexInv'
  <1> DEFINE s == LoopHead(st, m, held)
             t == AtHead(s)
             how == IF held THEN "held" ELSE "free"
  <1>1. /\ Sound(st) /\ Mirrors(st, real) /\ spoiled = {}
        /\ nextInit \in Nat /\ nextEpoch \in Nat
        /\ st.carriers = {}
    BY DEF MutexInv, Headed, EnterConditionalLoop
  <1>2. /\ MayAbstract(st, m, entry)
        /\ st' = t /\ top' = [state |-> st', real |-> real'] /\ phase' = "body"
        /\ real' = [real EXCEPT ![m] = how]
        /\ flag' = held /\ sameAsHead' = TRUE /\ headKnown' = FALSE
        /\ nextEpoch' = nextEpoch + 1
        /\ UNCHANGED <<spoiled, nextInit>>
    BY DEF EnterConditionalLoop, Shown
  <1>3. /\ Sound(s) /\ s.carriers = st.carriers \cup {m}
        /\ s.entries[m].held <=> held
        /\ \A n \in Mutex : n # m => Shows(s.entries[n]) = Shows(st.entries[n])
        /\ held => Shows(s.entries[m]) = "held"
        /\ ~held => Shows(s.entries[m]) = "free"
    BY <1>1, <1>2, LoopHeadSound
  <1> HIDE DEF s
  <1>4. s.entries[m].held \in BOOLEAN
    <2>1. s.entries[m] # None /\ s \in CState BY <1>3 DEF Sound, Custody
    <2> QED BY <2>1 DEF CState, Entry
  <1>5. s.entries[m].held = held BY <1>3, <1>4
  <1>6. Mirrors(s, [real EXCEPT ![m] = how]) BY <1>1, <1>3, MirrorsOne
  <1>7. Sound(t) /\ t.entries = s.entries /\ t.carriers = s.carriers /\ t.changed = {}
    BY <1>3, AtHeadSound
  <1> HIDE DEF t, how
  <1>8. Mirrors(t, [real EXCEPT ![m] = how]) BY <1>6, <1>7, MirrorsSame
  <1>9. \A n \in t.carriers : n = m BY <1>1, <1>3, <1>7
  <1>10. \A n \in t.carriers : t.entries[n].held = held BY <1>5, <1>7, <1>9
  <1>11. Sound(st') /\ st'.changed = {} BY <1>2, <1>7
  <1>12. Mirrors(st', real') BY <1>2, <1>8
  <1>13. \A k, n \in st'.carriers : k = n BY <1>2, <1>9
  <1>14. \A n \in st'.carriers : st'.entries[n].held = flag' BY <1>2, <1>10
  <1>15. flag' \in BOOLEAN /\ headKnown' \in BOOLEAN /\ sameAsHead' = TRUE BY <1>2
  <1>16. nextEpoch' \in Nat /\ nextInit' \in Nat /\ spoiled' = {} BY <1>1, <1>2
  <1>17. top' = [state |-> st', real |-> real'] /\ phase' = "body" BY <1>2
  <1> QED BY <1>11, <1>12, <1>13, <1>14, <1>15, <1>16, <1>17, HeadStep

LEMMA ExitLoopStep ==
    ASSUME MutexInv, ExitLoop
    PROVE  MutexInv'
  <1>1. /\ phase' = "after"
        /\ UNCHANGED <<st, top, flag, sameAsHead, headKnown, real, spoiled, nextInit, nextEpoch>>
    BY DEF ExitLoop, runtime
  <1> QED BY <1>1 DEF MutexInv, Headed, ExitsCovered

LEMMA BranchStep ==
    ASSUME MutexInv, Branch
    PROVE  MutexInv'
  <1>1. /\ headKnown' = TRUE
        /\ UNCHANGED <<st, top, phase, flag, sameAsHead, real, spoiled, nextInit, nextEpoch>>
    BY DEF Branch, runtime
  <1> QED BY <1>1 DEF MutexInv, Headed, ExitsCovered, Escrow

LEMMA SetFlagStep ==
    ASSUME MutexInv, NEW b \in BOOLEAN, SetFlag(b)
    PROVE  MutexInv'
  <1>1. /\ phase = "body" /\ flag' = b /\ sameAsHead' = FALSE
        /\ UNCHANGED <<st, top, phase, headKnown, real, spoiled, nextInit, nextEpoch>>
    BY DEF SetFlag, runtime
  <1> QED BY <1>1 DEF MutexInv, Headed, ExitsCovered

LEMMA BackEdgeStep ==
    ASSUME MutexInv, BackEdge
    PROVE  MutexInv'
  <1>1. /\ phase = "body" /\ phase' = "closed"
        /\ UNCHANGED <<st, top, flag, sameAsHead, headKnown, real, spoiled, nextInit, nextEpoch>>
    BY DEF BackEdge, runtime
  <1>2. \A m \in Mutex :
            /\ real[m] = IF m \in top.state.carriers
                         THEN IF flag THEN "held" ELSE "free"
                         ELSE top.real[m]
            /\ Escrow(st, m) = Escrow(top.state, m)
    BY BackEdgeCovered
  <1>3. ExitsCovered' BY <1>1, <1>2 DEF ExitsCovered, Escrow
  <1>4. Headed' BY <1>1 DEF MutexInv, Headed
  <1> QED BY <1>1, <1>3, <1>4 DEF MutexInv

LEMMA ReturnStep ==
    ASSUME MutexInv, Return
    PROVE  MutexInv'
  <1>1. /\ phase' = "returned" /\ st.obligations = 0
        /\ UNCHANGED <<st, top, flag, sameAsHead, headKnown, real, spoiled, nextInit, nextEpoch>>
    BY DEF Return, runtime
  <1>2. Sound(st) /\ Mirrors(st, real) BY DEF MutexInv
  <1>3. \A m \in Mutex : real[m] # "held" /\ Escrow(st, m) = {}
    BY <1>1, <1>2, ReturnCovered DEF Mirrors
  <1>4. ExitsCovered' BY <1>1, <1>3 DEF ExitsCovered, Escrow
  <1>5. Headed' BY <1>1 DEF MutexInv, Headed
  <1> QED BY <1>1, <1>4, <1>5 DEF MutexInv

LEMMA InitialSound == Sound(InitialState)
  <1> DEFINE s == InitialState
             d == CHOOSE c \in Content : TRUE
             r == {Storage(m) : m \in Mutex \ Automatic}
                    \cup {Fact("instance", i, c) : i \in Instance, c \in {d}}
             es == [m \in Mutex |-> None]
  <1>1. d \in Content BY MutexAssumption
  <1>2. /\ s.resources = r /\ s.folded = {} /\ s.entries = es /\ s.lent = es
        /\ s.consumed = {} /\ s.carriers = {} /\ s.changed = {} /\ s.borrowed = {}
        /\ s.locked = 0 /\ s.obligations = 0
    BY DEF InitialState
  <1> HIDE DEF d
  <1>3. /\ \A f \in r : \/ \E m \in Mutex : f = Storage(m)
                        \/ \E i \in Instance : f = Fact("instance", i, d)
        /\ \A i \in Instance : Fact("instance", i, d) \in r
    OBVIOUS
  <1>4. \A f \in r : f \in FactType
    BY <1>1, <1>3, FactTypes, InstanceFields, 0 \in Nat
  <1>5. \A f \in r : f.k \in {"storage", "instance"}
    BY <1>1, <1>3, FactFields, InstanceFields
  <1> HIDE DEF r
  <1>6. s \in CState
    <2>1. es \in [Mutex -> Entry \cup {None}] /\ es \in [Mutex -> Loan \cup {None}] OBVIOUS
    <2>2. r \in SUBSET FactType BY <1>4
    <2>3. s = [resources |-> r, folded |-> {}, entries |-> es, consumed |-> {}, carriers |-> {},
               locked |-> 0, obligations |-> 0, changed |-> {}, lost |-> FALSE,
               lent |-> es, borrowed |-> {}, loanSteps |-> FALSE]
      BY DEF InitialState, r, d
    <2> HIDE DEF es, s
    <2> QED BY <2>1, <2>2, <2>3 DEF CState
  <1> HIDE DEF s
  <1>7. \A m \in Mutex : Shape(s.entries[m]) BY <1>2 DEF Shape
  <1>8. \A m \in Mutex : Custody(s, m)
    BY <1>2, <1>5, FactFields DEF Custody
  <1>9. Folding(s) BY <1>2 DEF Folding
  <1>10. Payload(s)
    <2>1. \A m \in Mutex : Escrow(s, m) = {} BY <1>2 DEF Escrow
    <2>2. \A i \in Instance : EscrowOf(s, i) = {} BY <2>1 DEF EscrowOf
    <2>3. ASSUME NEW i \in Instance
          PROVE  OwnedOf(s, i) = {Fact("instance", i, d)} /\ Fact("instance", i, d) \in InstanceFacts
      <3>1. /\ Fact("instance", i, d) \in InstanceFacts
            /\ Fact("instance", i, d).on = i
        BY <1>1, InstanceFields
      <3>2. Fact("instance", i, d) \in OwnedOf(s, i) BY <1>2, <1>3, <3>1 DEF OwnedOf
      <3>3. ASSUME NEW f \in OwnedOf(s, i) PROVE f = Fact("instance", i, d)
        <4>1. f \in r /\ f.on = i /\ f.k = "instance" BY <1>2, InstanceFields DEF OwnedOf
        <4>2. PICK j \in Instance : f = Fact("instance", j, d) BY <1>3, <4>1, FactFields
        <4>3. j = i BY <1>1, <4>1, <4>2, InstanceFields
        <4> QED BY <4>2, <4>3
      <3> QED BY <3>1, <3>2, <3>3
    <2> QED BY <2>1, <2>2, <2>3 DEF Payload
  <1>11. Counted(s)
    <2>1. {m \in Mutex : IsLocked(s.entries[m])} = {} BY <1>2 DEF IsLocked
    <2>2. {m \in Mutex : HasReturnObligation(s.entries[m])} = {} BY <1>2 DEF HasReturnObligation
    <2> QED BY <1>2, <2>1, <2>2, FS_EmptySet DEF Counted
  <1> QED BY <1>6, <1>7, <1>8, <1>9, <1>10, <1>11 DEF Sound, s

LEMMA MutexInit ==
    ASSUME Init
    PROVE  MutexInv
  <1>1. /\ st = InitialState /\ top = None /\ phase = "line"
        /\ flag = FALSE /\ sameAsHead = FALSE /\ headKnown = FALSE
        /\ real = [m \in Mutex |-> "none"] /\ spoiled = {}
        /\ nextInit = 1 /\ nextEpoch = 1
    BY DEF Init
  <1>2. st.entries = [m \in Mutex |-> None] /\ st.carriers = {}
    BY <1>1 DEF InitialState
  <1>3. Sound(st) BY <1>1, InitialSound
  <1>4. Mirrors(st, real) BY <1>1, <1>2 DEF Mirrors, Shows
  <1> QED BY <1>1, <1>2, <1>3, <1>4 DEF MutexInv, Headed, ExitsCovered

LEMMA MutexNext ==
    ASSUME MutexInv, [Next]_vars
    PROVE  MutexInv'
  <1>1. ASSUME NEW m \in Mutex, NEW inv \in Declared(m), Initialize(m, inv) PROVE MutexInv'
    BY <1>1, InitializeStep
  <1>2. ASSUME NEW m \in Mutex, Acquire(m) PROVE MutexInv'
    BY <1>2, AcquireStep
  <1>3. ASSUME NEW m \in Mutex, Release(m) PROVE MutexInv'
    BY <1>3, ReleaseStep
  <1>4. ASSUME NEW m \in Mutex, Destroy(m) PROVE MutexInv'
    BY <1>4, DestroyStep
  <1>5. ASSUME NEW m \in Mutex, LendUse(m) PROVE MutexInv'
    BY <1>5, LendUseStep
  <1>6. ASSUME NEW m \in Mutex, RecoverUse(m) PROVE MutexInv'
    BY <1>6, RecoverUseStep
  <1>7. ASSUME NEW m \in Mutex, Write(m) PROVE MutexInv'
    BY <1>7, WriteStep
  <1>8. ASSUME NEW m \in Mutex, EndStorage(m) PROVE MutexInv'
    BY <1>8, EndStorageStep
  <1>9. ASSUME NEW m \in Mutex, NEW entry \in BOOLEAN, NEW held \in BOOLEAN,
               EnterConditionalLoop(m, entry, held)
        PROVE  MutexInv'
    BY <1>9, EnterConditionalLoopStep
  <1>10. ASSUME NEW f \in st.resources, Fold(f) PROVE MutexInv'
    BY <1>10, FoldStep
  <1>11. ASSUME NEW f \in st.folded, Unfold(f) PROVE MutexInv'
    BY <1>11, UnfoldStep
  <1>12. ASSUME NEW f \in st.resources \cap InstanceFacts, Borrow(f) PROVE MutexInv'
    BY <1>12, BorrowStep
  <1>13. ASSUME NEW f \in st.resources \cap InstanceFacts, NEW c \in Content, Rewrite(f, c)
         PROVE  MutexInv'
    BY <1>13, RewriteStep
  <1>14. ASSUME NEW i \in st.borrowed, EndBorrow(i) PROVE MutexInv'
    BY <1>14, EndBorrowStep
  <1>15. ASSUME NEW b \in BOOLEAN, SetFlag(b) PROVE MutexInv'
    BY <1>15, SetFlagStep
  <1>16. CASE EnterLoop BY <1>16, EnterLoopStep
  <1>17. CASE ExitLoop BY <1>17, ExitLoopStep
  <1>18. CASE Branch BY <1>18, BranchStep
  <1>19. CASE BackEdge BY <1>19, BackEdgeStep
  <1>20. CASE Return BY <1>20, ReturnStep
  <1>21. CASE UNCHANGED vars
    BY <1>21 DEF vars, MutexInv, Headed, ExitsCovered, Escrow
  <1> QED
    BY <1>1, <1>2, <1>3, <1>4, <1>5, <1>6, <1>7, <1>8, <1>9, <1>10, <1>11, <1>12, <1>13,
       <1>14, <1>15, <1>16, <1>17, <1>18, <1>19, <1>20, <1>21 DEF Next

\* The strengthened invariant holds of every reachable state: where each
\* authority over a mutex is, and what a loop head may promise about it.
THEOREM MutexInvariant == Spec => []MutexInv
  <1>1. Init => MutexInv BY MutexInit
  <1>2. MutexInv /\ [Next]_vars => MutexInv' BY MutexNext
  <1> QED BY <1>1, <1>2, PTL DEF Spec

----------------------------------------------------------------------------
(* The properties                                                          *)

\* A protected instance is owned by the path or in escrow of one unlocked
\* mutex, never both, neither or twice (publish_declared, acquire_current,
\* release_current and destroy move it), and in escrow it is not borrowed.
THEOREM PayloadStaysInOnePlace == Spec => []PayloadInOnePlace
  <1>1. ASSUME MutexInv PROVE PayloadInOnePlace
    <2>1. Payload(st) BY <1>1 DEF MutexInv, Sound
    <2>2. ASSUME NEW i \in Instance
          PROVE  Cardinality(OwnedOf(st, i)) + Cardinality(EscrowOf(st, i)) = 1
      <3>1. Cardinality({}) = 0 BY FS_EmptySet
      <3>2. CASE (\E f \in InstanceFacts : OwnedOf(st, i) = {f}) /\ EscrowOf(st, i) = {}
        <4>1. PICK f : OwnedOf(st, i) = {f} BY <3>2
        <4>2. Cardinality({f}) = 1 BY FS_Singleton
        <4>3. Cardinality(OwnedOf(st, i)) = 1 BY <4>1, <4>2
        <4> QED BY <3>1, <3>2, <4>3
      <3>3. CASE OwnedOf(st, i) = {} /\ \E m \in Mutex : EscrowOf(st, i) = {m}
        <4>1. PICK m : EscrowOf(st, i) = {m} BY <3>3
        <4>2. Cardinality({m}) = 1 BY FS_Singleton
        <4>3. Cardinality(EscrowOf(st, i)) = 1 BY <4>1, <4>2
        <4> QED BY <3>1, <3>3, <4>3
      <3> QED BY <2>1, <3>2, <3>3 DEF Payload
    <2> QED BY <2>1, <2>2 DEF PayloadInOnePlace, OwnedOf, EscrowOf, Payload
  <1> QED BY <1>1, MutexInvariant, PTL

\* No lifetime authority, use or guard survives the destroy or unlock that
\* ended what it names, and a lent use is held exactly while a guard taken
\* through it is out (lend_use, recover_use, acquire_current, release_current,
\* destroy, and the clause of a loop).
THEOREM AuthorityStaysCurrent == Spec => []AuthorityIsCurrent
  <1>1. ASSUME MutexInv PROVE AuthorityIsCurrent
    <2> DEFINE owned == st.resources \cup st.folded
               e(m) == st.entries[m]
               lives(m) == {f \in owned : f.k = "live" /\ f.on = m}
               loans(m) == {x \in {st.lent[m]} : x # None}
               guards(m) == {f \in owned : f.k = "guard" /\ f.on = m}
    <2>1. SUFFICES ASSUME NEW m \in Mutex
          PROVE  /\ \A f \in lives(m) : e(m) # None /\ f.id = e(m).init
                 /\ \A x \in loans(m) : e(m) # None /\ x.init = e(m).init
                 /\ Cardinality(lives(m)) + Cardinality(loans(m)) = Bit(e(m) # None)
                 /\ guards(m) = IF e(m) # None /\ e(m).status = "locked"
                                THEN {Guard(m, e(m).epoch)} ELSE {}
                 /\ (\E x \in loans(m) : x.hold)
                      <=> (e(m) # None /\ e(m).status = "locked" /\ e(m).hold)
      BY DEF AuthorityIsCurrent
    <2>2. Custody(st, m) BY <1>1 DEF MutexInv, Sound
    <2>3. \A f \in lives(m) : e(m) # None /\ f.id = e(m).init
      BY <2>2, FactFields DEF Custody
    <2>4. \A x \in loans(m) : e(m) # None /\ x.init = e(m).init
      BY <2>2 DEF Custody
    <2>5. Cardinality(lives(m)) + Cardinality(loans(m)) = Bit(e(m) # None)
      <3>1. Cardinality({}) = 0 BY FS_EmptySet
      <3>2. \A x : Cardinality({x}) = 1 BY FS_Singleton
      <3>3. CASE e(m) = None
        <4>1. lives(m) = {} /\ loans(m) = {} BY <2>2, <3>3 DEF Custody
        <4> HIDE DEF lives, loans
        <4> QED BY <3>1, <3>3, <4>1 DEF Bit
      <3>4. CASE e(m) # None /\ st.lent[m] = None
        <4>1. loans(m) = {} BY <3>4
        <4>2. lives(m) = {Live(m, e(m).init)} BY <2>2, <3>4, FactFields DEF Custody
        <4>3. Cardinality({Live(m, e(m).init)}) = 1 BY <3>2
        <4> HIDE DEF lives, loans
        <4> QED BY <3>1, <3>4, <4>1, <4>2, <4>3 DEF Bit
      <3>5. CASE e(m) # None /\ st.lent[m] # None
        <4>1. loans(m) = {st.lent[m]} BY <3>5
        <4>2. lives(m) = {} BY <2>2, <3>5 DEF Custody
        <4> HIDE DEF lives, loans
        <4> QED BY <3>1, <3>2, <3>5, <4>1, <4>2 DEF Bit
      <3> QED BY <3>3, <3>4, <3>5
    <2>6. guards(m) = IF e(m) # None /\ e(m).status = "locked"
                      THEN {Guard(m, e(m).epoch)} ELSE {}
      BY <2>2, FactFields DEF Custody
    <2>7. (\E x \in loans(m) : x.hold)
            <=> (e(m) # None /\ e(m).status = "locked" /\ e(m).hold)
      BY <2>2 DEF Custody
    <2> QED BY <2>3, <2>4, <2>5, <2>6, <2>7
  <1> QED BY <1>1, MutexInvariant, PTL

\* The ledger admits no operation the run forbids: locking a held mutex,
\* unlocking a free one, destroying a held one, writing or ending the bytes
\* of a live one; and its counters of locked mutexes and of return
\* obligations are exact (insert, without).
THEOREM LedgerStaysTrue == Spec => []LedgerTellsRuntime
  <1>1. ASSUME MutexInv PROVE LedgerTellsRuntime
    <2>1. Mirrors(st, real) /\ spoiled = {} /\ Counted(st) BY <1>1 DEF MutexInv, Sound
    <2> QED BY <2>1 DEF LedgerTellsRuntime, Mirrors, Shows, Counted
  <1> QED BY <1>1, MutexInvariant, PTL

\* An accepted back edge leaves every mutex and escrow as the head describes
\* it (normalize_direct_loop_guards, check_loop_protocol_state_since), and a
\* return leaves no mutex held and nothing in escrow.
THEOREM ExitsStayCovered == Spec => []ExitsCovered
  <1>1. MutexInv => ExitsCovered BY DEF MutexInv
  <1> QED BY <1>1, MutexInvariant, PTL
==============================================================================
