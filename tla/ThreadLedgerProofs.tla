-------------------------- MODULE ThreadLedgerProofs ------------------------
(***************************************************************************)
(* Proofs about ThreadLedger.                                              *)
(*                                                                         *)
(* The system has already decided a creation the parent still waits to     *)
(* learn about.  The invariant is therefore about the outcome: the         *)
(* authority and the memory the parent has once it learns what really      *)
(* happened.  What the parent has until then is compared with that.        *)
(***************************************************************************)
EXTENDS ThreadLedger, FiniteSetTheorems, WellFoundedInduction, TLAPS

WorkerType == [task : Task, state : {"running", "finished", "failed", "joined"}]

AuthTyped(a) ==
    /\ a.own \in SUBSET Cell
    /\ a.loan.steps \in Seq(Kind) /\ a.loan.lent \in [Local -> Nat]
    /\ a.threads.mutexWorkers \in [Mutex -> Nat]

MemoryType == [Object -> Value \cup {None}]
DeltaType == [object : Object, value : Value]

PendingTyped(p) ==
    /\ AuthTyped(p.success) /\ AuthTyped(p.failure)
    /\ p.memory \in MemoryType /\ p.deltas \in Seq(DeltaType)
    /\ p.handle \in Workers /\ worker[p.handle].state # "joined"

Typed ==
    /\ AuthTyped(auth)
    /\ memory \in MemoryType /\ bytes \in [Object -> Value]
    /\ pending # <<>> => PendingTyped(pending[1])
    /\ locked \in SUBSET Mutex
    /\ nextHandle \in Nat
    /\ worker \in [Workers -> WorkerType]
    /\ IsFiniteSet(Workers) /\ \A h \in Workers : h \in Nat /\ h < nextHandle

----------------------------------------------------------------------------
(* What really holds                                                       *)

\* The created workers of w that are not joined.
Open(w) == {h \in DOMAIN w : w[h].state \in {"running", "finished"}}

Viewers(w, o) == {h \in Open(w) : o \in Views[w[h].task]}
Users(w, m) == {h \in Open(w) : m \in Uses[w[h].task]}

Undecided == pending # <<>>
Failed == worker[pending[1].handle].state = "failed"

\* The authority and the memory of the parent once it knows.
Outcome ==
    IF ~Undecided THEN auth
    ELSE IF Failed THEN pending[1].failure ELSE pending[1].success

OutcomeMemory ==
    IF ~Undecided \/ Failed THEN memory ELSE Replayed(pending[1])

\* Authority a has a right for each open worker, none of what they took, and
\* counts the locals they view and the mutexes they use.
Fits(a, w) ==
    /\ DOMAIN a.threads.rights = Open(w)
    /\ \A h \in Open(w) : /\ a.threads.rights[h] = w[h].task
                          /\ a.own \cap Takes[w[h].task] = {}
    /\ \A o \in Local : a.loan.lent[o] = Cardinality(Viewers(w, o))
    /\ \A m \in Mutex : a.threads.mutexWorkers[m] = Cardinality(Users(w, m))

\* No two workers took the same cell.
Distinct(w) ==
    \A g, h \in Open(w) : g # h => Takes[w[g].task] \cap Takes[w[h].task] = {}

\* Known values are those in memory.
Known(mem, b) == \A o \in Object : mem[o] # None => mem[o] = b[o]

\* What an open worker may write is not known.
Hidden(mem, w, held) ==
    \A h \in Open(w) :
        /\ \A o \in Takes[w[h].task] : mem[o] = None
        /\ \A m \in Uses[w[h].task] : m \notin held => mem[Payload[m]] = None

\* Until it knows, the parent has no more than either outcome leaves it.
Neutrality ==
    Undecided =>
        /\ locked = {} /\ joining = {} /\ ~returned
        /\ auth.own = pending[1].success.own /\ auth.loan = pending[1].success.loan
        /\ auth.own \subseteq pending[1].failure.own
        /\ \A o \in Local : auth.loan.lent[o] = 0 => pending[1].failure.loan.lent[o] = 0
        /\ \A o \in auth.own \cup Local : memory[o] = Replayed(pending[1])[o]

Waiting ==
    /\ joining \subseteq DOMAIN auth.threads.rights
    /\ returned => joining = {} /\ Open(worker) = {}

\* The trace of an authority runs between two moments of its loan ledger,
\* through steps of creates and joins.
Traced(a) ==
    \/ a.threads.trace = None
    \/ \E i, j \in 0 .. Len(a.loan.steps) :
          /\ i <= j
          /\ a.threads.trace = Trace(SubSeq(a.loan.steps, 1, i), SubSeq(a.loan.steps, 1, j))
          /\ \A k \in (i + 1) .. j : a.loan.steps[k] \in {"create", "join"}

Traces ==
    /\ Traced(auth)
    /\ Undecided => Traced(pending[1].success) /\ Traced(pending[1].failure)

Fitting == Fits(Outcome, worker) /\ Distinct(worker)

Remembered == Known(OutcomeMemory, bytes) /\ Hidden(OutcomeMemory, worker, locked)

ThreadInv ==
    /\ Typed
    /\ Fitting /\ Remembered
    /\ Neutrality /\ Waiting /\ Traces

----------------------------------------------------------------------------
(* Objects and maps                                                        *)

\* Cells, locals and payloads are different objects.
LEMMA ObjectsApart ==
    /\ Cell \cap Local = {}
    /\ \A t \in Task : Takes[t] \subseteq Cell /\ Views[t] \subseteq Local /\ Uses[t] \subseteq Mutex
    /\ \A m \in Mutex : Payload[m] \in Object /\ Payload[m] \notin Cell /\ Payload[m] \notin Local
    /\ \A m, n \in Mutex : Payload[m] = Payload[n] => m = n
    /\ Cell \subseteq Object /\ Local \subseteq Object
  BY ThreadAssumption DEF Object, Guarded

\* Counts when a worker is created or joined.
LEMMA OneMore ==
    ASSUME NEW A, IsFiniteSet(A), NEW h, h \notin A
    PROVE  Cardinality(A) \in Nat /\ Cardinality(A \cup {h}) = Cardinality(A) + 1
  BY FS_AddElement, FS_CardinalityType

LEMMA OneLess ==
    ASSUME NEW A, IsFiniteSet(A), NEW h \in A
    PROVE  /\ Cardinality(A) \in Nat /\ Cardinality(A \ {h}) \in Nat
           /\ Cardinality(A \ {h}) = Cardinality(A) - 1
  <1>1. Cardinality(A \ {h}) = Cardinality(A) - 1
    BY FS_RemoveElement
  <1>2. IsFiniteSet(A \ {h})
    BY FS_RemoveElement
  <1> QED BY <1>1, <1>2, FS_CardinalityType

LEMMA FiniteOpen ==
    ASSUME NEW w, IsFiniteSet(DOMAIN w)
    PROVE  /\ IsFiniteSet(Open(w))
           /\ \A o : IsFiniteSet(Viewers(w, o)) /\ Cardinality(Viewers(w, o)) \in Nat
           /\ \A m : IsFiniteSet(Users(w, m)) /\ Cardinality(Users(w, m)) \in Nat
  <1>1. IsFiniteSet(Open(w))
    <2>1. Open(w) \subseteq DOMAIN w BY DEF Open
    <2> QED BY <2>1, FS_Subset
  <1>2. \A o : IsFiniteSet(Viewers(w, o))
    <2>1. \A o : Viewers(w, o) \subseteq Open(w) BY DEF Viewers
    <2> QED BY <1>1, <2>1, FS_Subset
  <1>3. \A m : IsFiniteSet(Users(w, m))
    <2>1. \A m : Users(w, m) \subseteq Open(w) BY DEF Users
    <2> QED BY <1>1, <2>1, FS_Subset
  <1> QED BY <1>1, <1>2, <1>3, FS_CardinalityType

----------------------------------------------------------------------------
(* Authorities after a worker is created or joined                         *)

\* w2 has one open worker h more than w, which applies t.
OneOpened(w, w2, h, t) ==
    /\ Open(w2) = Open(w) \cup {h} /\ h \notin Open(w)
    /\ w2[h].task = t
    /\ \A g \in Open(w) : w2[g].task = w[g].task

\* What authority a loses, and counts, as h takes what t takes.
Given(a, a2, w, h, t) ==
    /\ a2.own = a.own \ Takes[t]
    /\ DOMAIN a2.threads.rights = DOMAIN a.threads.rights \cup {h}
    /\ a2.threads.rights[h] = t
    /\ \A g \in Open(w) : a2.threads.rights[g] = a.threads.rights[g]
    /\ \A o \in Local : a2.loan.lent[o] = a.loan.lent[o] + IF o \in Views[t] THEN 1 ELSE 0
    /\ \A m \in Mutex : a2.threads.mutexWorkers[m]
            = a.threads.mutexWorkers[m] + IF m \in Uses[t] THEN 1 ELSE 0

\* The reverse.
Regained(a, a2, w2, h, t) ==
    /\ a2.own = a.own \cup Takes[t]
    /\ DOMAIN a2.threads.rights = DOMAIN a.threads.rights \ {h}
    /\ \A g \in Open(w2) : a2.threads.rights[g] = a.threads.rights[g]
    /\ \A o \in Local : a2.loan.lent[o] = a.loan.lent[o] - IF o \in Views[t] THEN 1 ELSE 0
    /\ \A m \in Mutex : a2.threads.mutexWorkers[m]
            = a.threads.mutexWorkers[m] - IF m \in Uses[t] THEN 1 ELSE 0

LEMMA FitsOpened ==
    ASSUME NEW a, NEW a2, NEW w, NEW w2, NEW h, NEW t \in Task,
           AuthTyped(a), IsFiniteSet(DOMAIN w), Fits(a, w), OneOpened(w, w2, h, t),
           Given(a, a2, w, h, t)
    PROVE  Fits(a2, w2)
  <1>1. DOMAIN a2.threads.rights = Open(w2)
    BY DEF Fits, OneOpened, Given
  <1>2. \A g \in Open(w2) : /\ a2.threads.rights[g] = w2[g].task
                            /\ a2.own \cap Takes[w2[g].task] = {}
    BY DEF Fits, OneOpened, Given
  <1>3. ASSUME NEW o \in Local
        PROVE  a2.loan.lent[o] = Cardinality(Viewers(w2, o))
    <2>1. /\ a.loan.lent[o] = Cardinality(Viewers(w, o))
          /\ a2.loan.lent[o] = a.loan.lent[o] + IF o \in Views[t] THEN 1 ELSE 0
      BY DEF Fits, Given
    <2>2. IsFiniteSet(Viewers(w, o)) /\ Cardinality(Viewers(w, o)) \in Nat /\ h \notin Viewers(w, o)
      BY FiniteOpen DEF OneOpened, Viewers
    <2>3. CASE o \in Views[t]
      <3>1. Viewers(w2, o) = Viewers(w, o) \cup {h}
        BY <2>3 DEF OneOpened, Viewers
      <3>2. Cardinality(Viewers(w, o) \cup {h}) = Cardinality(Viewers(w, o)) + 1
        BY <2>2, OneMore
      <3> QED BY <2>1, <2>3, <3>1, <3>2
    <2>4. CASE o \notin Views[t]
      <3>1. Viewers(w2, o) = Viewers(w, o)
        BY <2>4 DEF OneOpened, Viewers
      <3> QED BY <2>1, <2>2, <2>4, <3>1
    <2> QED BY <2>3, <2>4
  <1>4. ASSUME NEW m \in Mutex
        PROVE  a2.threads.mutexWorkers[m] = Cardinality(Users(w2, m))
    <2>1. /\ a.threads.mutexWorkers[m] = Cardinality(Users(w, m))
          /\ a2.threads.mutexWorkers[m] = a.threads.mutexWorkers[m] + IF m \in Uses[t] THEN 1 ELSE 0
      BY DEF Fits, Given
    <2>2. IsFiniteSet(Users(w, m)) /\ Cardinality(Users(w, m)) \in Nat /\ h \notin Users(w, m)
      BY FiniteOpen DEF OneOpened, Users
    <2>3. CASE m \in Uses[t]
      <3>1. Users(w2, m) = Users(w, m) \cup {h}
        BY <2>3 DEF OneOpened, Users
      <3>2. Cardinality(Users(w, m) \cup {h}) = Cardinality(Users(w, m)) + 1
        BY <2>2, OneMore
      <3> QED BY <2>1, <2>3, <3>1, <3>2
    <2>4. CASE m \notin Uses[t]
      <3>1. Users(w2, m) = Users(w, m)
        BY <2>4 DEF OneOpened, Users
      <3> QED BY <2>1, <2>2, <2>4, <3>1
    <2> QED BY <2>3, <2>4
  <1> QED BY <1>1, <1>2, <1>3, <1>4 DEF Fits

\* The reverse: h was the only one to take what it took.
LEMMA FitsClosed ==
    ASSUME NEW a, NEW a2, NEW w, NEW w2, NEW h, NEW t \in Task,
           IsFiniteSet(DOMAIN w), Fits(a, w), Distinct(w), OneOpened(w2, w, h, t),
           Regained(a, a2, w2, h, t)
    PROVE  /\ Fits(a2, w2)
           /\ \A o \in Local : a2.loan.lent[o] \in Nat
           /\ \A m \in Mutex : a2.threads.mutexWorkers[m] \in Nat
  <1>1. DOMAIN a2.threads.rights = Open(w2)
    BY DEF Fits, OneOpened, Regained
  <1>2. ASSUME NEW g \in Open(w2)
        PROVE  /\ a2.threads.rights[g] = w2[g].task
               /\ a2.own \cap Takes[w2[g].task] = {}
    <2>1. g \in Open(w) /\ h \in Open(w) /\ g # h /\ w[g].task = w2[g].task /\ w[h].task = t
      BY DEF OneOpened
    <2>2. Takes[w[g].task] \cap Takes[w[h].task] = {}
      BY <2>1 DEF Distinct
    <2> QED BY <2>1, <2>2 DEF Fits, Regained
  <1>3. ASSUME NEW o \in Local
        PROVE  a2.loan.lent[o] = Cardinality(Viewers(w2, o)) /\ a2.loan.lent[o] \in Nat
    <2>1. /\ a.loan.lent[o] = Cardinality(Viewers(w, o))
          /\ a2.loan.lent[o] = a.loan.lent[o] - IF o \in Views[t] THEN 1 ELSE 0
      BY DEF Fits, Regained
    <2>2. IsFiniteSet(Viewers(w, o)) /\ Cardinality(Viewers(w, o)) \in Nat
      BY FiniteOpen
    <2>3. CASE o \in Views[t]
      <3>1. Viewers(w2, o) = Viewers(w, o) \ {h} /\ h \in Viewers(w, o)
        BY <2>3 DEF OneOpened, Viewers
      <3>2. /\ Cardinality(Viewers(w, o) \ {h}) = Cardinality(Viewers(w, o)) - 1
            /\ Cardinality(Viewers(w, o) \ {h}) \in Nat
        BY <2>2, <3>1, OneLess
      <3> QED BY <2>1, <2>3, <3>1, <3>2
    <2>4. CASE o \notin Views[t]
      <3>1. Viewers(w2, o) = Viewers(w, o)
        BY <2>4 DEF OneOpened, Viewers
      <3> QED BY <2>1, <2>2, <2>4, <3>1
    <2> QED BY <2>3, <2>4
  <1>4. ASSUME NEW m \in Mutex
        PROVE  a2.threads.mutexWorkers[m] = Cardinality(Users(w2, m)) /\ a2.threads.mutexWorkers[m] \in Nat
    <2>1. /\ a.threads.mutexWorkers[m] = Cardinality(Users(w, m))
          /\ a2.threads.mutexWorkers[m] = a.threads.mutexWorkers[m] - IF m \in Uses[t] THEN 1 ELSE 0
      BY DEF Fits, Regained
    <2>2. IsFiniteSet(Users(w, m)) /\ Cardinality(Users(w, m)) \in Nat
      BY FiniteOpen
    <2>3. CASE m \in Uses[t]
      <3>1. Users(w2, m) = Users(w, m) \ {h} /\ h \in Users(w, m)
        BY <2>3 DEF OneOpened, Users
      <3>2. /\ Cardinality(Users(w, m) \ {h}) = Cardinality(Users(w, m)) - 1
            /\ Cardinality(Users(w, m) \ {h}) \in Nat
        BY <2>2, <3>1, OneLess
      <3> QED BY <2>1, <2>3, <3>1, <3>2
    <2>4. CASE m \notin Uses[t]
      <3>1. Users(w2, m) = Users(w, m)
        BY <2>4 DEF OneOpened, Users
      <3> QED BY <2>1, <2>2, <2>4, <3>1
    <2> QED BY <2>3, <2>4
  <1> QED BY <1>1, <1>2, <1>3, <1>4 DEF Fits

\* Workers with the same open ones and tasks fit the same authorities.
LEMMA FitsSame ==
    ASSUME NEW a, NEW a2, NEW w, NEW w2, Fits(a, w),
           Open(w2) = Open(w), \A h \in Open(w) : w2[h].task = w[h].task,
           a2.own = a.own, a2.loan.lent = a.loan.lent, a2.threads = a.threads
    PROVE  Fits(a2, w2)
  <1>1. \A o : Viewers(w2, o) = Viewers(w, o) BY DEF Viewers
  <1>2. \A m : Users(w2, m) = Users(w, m) BY DEF Users
  <1> QED BY <1>1, <1>2 DEF Fits

----------------------------------------------------------------------------
(* Traces                                                                  *)

\* Appending a step keeps the earlier moments.
LEMMA Prefixes ==
    ASSUME NEW s \in Seq(Kind), NEW e \in Kind
    PROVE  /\ Append(s, e) \in Seq(Kind) /\ Len(Append(s, e)) = Len(s) + 1
           /\ \A i \in 0 .. Len(s) : SubSeq(Append(s, e), 1, i) = SubSeq(s, 1, i)
           /\ \A k \in 1 .. Len(s) : Append(s, e)[k] = s[k]
           /\ Append(s, e)[Len(s) + 1] = e
           /\ SubSeq(s, 1, Len(s)) = s
           /\ SubSeq(Append(s, e), 1, Len(s) + 1) = Append(s, e)
           /\ \A i \in 0 .. Len(s) : SubSeq(s, 1, i) \in Seq(Kind) /\ Len(SubSeq(s, 1, i)) = i
  OBVIOUS

\* A step of the loan ledger the thread ledger does not follow.
LEMMA TracedLeft ==
    ASSUME NEW a, NEW a2, NEW e \in Kind, a.loan.steps \in Seq(Kind), Traced(a),
           a2.loan.steps = Append(a.loan.steps, e), a2.threads.trace = a.threads.trace
    PROVE  Traced(a2)
  <1> DEFINE s == a.loan.steps
             s2 == a2.loan.steps
  <1>1. CASE a.threads.trace = None
    BY <1>1 DEF Traced
  <1>2. CASE a.threads.trace # None
    <2>1. PICK i \in 0 .. Len(s), j \in 0 .. Len(s) :
             /\ i <= j
             /\ a.threads.trace = Trace(SubSeq(s, 1, i), SubSeq(s, 1, j))
             /\ \A k \in (i + 1) .. j : s[k] \in {"create", "join"}
      BY <1>2 DEF Traced
    <2>2. /\ i \in 0 .. Len(s2) /\ j \in 0 .. Len(s2)
          /\ SubSeq(s2, 1, i) = SubSeq(s, 1, i) /\ SubSeq(s2, 1, j) = SubSeq(s, 1, j)
          /\ \A k \in (i + 1) .. j : s2[k] = s[k]
      BY Prefixes
    <2>3. /\ a2.threads.trace = Trace(SubSeq(s2, 1, i), SubSeq(s2, 1, j))
          /\ \A k \in (i + 1) .. j : s2[k] \in {"create", "join"}
      BY <2>1, <2>2
    <2> HIDE DEF s, s2
    <2> QED BY <2>1, <2>2, <2>3 DEF Traced, s2
  <1> QED BY <1>1, <1>2

\* A create or a join.
LEMMA TracedOn ==
    ASSUME NEW a, NEW a2, NEW e \in {"create", "join"}, a.loan.steps \in Seq(Kind), Traced(a),
           a2.loan.steps = Append(a.loan.steps, e),
           a2.threads.trace = AdvancedTrace(a.threads, a.loan.steps, a2.loan.steps)
    PROVE  Traced(a2)
  <1> DEFINE s == a.loan.steps
             s2 == a2.loan.steps
  <1>0. /\ Len(s) \in Nat /\ Len(s2) = Len(s) + 1
        /\ SubSeq(s2, 1, Len(s)) = s /\ SubSeq(s2, 1, Len(s) + 1) = s2
        /\ s2[Len(s) + 1] \in {"create", "join"}
    BY Prefixes DEF Kind
  <1>1. CASE a.threads.trace # None /\ a.threads.trace.current = s
    <2>1. PICK i \in 0 .. Len(s), j \in 0 .. Len(s) :
             /\ i <= j
             /\ a.threads.trace = Trace(SubSeq(s, 1, i), SubSeq(s, 1, j))
             /\ \A k \in (i + 1) .. j : s[k] \in {"create", "join"}
      BY <1>1 DEF Traced
    <2>2. /\ a.threads.trace.origin = SubSeq(s, 1, i)
          /\ SubSeq(s, 1, j) = s
      BY <1>1, <2>1 DEF Trace
    <2>3. j = Len(s)
      <3>1. Len(SubSeq(s, 1, j)) = j BY Prefixes DEF Kind
      <3> QED BY <2>2, <3>1
    <2>4. a2.threads.trace = Trace(SubSeq(s, 1, i), s2)
      BY <1>1, <2>2 DEF AdvancedTrace
    <2>5. /\ SubSeq(s2, 1, i) = SubSeq(s, 1, i)
          /\ \A k \in 1 .. Len(s) : s2[k] = s[k]
      BY Prefixes DEF Kind
    <2>6. a2.threads.trace = Trace(SubSeq(s2, 1, i), SubSeq(s2, 1, Len(s) + 1))
      BY <1>0, <2>4, <2>5
    <2>7. \A k \in (i + 1) .. Len(s) + 1 : s2[k] \in {"create", "join"}
      BY <1>0, <2>1, <2>3, <2>5
    <2>8. i \in 0 .. Len(s2) /\ Len(s) + 1 \in 0 .. Len(s2) /\ i <= Len(s) + 1
      BY <1>0
    <2> HIDE DEF s, s2
    <2> QED BY <2>6, <2>7, <2>8 DEF Traced, s2
  <1>2. CASE ~(a.threads.trace # None /\ a.threads.trace.current = s)
    <2>1. a2.threads.trace = Trace(s, s2) \/ a2.threads.trace = None
      BY <1>2 DEF AdvancedTrace
    <2>2. CASE a2.threads.trace = None
      BY <2>2 DEF Traced
    <2>3. CASE a2.threads.trace = Trace(s, s2)
      <3>1. a2.threads.trace = Trace(SubSeq(s2, 1, Len(s)), SubSeq(s2, 1, Len(s) + 1))
        BY <1>0, <2>3
      <3>2. \A k \in (Len(s) + 1) .. (Len(s) + 1) : s2[k] \in {"create", "join"}
        BY <1>0
      <3>3. Len(s) \in 0 .. Len(s2) /\ Len(s) + 1 \in 0 .. Len(s2) /\ Len(s) <= Len(s) + 1
        BY <1>0
      <3> HIDE DEF s, s2
      <3> QED BY <3>1, <3>2, <3>3 DEF Traced, s2
    <2> QED BY <2>1, <2>2, <2>3
  <1> QED BY <1>1, <1>2

----------------------------------------------------------------------------
(* Remembered stores                                                       *)

StoresTo(p, o) == {n \in 1 .. Len(p.deltas) : p.deltas[n].object = o}

\* A nonempty set of numbers below a bound has a greatest.
LEMMA Greatest ==
    ASSUME NEW n \in Nat, NEW S \in SUBSET (1 .. n), S # {}
    PROVE  \E m \in S : \A k \in S : k <= m
  <1>1. PICK T : T = {x \in Nat : n - x \in S}
    OBVIOUS
  <1>2. T \subseteq Nat /\ T # {}
    <2>1. PICK k : k \in S OBVIOUS
    <2>2. n - k \in Nat /\ n - (n - k) = k BY <2>1
    <2> QED BY <1>1, <2>1, <2>2
  <1>3. PICK x \in T : \A y \in T : <<y, x>> \notin OpToRel(<, Nat)
    BY <1>2, NatLessThanWellFounded, WFMin
  <1>4. \A y \in T : ~(y < x)
    BY <1>2, <1>3 DEF OpToRel
  <1>5. n - x \in S
    BY <1>1, <1>3
  <1>6. \A k \in S : k <= n - x
    <2> SUFFICES ASSUME NEW k \in S PROVE k <= n - x
      OBVIOUS
    <2>1. k \in Nat /\ n - k \in Nat /\ n - (n - k) = k
      OBVIOUS
    <2>2. n - k \in T
      BY <1>1, <2>1
    <2>3. ~(n - k < x) /\ x \in Nat
      BY <1>2, <1>4, <2>2
    <2> QED BY <2>1, <2>3
  <1> QED BY <1>5, <1>6

\* The last remembered store decides what is replayed.
LEMMA LastStore ==
    ASSUME NEW p, p.memory \in MemoryType, p.deltas \in Seq(DeltaType), NEW o \in Object
    PROVE  /\ StoresTo(p, o) = {} => Replayed(p)[o] = p.memory[o]
           /\ \A n \in StoresTo(p, o) : (\A k \in StoresTo(p, o) : k <= n) =>
                 Replayed(p)[o] = p.deltas[n].value
  <1> DEFINE stores == StoresTo(p, o)
  <1>1. stores = {n \in 1 .. Len(p.deltas) : p.deltas[n].object = o}
    BY DEF StoresTo
  <1>2. Replayed(p)[o] = IF stores = {} THEN p.memory[o]
                         ELSE p.deltas[CHOOSE n \in stores : \A k \in stores : k <= n].value
    BY <1>1 DEF Replayed
  <1>3. ASSUME NEW n \in stores, \A k \in stores : k <= n
        PROVE  n = CHOOSE x \in stores : \A k \in stores : k <= x
    <2>1. stores \subseteq Nat BY <1>1
    <2>2. \A x \in stores : (\A k \in stores : k <= x) => x = n
      BY <1>3, <2>1
    <2> HIDE DEF stores
    <2> QED BY <1>3, <2>2
  <1> HIDE DEF stores
  <1> QED BY <1>2, <1>3 DEF stores

LEMMA ReplayedTyped ==
    ASSUME NEW p, p.memory \in MemoryType, p.deltas \in Seq(DeltaType)
    PROVE  Replayed(p) \in MemoryType
  <1>1. ASSUME NEW o \in Object PROVE Replayed(p)[o] \in Value \cup {None}
    <2>1. CASE StoresTo(p, o) = {}
      <3>1. Replayed(p)[o] = p.memory[o] BY <2>1, LastStore
      <3> QED BY <3>1 DEF MemoryType
    <2>2. CASE StoresTo(p, o) # {}
      <3>1. StoresTo(p, o) \in SUBSET (1 .. Len(p.deltas)) /\ Len(p.deltas) \in Nat
        BY DEF StoresTo
      <3>2. PICK n \in StoresTo(p, o) : \A k \in StoresTo(p, o) : k <= n
        BY <2>2, <3>1, Greatest
      <3>3. Replayed(p)[o] = p.deltas[n].value BY <3>2, LastStore
      <3>4. p.deltas[n] \in DeltaType BY <3>1
      <3> QED BY <3>3, <3>4 DEF DeltaType
    <2> QED BY <2>1, <2>2
  <1>2. Replayed(p) = [o \in Object |-> Replayed(p)[o]]
    BY DEF Replayed
  <1> HIDE DEF MemoryType
  <1> QED BY <1>1, <1>2 DEF MemoryType

\* A store is replayed after those before it.
LEMMA ReplayedStore ==
    ASSUME NEW p, p.memory \in MemoryType, p.deltas \in Seq(DeltaType),
           NEW o \in Object, NEW v \in Value
    PROVE  /\ WithDelta(p, o, v).deltas \in Seq(DeltaType)
           /\ Replayed(WithDelta(p, o, v))[o] = v
           /\ \A x \in Object : x # o => Replayed(WithDelta(p, o, v))[x] = Replayed(p)[x]
  <1> DEFINE q == WithDelta(p, o, v)
             n == Len(p.deltas)
  <1>1. /\ q.memory = p.memory /\ q.deltas \in Seq(DeltaType)
        /\ n \in Nat /\ Len(q.deltas) = n + 1
        /\ q.deltas[n + 1].object = o /\ q.deltas[n + 1].value = v
        /\ \A k \in 1 .. n : q.deltas[k] = p.deltas[k]
    BY DEF WithDelta, Delta, DeltaType
  <1> HIDE DEF q
  <1>2. Replayed(q)[o] = v
    <2>1. n + 1 \in StoresTo(q, o) /\ \A k \in StoresTo(q, o) : k <= n + 1
      BY <1>1 DEF StoresTo
    <2> QED BY <1>1, <2>1, LastStore
  <1>3. ASSUME NEW x \in Object, x # o
        PROVE  Replayed(q)[x] = Replayed(p)[x]
    <2>1. StoresTo(q, x) = StoresTo(p, x)
      BY <1>1, <1>3 DEF StoresTo
    <2>2. CASE StoresTo(p, x) = {}
      <3>1. Replayed(p)[x] = p.memory[x] /\ Replayed(q)[x] = q.memory[x]
        BY <1>1, <2>1, <2>2, LastStore
      <3> QED BY <1>1, <3>1
    <2>3. CASE StoresTo(p, x) # {}
      <3>1. StoresTo(p, x) \in SUBSET (1 .. n)
        BY DEF StoresTo
      <3>2. PICK m \in StoresTo(p, x) : \A k \in StoresTo(p, x) : k <= m
        BY <1>1, <2>3, <3>1, Greatest
      <3>3. Replayed(p)[x] = p.deltas[m].value /\ Replayed(q)[x] = q.deltas[m].value
        BY <1>1, <2>1, <3>2, LastStore
      <3> QED BY <1>1, <3>1, <3>2, <3>3
    <2> QED BY <2>2, <2>3
  <1> QED BY <1>1, <1>2, <1>3 DEF q

----------------------------------------------------------------------------
(* What the invariant says of each moment                                  *)

LEMMA OutcomeFacts ==
    ASSUME ThreadInv
    PROVE  /\ AuthTyped(Outcome) /\ OutcomeMemory \in MemoryType
           /\ auth.own \subseteq Outcome.own
           /\ \A o \in Local : auth.loan.lent[o] = 0 => Outcome.loan.lent[o] = 0
           /\ \A o \in auth.own \cup Local : memory[o] = OutcomeMemory[o]
           /\ locked # {} => ~Undecided
           /\ ~Undecided => Outcome = auth /\ OutcomeMemory = memory
  <1>1. CASE ~Undecided
    <2>1. Outcome = auth /\ OutcomeMemory = memory
      BY <1>1 DEF Outcome, OutcomeMemory
    <2> QED BY <1>1, <2>1 DEF ThreadInv, Typed
  <1>2. CASE Undecided
    <2>1. PendingTyped(pending[1])
      BY <1>2 DEF ThreadInv, Typed, Undecided
    <2>2. /\ locked = {}
          /\ auth.own = pending[1].success.own /\ auth.loan = pending[1].success.loan
          /\ auth.own \subseteq pending[1].failure.own
          /\ \A o \in Local : auth.loan.lent[o] = 0 => pending[1].failure.loan.lent[o] = 0
          /\ \A o \in auth.own \cup Local : memory[o] = Replayed(pending[1])[o]
      BY <1>2 DEF ThreadInv, Neutrality
    <2>3. CASE Failed
      <3>1. Outcome = pending[1].failure /\ OutcomeMemory = memory
        BY <1>2, <2>3 DEF Outcome, OutcomeMemory
      <3> QED BY <1>2, <2>1, <2>2, <3>1 DEF PendingTyped, ThreadInv, Typed
    <2>4. CASE ~Failed
      <3>1. Outcome = pending[1].success /\ OutcomeMemory = Replayed(pending[1])
        BY <1>2, <2>4 DEF Outcome, OutcomeMemory
      <3>2. AuthTyped(pending[1].success)
        BY <2>1 DEF PendingTyped
      <3>3. Replayed(pending[1]) \in MemoryType
        BY <2>1, ReplayedTyped DEF PendingTyped
      <3> QED BY <1>2, <2>2, <3>1, <3>2, <3>3
    <2> QED BY <2>3, <2>4
  <1> QED BY <1>1, <1>2

LEMMA WorkerFacts ==
    ASSUME ThreadInv
    PROVE  \A h \in Open(worker) :
              /\ h \in Workers /\ worker[h].task \in Task
              /\ worker[h].state \in {"running", "finished"}
              /\ Outcome.threads.rights[h] = worker[h].task
              /\ Outcome.own \cap Takes[worker[h].task] = {}
  <1>1. worker \in [Workers -> WorkerType]
    BY DEF ThreadInv, Typed
  <1>2. Fits(Outcome, worker)
    BY DEF ThreadInv, Fitting
  <1> QED BY <1>1, <1>2 DEF Open, WorkerType, Fits

\* An open worker that views a local, or uses a mutex, is counted.
LEMMA Counts ==
    ASSUME ThreadInv, NEW h \in Open(worker)
    PROVE  /\ \A o \in Views[worker[h].task] : Outcome.loan.lent[o] # 0
           /\ \A m \in Uses[worker[h].task] : Outcome.threads.mutexWorkers[m] > 0
  <1>0. worker[h].task \in Task /\ IsFiniteSet(Workers) /\ Fits(Outcome, worker)
    BY WorkerFacts DEF ThreadInv, Typed, Fitting
  <1>1. ASSUME NEW o \in Views[worker[h].task]
        PROVE  Outcome.loan.lent[o] # 0
    <2>1. o \in Local /\ Outcome.loan.lent[o] = Cardinality(Viewers(worker, o))
      BY <1>0, ObjectsApart DEF Fits
    <2>2. h \in Viewers(worker, o) BY DEF Viewers
    <2>3. IsFiniteSet(Viewers(worker, o)) BY <1>0, FiniteOpen DEF Workers
    <2>4. Cardinality(Viewers(worker, o)) # 0
      BY <2>2, <2>3, FS_EmptySet
    <2> QED BY <2>1, <2>4
  <1>2. ASSUME NEW m \in Uses[worker[h].task]
        PROVE  Outcome.threads.mutexWorkers[m] > 0
    <2>1. m \in Mutex /\ Outcome.threads.mutexWorkers[m] = Cardinality(Users(worker, m))
      BY <1>0, ObjectsApart DEF Fits
    <2>2. h \in Users(worker, m) BY DEF Users
    <2>3. IsFiniteSet(Users(worker, m)) /\ Cardinality(Users(worker, m)) \in Nat
      BY <1>0, FiniteOpen DEF Workers
    <2>4. Cardinality(Users(worker, m)) # 0
      BY <2>2, <2>3, FS_EmptySet
    <2> QED BY <2>1, <2>3, <2>4
  <1> QED BY <1>1, <1>2

\* What the parent may write no open worker takes, views, or may write.
LEMMA WritesApart ==
    ASSUME ThreadInv, NEW o \in Object, MayWrite(auth, o), NEW h \in Open(worker)
    PROVE  /\ o \notin Takes[worker[h].task] /\ o \notin Views[worker[h].task]
           /\ \A m \in Uses[worker[h].task] : m \notin locked => Payload[m] # o
  <1>0. worker[h].task \in Task /\ Outcome.own \cap Takes[worker[h].task] = {}
    BY WorkerFacts
  <1>1. /\ Takes[worker[h].task] \subseteq Cell /\ Views[worker[h].task] \subseteq Local
        /\ Uses[worker[h].task] \subseteq Mutex
    BY <1>0, ObjectsApart
  <1>2. CASE o \in Cell
    <2>0. o \notin Local /\ o \notin Guarded BY <1>2, ObjectsApart DEF Guarded
    <2>1. o \in auth.own BY <1>2, <2>0 DEF MayWrite
    <2>2. o \notin Takes[worker[h].task] BY <1>0, <2>1, OutcomeFacts
    <2> QED BY <1>1, <1>2, <2>2, ObjectsApart
  <1>3. CASE o \in Local
    <2>1. o \notin Cell /\ o \notin Guarded BY <1>3, ObjectsApart DEF Guarded
    <2>2. auth.loan.lent[o] = 0 BY <1>3, <2>1 DEF MayWrite
    <2>3. Outcome.loan.lent[o] = 0 BY <1>3, <2>2, OutcomeFacts
    <2> QED BY <1>1, <1>3, <2>1, <2>3, Counts, ObjectsApart
  <1>4. CASE o \notin Cell /\ o \notin Local
    <2>1. MayUsePayload(o) BY <1>4 DEF MayWrite, Object
    <2>2. PICK n \in locked : Payload[n] = o BY <2>1 DEF MayUsePayload
    <2>3. n \in Mutex BY DEF ThreadInv, Typed
    <2> QED BY <1>1, <1>4, <2>2, <2>3, ObjectsApart
  <1> QED BY <1>2, <1>3, <1>4

----------------------------------------------------------------------------
(* Steps that leave the authority and the creation in question alone       *)

\* w2 has the open workers of w, and the failed creations of w.
SameWorkers(w, w2) ==
    /\ DOMAIN w2 = DOMAIN w
    /\ Open(w2) = Open(w)
    /\ \A h \in DOMAIN w : /\ w2[h].task = w[h].task
                           /\ w2[h].state = "failed" <=> w[h].state = "failed"
                           /\ w[h].state # "joined" => w2[h].state # "joined"

LEMMA FittingKept ==
    ASSUME ThreadInv, UNCHANGED <<auth, pending, nextHandle>>,
           worker' \in [Workers' -> WorkerType], SameWorkers(worker, worker')
    PROVE  /\ Outcome' = Outcome
           /\ Undecided' <=> Undecided
           /\ Undecided => (Failed' <=> Failed)
           /\ Fitting' /\ Traces'
           /\ Undecided => PendingTyped(pending[1])'
           /\ IsFiniteSet(Workers') /\ \A h \in Workers' : h \in Nat /\ h < nextHandle'
  <1>1. Undecided' <=> Undecided
    BY DEF Undecided
  <1>2. Undecided => PendingTyped(pending[1])
    BY DEF ThreadInv, Typed, Undecided
  <1>3. Undecided => (Failed' <=> Failed)
    BY <1>2 DEF Failed, SameWorkers, PendingTyped, Workers
  <1>4. Outcome' = Outcome
    BY <1>1, <1>3 DEF Outcome
  <1>5. Open(worker') = Open(worker) /\ \A h \in Open(worker) : worker'[h].task = worker[h].task
    BY DEF SameWorkers, Open
  <1>6. Fitting'
    <2>1. Fits(Outcome, worker) /\ Distinct(worker)
      BY DEF ThreadInv, Fitting
    <2>2. Fits(Outcome, worker')
      BY <1>5, <2>1, FitsSame
    <2>3. Distinct(worker')
      BY <1>5, <2>1 DEF Distinct
    <2> QED BY <1>4, <2>2, <2>3 DEF Fitting
  <1>7. Traces'
    BY <1>1 DEF ThreadInv, Traces
  <1>8. Undecided => PendingTyped(pending[1])'
    BY <1>2 DEF PendingTyped, SameWorkers, Workers
  <1>9. IsFiniteSet(Workers') /\ \A h \in Workers' : h \in Nat /\ h < nextHandle'
    BY DEF ThreadInv, Typed, SameWorkers, Workers
  <1> QED BY <1>1, <1>3, <1>4, <1>6, <1>7, <1>8, <1>9

LEMMA SameWorkersItself == ASSUME NEW w PROVE SameWorkers(w, w)
  BY DEF SameWorkers

\* The parent neither stores, locks, creates nor joins.
LEMMA QuietStep ==
    ASSUME ThreadInv, UNCHANGED <<auth, memory, pending, locked, nextHandle, worker, bytes>>,
           Undecided => joining' = {} /\ ~returned',
           joining' \subseteq DOMAIN auth.threads.rights,
           returned' => joining' = {} /\ Open(worker) = {}
    PROVE  ThreadInv'
  <1>0. worker' \in [Workers' -> WorkerType] /\ SameWorkers(worker, worker')
    BY SameWorkersItself DEF ThreadInv, Typed, Workers
  <1>1. /\ Outcome' = Outcome /\ (Undecided' <=> Undecided) /\ (Undecided => (Failed' <=> Failed))
        /\ Fitting' /\ Traces'
        /\ Undecided => PendingTyped(pending[1])'
        /\ IsFiniteSet(Workers') /\ \A h \in Workers' : h \in Nat /\ h < nextHandle'
    BY <1>0, FittingKept
  <1>2. OutcomeMemory' = OutcomeMemory
    BY <1>1 DEF OutcomeMemory
  <1>3. Typed'
    BY <1>0, <1>1 DEF ThreadInv, Typed, Undecided
  <1>4. Remembered'
    <2>1. Known(OutcomeMemory, bytes) /\ Hidden(OutcomeMemory, worker, locked)
      BY DEF ThreadInv, Remembered
    <2>2. Known(OutcomeMemory', bytes') /\ Hidden(OutcomeMemory', worker', locked')
      BY <1>2, <2>1
    <2> QED BY <2>2 DEF Remembered
  <1>5. Neutrality'
    BY <1>1 DEF ThreadInv, Neutrality
  <1>6. Waiting'
    BY DEF Waiting
  <1> QED BY <1>1, <1>3, <1>4, <1>5, <1>6 DEF ThreadInv

LEMMA StartJoinStep == ASSUME ThreadInv, NEW h, StartJoin(h) PROVE ThreadInv'
  <1>1. /\ UNCHANGED <<auth, memory, pending, locked, nextHandle, worker, bytes, returned>>
        /\ joining' = {h} /\ h \in DOMAIN auth.threads.rights /\ ~returned /\ ~Undecided
    BY DEF StartJoin, MayUseThreads, Idle, Undecided
  <1> QED BY <1>1, QuietStep

LEMMA ReturnStep == ASSUME ThreadInv, Return PROVE ThreadInv'
  <1>1. /\ UNCHANGED <<auth, memory, pending, locked, nextHandle, worker, bytes, joining>>
        /\ joining = {} /\ ~Undecided /\ DOMAIN auth.threads.rights = {}
    BY DEF Return, Idle, HasLiveCompletion, Undecided
  <1>2. Open(worker) = {}
    <2>1. Outcome = auth BY <1>1, OutcomeFacts
    <2> QED BY <1>1, <2>1 DEF ThreadInv, Fitting, Fits
  <1> QED BY <1>1, <1>2, QuietStep

LEMMA StutterStep == ASSUME ThreadInv, UNCHANGED vars PROVE ThreadInv'
  <1>1. UNCHANGED <<auth, memory, pending, locked, nextHandle, worker, bytes, joining, returned>>
    BY DEF vars
  <1> QED BY <1>1, QuietStep DEF ThreadInv, Neutrality, Waiting

LEMMA WorkerFinishStep ==
    ASSUME ThreadInv, NEW h \in Workers, WorkerFinish(h) PROVE ThreadInv'
  <1>1. /\ UNCHANGED <<auth, memory, pending, locked, nextHandle, returned, bytes, joining>>
        /\ worker[h].state = "running" /\ worker' = [worker EXCEPT ![h].state = "finished"]
    BY DEF WorkerFinish
  <1>2. worker \in [Workers -> WorkerType]
    BY DEF ThreadInv, Typed
  <1>3. /\ DOMAIN worker' = Workers
        /\ worker'[h].task = worker[h].task /\ worker'[h].state = "finished"
        /\ \A g \in Workers : g # h => worker'[g] = worker[g]
    BY <1>1, <1>2 DEF WorkerType
  <1>4. worker' \in [Workers' -> WorkerType]
    BY <1>1, <1>2 DEF WorkerType, Workers
  <1>5. SameWorkers(worker, worker')
    BY <1>1, <1>3 DEF SameWorkers, Open, Workers
  <1>6. /\ Outcome' = Outcome /\ (Undecided' <=> Undecided) /\ (Undecided => (Failed' <=> Failed))
        /\ Fitting' /\ Traces'
        /\ Undecided => PendingTyped(pending[1])'
        /\ IsFiniteSet(Workers') /\ \A g \in Workers' : g \in Nat /\ g < nextHandle'
    BY <1>1, <1>4, <1>5, FittingKept
  <1>7. OutcomeMemory' = OutcomeMemory
    BY <1>1, <1>6 DEF OutcomeMemory
  <1>8. Typed'
    BY <1>1, <1>4, <1>6 DEF ThreadInv, Typed, Undecided
  <1>9. Remembered'
    <2>1. Known(OutcomeMemory, bytes) /\ Hidden(OutcomeMemory, worker, locked)
      BY DEF ThreadInv, Remembered
    <2>2. Open(worker') = Open(worker) /\ \A g \in Open(worker) : worker'[g].task = worker[g].task
      BY <1>5 DEF SameWorkers, Open
    <2>3. Hidden(OutcomeMemory, worker', locked)
      BY <2>1, <2>2 DEF Hidden
    <2>4. Known(OutcomeMemory', bytes') /\ Hidden(OutcomeMemory', worker', locked')
      BY <1>1, <1>7, <2>1, <2>3
    <2> QED BY <2>4 DEF Remembered
  <1>10. Neutrality'
    BY <1>1, <1>6 DEF ThreadInv, Neutrality
  <1>11. Waiting'
    BY <1>1, <1>5 DEF ThreadInv, Waiting, SameWorkers
  <1> QED BY <1>6, <1>8, <1>9, <1>10, <1>11 DEF ThreadInv

----------------------------------------------------------------------------
(* Steps that change memory                                                *)

LEMMA BytesTyped ==
    ASSUME NEW b \in [Object -> Value], NEW o \in Object, NEW v \in Value
    PROVE  [b EXCEPT ![o] = v] \in [Object -> Value]
  OBVIOUS

LEMMA WorkerStoreStep ==
    ASSUME ThreadInv, NEW h \in Workers, NEW o \in Object, NEW v \in Value, WorkerStore(h, o, v)
    PROVE  ThreadInv'
  <1>1. /\ UNCHANGED <<auth, memory, pending, locked, nextHandle, returned, worker, joining>>
        /\ worker[h].state = "running" /\ bytes' = [bytes EXCEPT ![o] = v]
        /\ \/ o \in Takes[worker[h].task]
           \/ \E m \in Uses[worker[h].task] \ locked : o = Payload[m]
    BY DEF WorkerStore
  <1>2. /\ worker' \in [Workers' -> WorkerType] /\ SameWorkers(worker, worker')
        /\ bytes \in [Object -> Value] /\ bytes' \in [Object -> Value]
    BY <1>1, SameWorkersItself, BytesTyped DEF ThreadInv, Typed, Workers
  <1>3. /\ Outcome' = Outcome /\ (Undecided' <=> Undecided) /\ (Undecided => (Failed' <=> Failed))
        /\ Fitting' /\ Traces'
        /\ Undecided => PendingTyped(pending[1])'
        /\ IsFiniteSet(Workers') /\ \A g \in Workers' : g \in Nat /\ g < nextHandle'
    BY <1>1, <1>2, FittingKept
  <1>4. OutcomeMemory' = OutcomeMemory
    BY <1>1, <1>3 DEF OutcomeMemory
  <1>5. Typed'
    BY <1>1, <1>2, <1>3 DEF ThreadInv, Typed, Undecided
  <1>6. Remembered'
    <2>1. Known(OutcomeMemory, bytes) /\ Hidden(OutcomeMemory, worker, locked)
      BY DEF ThreadInv, Remembered
    <2>2. h \in Open(worker)
      BY <1>1 DEF Open, Workers
    <2>3. OutcomeMemory[o] = None
      BY <1>1, <2>1, <2>2 DEF Hidden
    <2>4. \A x \in Object : x # o => bytes'[x] = bytes[x]
      BY <1>1, <1>2
    <2>5. Known(OutcomeMemory, bytes')
      BY <2>1, <2>3, <2>4 DEF Known
    <2>6. Known(OutcomeMemory', bytes') /\ Hidden(OutcomeMemory', worker', locked')
      BY <1>1, <1>4, <2>1, <2>5
    <2> QED BY <2>6 DEF Remembered
  <1>7. Neutrality' /\ Waiting'
    BY <1>1, <1>3 DEF ThreadInv, Neutrality, Waiting
  <1> QED BY <1>3, <1>5, <1>6, <1>7 DEF ThreadInv

\* Locking or unlocking m, with the memory that leaves.
GuardStep(m) ==
    /\ m \in Mutex
    /\ UNCHANGED <<auth, pending, nextHandle, returned, worker, bytes, joining>>
    /\ ~Undecided /\ joining = {} /\ ~returned
    /\ FreshenPayload(m)
    /\ locked' \in SUBSET Mutex
    /\ locked \ locked' \subseteq {m}

LEMMA GuardStepKeeps == ASSUME ThreadInv, NEW m, GuardStep(m) PROVE ThreadInv'
  <1>1. /\ UNCHANGED <<auth, pending, nextHandle, returned, worker, bytes, joining>>
        /\ m \in Mutex /\ ~Undecided /\ joining = {} /\ ~returned
        /\ locked' \in SUBSET Mutex /\ locked \ locked' \subseteq {m}
    BY DEF GuardStep
  <1>2. worker' \in [Workers' -> WorkerType] /\ SameWorkers(worker, worker')
    BY <1>1, SameWorkersItself DEF ThreadInv, Typed, Workers
  <1>3. /\ Outcome' = Outcome /\ ~Undecided'
        /\ Fitting' /\ Traces'
        /\ IsFiniteSet(Workers') /\ \A g \in Workers' : g \in Nat /\ g < nextHandle'
    BY <1>1, <1>2, FittingKept
  <1>4. /\ OutcomeMemory = memory /\ Outcome = auth /\ OutcomeMemory' = memory'
        /\ memory \in MemoryType
    BY <1>1, <1>3, OutcomeFacts DEF OutcomeMemory, ThreadInv, Typed
  <1>5. /\ memory' \in MemoryType
        /\ \A x \in Object : memory'[x] = memory[x] \/ memory'[x] = None
        /\ auth.threads.mutexWorkers[m] > 0 => memory'[Payload[m]] = None
    <2>1. Payload[m] \in Object
      BY <1>1, ObjectsApart
    <2>2. CASE auth.threads.mutexWorkers[m] > 0
      <3>1. memory' = [memory EXCEPT ![Payload[m]] = None]
        BY <2>2 DEF GuardStep, FreshenPayload
      <3> QED BY <1>4, <2>1, <3>1 DEF MemoryType
    <2>3. CASE ~(auth.threads.mutexWorkers[m] > 0)
      <3>1. memory' = memory
        BY <2>3 DEF GuardStep, FreshenPayload
      <3> QED BY <1>4, <2>3, <3>1 DEF MemoryType
    <2> QED BY <2>2, <2>3
  <1>6. Typed'
    BY <1>1, <1>2, <1>3, <1>5 DEF ThreadInv, Typed, Undecided
  <1>7. Remembered'
    <2>1. Known(memory, bytes) /\ Hidden(memory, worker, locked)
      BY <1>4 DEF ThreadInv, Remembered
    <2>2. Known(memory', bytes)
      BY <1>5, <2>1 DEF Known
    <2>3. Hidden(memory', worker, locked')
      <3> SUFFICES ASSUME NEW h \in Open(worker)
                   PROVE  /\ \A o \in Takes[worker[h].task] : memory'[o] = None
                          /\ \A n \in Uses[worker[h].task] : n \notin locked' => memory'[Payload[n]] = None
        BY DEF Hidden
      <3>1. worker[h].task \in Task BY WorkerFacts
      <3>2. \A o \in Takes[worker[h].task] : memory'[o] = None
        <4>1. \A o \in Takes[worker[h].task] : o \in Object BY <3>1, ObjectsApart
        <4>2. \A o \in Takes[worker[h].task] : memory[o] = None BY <2>1 DEF Hidden
        <4> QED BY <1>5, <4>1, <4>2
      <3>3. ASSUME NEW n \in Uses[worker[h].task], n \notin locked'
            PROVE  memory'[Payload[n]] = None
        <4>1. Payload[n] \in Object BY <3>1, ObjectsApart
        <4>2. CASE n = m
          <5>1. auth.threads.mutexWorkers[m] > 0 BY <1>4, <4>2, Counts
          <5> QED BY <1>5, <4>2, <5>1
        <4>3. CASE n # m
          <5>1. n \notin locked BY <1>1, <3>3, <4>3
          <5>2. memory[Payload[n]] = None BY <2>1, <5>1 DEF Hidden
          <5> QED BY <1>5, <4>1, <5>2
        <4> QED BY <4>2, <4>3
      <3> QED BY <3>2, <3>3
    <2>4. Known(OutcomeMemory', bytes') /\ Hidden(OutcomeMemory', worker', locked')
      BY <1>1, <1>4, <2>2, <2>3
    <2> QED BY <2>4 DEF Remembered
  <1>8. Neutrality' /\ Waiting'
    BY <1>1, <1>3 DEF ThreadInv, Neutrality, Waiting
  <1> QED BY <1>3, <1>6, <1>7, <1>8 DEF ThreadInv

LEMMA LockStep ==
    ASSUME ThreadInv, NEW m \in Mutex, Lock(m) \/ Unlock(m) PROVE ThreadInv'
  <1>1. locked \in SUBSET Mutex
    BY DEF ThreadInv, Typed
  <1>2. GuardStep(m)
    BY <1>1 DEF Lock, Unlock, Idle, GuardStep, Undecided
  <1> QED BY <1>2, GuardStepKeeps

LEMMA StoreStep ==
    ASSUME ThreadInv, NEW o \in Object, NEW v \in Value, Store(o, v) PROVE ThreadInv'
  <1>1. /\ UNCHANGED <<auth, locked, nextHandle, returned, worker, joining>>
        /\ memory' = [memory EXCEPT ![o] = v] /\ bytes' = [bytes EXCEPT ![o] = v]
        /\ MayWrite(auth, o)
        /\ ~Undecided => pending' = pending
        /\ Undecided => pending' = <<WithDelta(pending[1], o, v)>>
    BY DEF Store, Undecided
  <1>2. Undecided' <=> Undecided
    BY <1>1 DEF Undecided
  <1>3. Undecided => PendingTyped(pending[1])
    BY DEF ThreadInv, Typed, Undecided
  <1>4. Undecided =>
           /\ pending'[1].success = pending[1].success /\ pending'[1].failure = pending[1].failure
           /\ pending'[1].handle = pending[1].handle /\ pending'[1].memory = pending[1].memory
           /\ pending'[1].deltas \in Seq(DeltaType)
           /\ Replayed(pending'[1])[o] = v
           /\ \A x \in Object : x # o => Replayed(pending'[1])[x] = Replayed(pending[1])[x]
    <2> SUFFICES ASSUME Undecided
                 PROVE  /\ pending'[1].success = pending[1].success /\ pending'[1].failure = pending[1].failure
                        /\ pending'[1].handle = pending[1].handle /\ pending'[1].memory = pending[1].memory
                        /\ pending'[1].deltas \in Seq(DeltaType)
                        /\ Replayed(pending'[1])[o] = v
                        /\ \A x \in Object : x # o => Replayed(pending'[1])[x] = Replayed(pending[1])[x]
      OBVIOUS
    <2>1. pending'[1] = WithDelta(pending[1], o, v)
      BY <1>1
    <2>2. /\ WithDelta(pending[1], o, v).deltas \in Seq(DeltaType)
          /\ Replayed(WithDelta(pending[1], o, v))[o] = v
          /\ \A x \in Object : x # o =>
                Replayed(WithDelta(pending[1], o, v))[x] = Replayed(pending[1])[x]
      BY <1>3, ReplayedStore DEF PendingTyped
    <2>3. /\ WithDelta(pending[1], o, v).success = pending[1].success
          /\ WithDelta(pending[1], o, v).failure = pending[1].failure
          /\ WithDelta(pending[1], o, v).handle = pending[1].handle
          /\ WithDelta(pending[1], o, v).memory = pending[1].memory
      BY DEF WithDelta
    <2> QED BY <2>1, <2>2, <2>3
  <1>5. Undecided => (Failed' <=> Failed)
    BY <1>1, <1>4 DEF Failed
  <1>6. Outcome' = Outcome
    BY <1>1, <1>2, <1>4, <1>5 DEF Outcome
  <1>7. /\ memory \in MemoryType /\ memory' \in MemoryType
        /\ memory'[o] = v /\ \A x \in Object : x # o => memory'[x] = memory[x]
    BY <1>1 DEF ThreadInv, Typed, MemoryType
  <1>8. /\ bytes' \in [Object -> Value]
        /\ bytes'[o] = v /\ \A x \in Object : x # o => bytes'[x] = bytes[x]
    BY <1>1 DEF ThreadInv, Typed
  <1>9. OutcomeMemory'[o] = v /\ \A x \in Object : x # o => OutcomeMemory'[x] = OutcomeMemory[x]
    <2>1. CASE ~Undecided \/ Failed
      <3>1. OutcomeMemory = memory /\ OutcomeMemory' = memory'
        BY <1>2, <1>5, <2>1 DEF OutcomeMemory
      <3> QED BY <1>7, <3>1
    <2>2. CASE Undecided /\ ~Failed
      <3>1. OutcomeMemory = Replayed(pending[1]) /\ OutcomeMemory' = Replayed(pending'[1])
        BY <1>2, <1>5, <2>2 DEF OutcomeMemory
      <3> QED BY <1>4, <2>2, <3>1
    <2> QED BY <2>1, <2>2
  <1>10. Typed'
    <2>1. Undecided => PendingTyped(pending[1])'
      BY <1>1, <1>3, <1>4 DEF PendingTyped, Workers
    <2> QED BY <1>1, <1>2, <1>7, <1>8, <2>1 DEF ThreadInv, Typed, Undecided, Workers
  <1>11. Fitting'
    <2>1. Fits(Outcome', worker') /\ Distinct(worker')
      BY <1>1, <1>6 DEF ThreadInv, Fitting
    <2> QED BY <2>1 DEF Fitting
  <1>12. Remembered'
    <2>1. Known(OutcomeMemory, bytes) /\ Hidden(OutcomeMemory, worker, locked)
      BY DEF ThreadInv, Remembered
    <2>2. Known(OutcomeMemory', bytes')
      BY <1>8, <1>9, <2>1 DEF Known
    <2>3. Hidden(OutcomeMemory', worker, locked)
      <3> SUFFICES ASSUME NEW h \in Open(worker)
                   PROVE  /\ \A x \in Takes[worker[h].task] : OutcomeMemory'[x] = None
                          /\ \A n \in Uses[worker[h].task] : n \notin locked => OutcomeMemory'[Payload[n]] = None
        BY DEF Hidden
      <3>1. worker[h].task \in Task BY WorkerFacts
      <3>2. /\ \A x \in Takes[worker[h].task] : x \in Object /\ x # o /\ OutcomeMemory[x] = None
            /\ \A n \in Uses[worker[h].task] : n \notin locked =>
                  Payload[n] \in Object /\ Payload[n] # o /\ OutcomeMemory[Payload[n]] = None
        BY <1>1, <2>1, <3>1, WritesApart, ObjectsApart DEF Hidden
      <3> QED BY <1>9, <3>2
    <2>4. Known(OutcomeMemory', bytes') /\ Hidden(OutcomeMemory', worker', locked')
      BY <1>1, <2>2, <2>3
    <2> QED BY <2>4 DEF Remembered
  <1>13. Neutrality'
    <2> SUFFICES ASSUME Undecided'
                 PROVE  /\ locked' = {} /\ joining' = {} /\ ~returned'
                        /\ auth'.own = pending'[1].success.own /\ auth'.loan = pending'[1].success.loan
                        /\ auth'.own \subseteq pending'[1].failure.own
                        /\ \A x \in Local : auth'.loan.lent[x] = 0 => pending'[1].failure.loan.lent[x] = 0
                        /\ \A x \in auth'.own \cup Local : memory'[x] = Replayed(pending'[1])[x]
      BY DEF Neutrality
    <2>0. Undecided BY <1>2
    <2>1. \A x \in auth.own \cup Local : memory[x] = Replayed(pending[1])[x]
      BY <2>0 DEF ThreadInv, Neutrality
    <2>2. auth.own \cup Local \subseteq Object
      BY ObjectsApart DEF ThreadInv, Typed, AuthTyped
    <2>3. \A x \in auth.own \cup Local : memory'[x] = Replayed(pending'[1])[x]
      BY <1>4, <1>7, <2>0, <2>1, <2>2
    <2> QED BY <1>1, <1>4, <2>0, <2>3 DEF ThreadInv, Neutrality
  <1>14. Waiting'
    BY <1>1 DEF ThreadInv, Waiting
  <1>15. Traces'
    <2>1. Traced(auth) /\ (Undecided => Traced(pending[1].success) /\ Traced(pending[1].failure))
      BY DEF ThreadInv, Traces
    <2>2. Traced(auth') /\ (Undecided' => Traced(pending'[1].success) /\ Traced(pending'[1].failure))
      BY <1>1, <1>2, <1>4, <2>1
    <2> QED BY <2>2 DEF Traces
  <1> QED BY <1>10, <1>11, <1>12, <1>13, <1>14, <1>15 DEF ThreadInv

----------------------------------------------------------------------------
(* The parent learns what happened                                         *)

LEMMA ResolveStep ==
    ASSUME ThreadInv, ResolveSuccess \/ ResolveFailure PROVE ThreadInv'
  <1>1. /\ UNCHANGED <<locked, nextHandle, returned, worker, bytes, joining>>
        /\ Undecided /\ ~Undecided' /\ pending' = <<>>
        /\ auth' = Outcome /\ memory' = OutcomeMemory
        /\ auth' = pending[1].success \/ auth' = pending[1].failure
    <2>1. CASE ResolveSuccess
      BY <2>1 DEF ResolveSuccess, Outcome, OutcomeMemory, Undecided, Failed
    <2>2. CASE ResolveFailure
      BY <2>2 DEF ResolveFailure, Outcome, OutcomeMemory, Undecided, Failed
    <2> QED BY <2>1, <2>2
  <1>2. Outcome' = Outcome /\ OutcomeMemory' = OutcomeMemory
    BY <1>1 DEF Outcome, OutcomeMemory
  <1>3. AuthTyped(Outcome) /\ OutcomeMemory \in MemoryType
    BY OutcomeFacts
  <1>4. Typed'
    <2>1. AuthTyped(auth') /\ memory' \in MemoryType
      BY <1>1, <1>3
    <2> QED BY <1>1, <2>1 DEF ThreadInv, Typed, Undecided, Workers
  <1>5. Fitting'
    <2>1. Fits(Outcome', worker') /\ Distinct(worker')
      BY <1>1, <1>2 DEF ThreadInv, Fitting
    <2> QED BY <2>1 DEF Fitting
  <1>6. Remembered'
    <2>1. Known(OutcomeMemory', bytes') /\ Hidden(OutcomeMemory', worker', locked')
      BY <1>1, <1>2 DEF ThreadInv, Remembered
    <2> QED BY <2>1 DEF Remembered
  <1>7. Neutrality'
    BY <1>1 DEF Neutrality
  <1>8. Waiting'
    <2>1. joining = {} /\ ~returned
      BY <1>1 DEF ThreadInv, Neutrality
    <2>2. joining' = {} /\ ~returned'
      BY <1>1, <2>1
    <2> QED BY <2>2 DEF Waiting
  <1>9. Traces'
    <2>1. Traced(auth')
      BY <1>1 DEF ThreadInv, Traces
    <2> QED BY <1>1, <2>1 DEF Traces
  <1> QED BY <1>4, <1>5, <1>6, <1>7, <1>8, <1>9 DEF ThreadInv

----------------------------------------------------------------------------
(* Steps of the loan ledger                                                *)

LEMMA LoanAfterFacts ==
    ASSUME AuthTyped(auth), NEW kind \in Kind, NEW lent
    PROVE  /\ LoanAfter(kind, lent).steps = Append(auth.loan.steps, kind)
           /\ LoanAfter(kind, lent).steps \in Seq(Kind)
           /\ LoanAfter(kind, lent).lent = lent
  BY DEF LoanAfter, AuthTyped

LEMMA OtherLoanStepKeeps == ASSUME ThreadInv, OtherLoanStep PROVE ThreadInv'
  <1>1. /\ UNCHANGED <<memory, pending, locked, nextHandle, returned, worker, bytes, joining>>
        /\ ~Undecided /\ ~Undecided' /\ joining = {} /\ ~returned
        /\ auth'.own = auth.own /\ auth'.threads = auth.threads
        /\ auth'.loan = LoanAfter("other", auth.loan.lent)
    BY DEF OtherLoanStep, Idle, Undecided
  <1>2. AuthTyped(auth) /\ Traced(auth) /\ "other" \in Kind
    BY DEF ThreadInv, Typed, Traces, Kind
  <1>3. /\ auth'.loan.steps = Append(auth.loan.steps, "other")
        /\ auth'.loan.steps \in Seq(Kind)
        /\ auth'.loan.lent = auth.loan.lent
    BY <1>1, <1>2, LoanAfterFacts
  <1>4. /\ Outcome = auth /\ OutcomeMemory = memory
        /\ Outcome' = auth' /\ OutcomeMemory' = memory
    BY <1>1, OutcomeFacts DEF Outcome, OutcomeMemory
  <1>5. Typed'
    <2>1. AuthTyped(auth')
      BY <1>1, <1>2, <1>3 DEF AuthTyped
    <2> QED BY <1>1, <2>1 DEF ThreadInv, Typed, Undecided, Workers
  <1>6. Fitting'
    <2>1. Fits(auth, worker) /\ Distinct(worker)
      BY <1>4 DEF ThreadInv, Fitting
    <2>2. Fits(auth', worker)
      BY <1>1, <1>3, <2>1, FitsSame
    <2>3. Fits(Outcome', worker') /\ Distinct(worker')
      BY <1>1, <1>4, <2>1, <2>2
    <2> QED BY <2>3 DEF Fitting
  <1>7. Remembered'
    <2>1. Known(OutcomeMemory', bytes') /\ Hidden(OutcomeMemory', worker', locked')
      BY <1>1, <1>4 DEF ThreadInv, Remembered
    <2> QED BY <2>1 DEF Remembered
  <1>8. Neutrality' /\ Waiting'
    BY <1>1 DEF Neutrality, Waiting
  <1>9. Traces'
    <2>1. Traced(auth')
      BY <1>1, <1>2, <1>3, TracedLeft DEF AuthTyped
    <2> QED BY <1>1, <2>1 DEF Traces
  <1> QED BY <1>5, <1>6, <1>7, <1>8, <1>9 DEF ThreadInv

LEMMA FinishJoinStep ==
    ASSUME ThreadInv, NEW h \in joining, FinishJoin(h) PROVE ThreadInv'
  <1> DEFINE t == auth.threads.rights[h]
             lent == [o \in Local |-> auth.loan.lent[o] - IF o \in Views[t] THEN 1 ELSE 0]
             loan == LoanAfter("join", lent)
             threads == WithoutRight(auth.threads, h, auth.loan.steps,
                                     loan.steps, {o \in Views[t] : lent[o] = 0})
  <1>1. /\ UNCHANGED <<memory, pending, locked, nextHandle, returned, bytes>>
        /\ worker[h].state = "finished"
        /\ worker' = [worker EXCEPT ![h].state = "joined"]
        /\ joining' = {}
        /\ auth' = [own |-> auth.own \cup Takes[t], loan |-> loan, threads |-> threads]
    BY DEF FinishJoin
  <1>2. /\ ~Undecided /\ ~Undecided' /\ ~returned
        /\ h \in DOMAIN auth.threads.rights
    BY <1>1 DEF ThreadInv, Neutrality, Waiting, Undecided
  <1>3. /\ Outcome = auth /\ OutcomeMemory = memory
        /\ Outcome' = auth' /\ OutcomeMemory' = memory
    BY <1>1, <1>2, OutcomeFacts DEF Outcome, OutcomeMemory
  <1>4. /\ AuthTyped(auth) /\ Traced(auth) /\ worker \in [Workers -> WorkerType]
        /\ IsFiniteSet(DOMAIN worker) /\ Fits(auth, worker) /\ Distinct(worker)
        /\ "join" \in Kind /\ "join" \in {"create", "join"}
    BY <1>3 DEF ThreadInv, Typed, Traces, Kind, Fitting, Workers
  <1>5. h \in Open(worker) /\ t = worker[h].task /\ t \in Task /\ h \in Workers
    BY <1>2, <1>3, <1>4, WorkerFacts DEF Fits
  <1>6. /\ DOMAIN worker' = Workers
        /\ worker'[h].task = worker[h].task /\ worker'[h].state = "joined"
        /\ \A g \in Workers : g # h => worker'[g] = worker[g]
        /\ worker' \in [Workers -> WorkerType]
    BY <1>1, <1>4, <1>5 DEF WorkerType
  <1>7. OneOpened(worker', worker, h, t)
    BY <1>5, <1>6 DEF OneOpened, Open, Workers
  <1>8. /\ auth'.own = auth.own \cup Takes[t]
        /\ auth'.loan = loan /\ auth'.threads = threads
    BY <1>1
  <1>9. /\ loan.steps = Append(auth.loan.steps, "join")
        /\ loan.steps \in Seq(Kind) /\ loan.lent = lent
    BY <1>4, LoanAfterFacts
  <1>10. /\ threads.rights = WithoutKey(auth.threads.rights, h)
         /\ threads.trace = AdvancedTrace(auth.threads, auth.loan.steps, loan.steps)
         /\ threads.mutexWorkers = Uncounted(auth.threads, t)
    BY DEF WithoutRight
  <1> HIDE DEF threads, loan
  <1>11. /\ DOMAIN auth'.threads.rights = DOMAIN auth.threads.rights \ {h}
         /\ \A g \in DOMAIN auth.threads.rights : g # h => auth'.threads.rights[g] = auth.threads.rights[g]
    BY <1>8, <1>10 DEF WithoutKey
  <1>12. \A g \in Open(worker') : auth'.threads.rights[g] = auth.threads.rights[g]
    BY <1>4, <1>7, <1>11 DEF OneOpened, Fits
  <1>13. /\ auth'.loan.lent = lent
         /\ \A o \in Local : auth'.loan.lent[o] = auth.loan.lent[o] - IF o \in Views[t] THEN 1 ELSE 0
    BY <1>8, <1>9
  <1>14. /\ auth'.threads.mutexWorkers = [m \in Mutex |-> auth'.threads.mutexWorkers[m]]
         /\ \A m \in Mutex : auth'.threads.mutexWorkers[m]
                = auth.threads.mutexWorkers[m] - IF m \in Uses[t] THEN 1 ELSE 0
    BY <1>8, <1>10 DEF Uncounted
  <1> HIDE DEF t, lent
  <1>15. /\ Fits(auth', worker')
         /\ \A o \in Local : auth'.loan.lent[o] \in Nat
         /\ \A m \in Mutex : auth'.threads.mutexWorkers[m] \in Nat
    <2>1. Regained(auth, auth', worker', h, t)
      BY <1>8, <1>11, <1>12, <1>13, <1>14 DEF Regained
    <2>2. IsFiniteSet(DOMAIN worker) /\ Fits(auth, worker) /\ Distinct(worker) /\ t \in Task
      BY <1>4, <1>5
    <2> QED BY ONLY <1>7, <2>1, <2>2, FitsClosed
  <1>16. AuthTyped(auth')
    <2>1. auth'.own \in SUBSET Cell
      BY <1>4, <1>5, <1>8, ObjectsApart DEF AuthTyped
    <2>2. auth'.loan.lent \in [Local -> Nat]
      BY <1>13, <1>15 DEF lent
    <2>3. auth'.threads.mutexWorkers \in [Mutex -> Nat]
      BY <1>14, <1>15
    <2>4. auth'.loan.steps \in Seq(Kind)
      BY <1>8, <1>9
    <2> QED BY <2>1, <2>2, <2>3, <2>4 DEF AuthTyped
  <1>17. Typed'
    BY <1>1, <1>2, <1>6, <1>16 DEF ThreadInv, Typed, Undecided, Workers
  <1>18. Open(worker') \subseteq Open(worker)
         /\ \A g \in Open(worker') : worker'[g].task = worker[g].task
    BY <1>7 DEF OneOpened
  <1>19. Fitting'
    <2>1. Distinct(worker')
      BY <1>4, <1>18 DEF Distinct
    <2>2. Fits(Outcome', worker') /\ Distinct(worker')
      BY <1>3, <1>15, <2>1
    <2> QED BY <2>2 DEF Fitting
  <1>20. Remembered'
    <2>1. Known(memory, bytes) /\ Hidden(memory, worker, locked)
      BY <1>3 DEF ThreadInv, Remembered
    <2>2. Hidden(memory, worker', locked)
      BY <1>18, <2>1 DEF Hidden
    <2>3. Known(OutcomeMemory', bytes') /\ Hidden(OutcomeMemory', worker', locked')
      BY <1>1, <1>3, <2>1, <2>2
    <2> QED BY <2>3 DEF Remembered
  <1>21. Neutrality' /\ Waiting'
    BY <1>1, <1>2 DEF Neutrality, Waiting
  <1>22. Traces'
    <2>1. /\ auth'.loan.steps = Append(auth.loan.steps, "join")
          /\ auth'.threads.trace = AdvancedTrace(auth.threads, auth.loan.steps, auth'.loan.steps)
          /\ auth.loan.steps \in Seq(Kind)
      BY <1>4, <1>8, <1>9, <1>10 DEF AuthTyped
    <2>2. Traced(auth')
      BY <1>4, <2>1, TracedOn
    <2> QED BY <1>2, <2>2 DEF Traces
  <1> QED BY <1>17, <1>19, <1>20, <1>21, <1>22 DEF ThreadInv

----------------------------------------------------------------------------
(* Creation                                                                *)

\* The authority a successful creation leaves.
LEMMA SuccessFacts ==
    ASSUME AuthTyped(auth), Traced(auth), NEW h, NEW t \in Task,
           NEW s, s = SuccessAuthority(h, t)
    PROVE  /\ AuthTyped(s) /\ Traced(s)
           /\ s.own = auth.own \ Takes[t]
           /\ s.loan.steps = Append(auth.loan.steps, "create")
           /\ \A o \in Local : s.loan.lent[o] = auth.loan.lent[o] + IF o \in Views[t] THEN 1 ELSE 0
           /\ s.threads.rights = WithInserted(auth.threads.rights, h, t)
           /\ \A m \in Mutex : s.threads.mutexWorkers[m]
                = auth.threads.mutexWorkers[m] + IF m \in Uses[t] THEN 1 ELSE 0
  <1> DEFINE lent == [o \in Local |-> auth.loan.lent[o] + IF o \in Views[t] THEN 1 ELSE 0]
             loan == LoanAfter("create", lent)
             threads == WithRight(auth.threads, h, t, auth.loan.steps, loan.steps)
  <1>1. s.own = auth.own \ Takes[t] /\ s.loan = loan /\ s.threads = threads
    BY DEF SuccessAuthority
  <1>2. "create" \in Kind /\ "create" \in {"create", "join"}
    BY DEF Kind
  <1>3. /\ loan.steps = Append(auth.loan.steps, "create")
        /\ loan.steps \in Seq(Kind) /\ loan.lent = lent
    BY <1>2, LoanAfterFacts
  <1>4. /\ threads.rights = WithInserted(auth.threads.rights, h, t)
        /\ threads.trace = AdvancedTrace(auth.threads, auth.loan.steps, loan.steps)
        /\ threads.mutexWorkers = Counted(auth.threads, t)
    BY DEF WithRight
  <1> HIDE DEF threads, loan
  <1>5. \A o \in Local : s.loan.lent[o] = auth.loan.lent[o] + IF o \in Views[t] THEN 1 ELSE 0
    BY <1>1, <1>3
  <1>6. \A m \in Mutex : s.threads.mutexWorkers[m]
                = auth.threads.mutexWorkers[m] + IF m \in Uses[t] THEN 1 ELSE 0
    BY <1>1, <1>4 DEF Counted
  <1>7. AuthTyped(s)
    <2>1. s.own \in SUBSET Cell BY <1>1 DEF AuthTyped
    <2>2. s.loan.lent \in [Local -> Nat] BY <1>1, <1>3 DEF AuthTyped
    <2>3. s.threads.mutexWorkers \in [Mutex -> Nat] BY <1>1, <1>4 DEF AuthTyped, Counted
    <2>4. s.loan.steps \in Seq(Kind) BY <1>1, <1>3
    <2> QED BY <2>1, <2>2, <2>3, <2>4 DEF AuthTyped
  <1>8. Traced(s)
    <2>1. /\ s.loan.steps = Append(auth.loan.steps, "create")
          /\ s.threads.trace = AdvancedTrace(auth.threads, auth.loan.steps, s.loan.steps)
          /\ auth.loan.steps \in Seq(Kind)
      BY <1>1, <1>3, <1>4 DEF AuthTyped
    <2> QED BY <1>2, <2>1, TracedOn
  <1> QED BY <1>1, <1>3, <1>4, <1>5, <1>6, <1>7, <1>8

LEMMA CreateStep ==
    ASSUME ThreadInv, NEW t \in Task, NEW succeeds \in BOOLEAN, Create(t, succeeds)
    PROVE  ThreadInv'
  <1>1. PICK h : h = nextHandle
    OBVIOUS
  <1>2. PICK s : s = SuccessAuthority(h, t)
    OBVIOUS
  <1>3. PICK mem : mem = [o \in Object |->
                      IF o \in Takes[t] \cup {Payload[m] : m \in Uses[t]} THEN None ELSE memory[o]]
    OBVIOUS
  <1>4. PICK state : state = (IF succeeds THEN "running" ELSE "failed")
    OBVIOUS
  <1>5. /\ UNCHANGED <<memory, locked, returned, bytes, joining>>
        /\ ~Undecided /\ ~returned /\ joining = {} /\ locked = {}
        /\ Takes[t] \subseteq auth.own
        /\ auth' = Neutral(s)
        /\ pending' = <<[handle |-> h, success |-> s, failure |-> auth, memory |-> mem,
                         deltas |-> <<>>]>>
        /\ nextHandle' = h + 1
        /\ worker' = WithInserted(worker, h, [task |-> t, state |-> state])
    BY <1>1, <1>2, <1>3, <1>4 DEF Create, MayUseThreads, Idle, Undecided
  <1>6. /\ Undecided'
        /\ pending'[1].handle = h /\ pending'[1].success = s /\ pending'[1].failure = auth
        /\ pending'[1].memory = mem /\ pending'[1].deltas = <<>>
    BY <1>5 DEF Undecided
  <1>7. /\ auth'.own = s.own /\ auth'.loan = s.loan /\ auth'.threads = auth.threads
    BY <1>5 DEF Neutral
  <1>8. /\ Outcome = auth /\ OutcomeMemory = memory
        /\ AuthTyped(auth) /\ Traced(auth) /\ memory \in MemoryType
        /\ h \in Nat /\ worker \in [Workers -> WorkerType]
        /\ IsFiniteSet(DOMAIN worker) /\ \A g \in DOMAIN worker : g \in Nat /\ g < h
    BY <1>1, <1>5, OutcomeFacts DEF ThreadInv, Typed, Traces, Workers
  <1>9. Fits(auth, worker) /\ Distinct(worker) /\ Known(memory, bytes) /\ Hidden(memory, worker, locked)
    BY <1>8 DEF ThreadInv, Fitting, Remembered
  <1>10. /\ AuthTyped(s) /\ Traced(s)
         /\ s.own = auth.own \ Takes[t]
         /\ s.loan.steps = Append(auth.loan.steps, "create")
         /\ \A o \in Local : s.loan.lent[o] = auth.loan.lent[o] + IF o \in Views[t] THEN 1 ELSE 0
         /\ s.threads.rights = WithInserted(auth.threads.rights, h, t)
         /\ \A m \in Mutex : s.threads.mutexWorkers[m]
               = auth.threads.mutexWorkers[m] + IF m \in Uses[t] THEN 1 ELSE 0
    BY <1>2, <1>8, SuccessFacts
  <1>11. /\ DOMAIN worker' = Workers \cup {h} /\ h \notin Workers
         /\ worker'[h].task = t /\ worker'[h].state = state
         /\ \A g \in Workers : worker'[g] = worker[g]
    <2>1. h \notin Workers BY <1>8 DEF Workers
    <2>2. PICK r : r = [task |-> t, state |-> state]
      OBVIOUS
    <2>3. worker' = WithInserted(worker, h, r)
      BY <1>5, <2>2
    <2>4. /\ DOMAIN worker' = Workers \cup {h} /\ worker'[h] = r
          /\ \A g \in Workers : worker'[g] = worker[g]
      BY <2>1, <2>3 DEF WithInserted, Workers
    <2> QED BY <2>1, <2>2, <2>4
  <1>12. state = "failed" <=> ~succeeds
    BY <1>4
  <1>13. state \in {"running", "failed"}
    BY <1>4
  <1>14. /\ worker' \in [Workers' -> WorkerType]
         /\ IsFiniteSet(Workers') /\ \A g \in Workers' : g \in Nat /\ g < nextHandle'
    <2>1. [task |-> t, state |-> state] \in WorkerType
      BY <1>13 DEF WorkerType
    <2>2. worker' \in [Workers' -> WorkerType]
      BY <1>5, <1>8, <2>1 DEF WithInserted, Workers
    <2>3. IsFiniteSet(Workers')
      BY <1>8, <1>11, FS_AddElement DEF Workers
    <2>4. \A g \in Workers' : g \in Nat /\ g < nextHandle'
      BY <1>5, <1>8, <1>11 DEF Workers
    <2> QED BY <2>2, <2>3, <2>4
  <1>15. /\ mem \in MemoryType
         /\ \A o \in Object : mem[o] = None \/ mem[o] = memory[o]
         /\ \A o \in Takes[t] : mem[o] = None
         /\ \A m \in Uses[t] : mem[Payload[m]] = None
         /\ \A o \in (auth.own \ Takes[t]) \cup Local : mem[o] = memory[o]
    <2>1. mem \in MemoryType /\ \A o \in Object : mem[o] = None \/ mem[o] = memory[o]
      BY <1>3, <1>8 DEF MemoryType
    <2>2. \A o \in Takes[t] : mem[o] = None
      BY <1>3, ObjectsApart
    <2>3. \A m \in Uses[t] : mem[Payload[m]] = None
      BY <1>3, ObjectsApart
    <2>4. ASSUME NEW o \in (auth.own \ Takes[t]) \cup Local PROVE mem[o] = memory[o]
      <3>1. o \in Object /\ o \notin Takes[t]
        BY <1>8, ObjectsApart DEF AuthTyped
      <3>2. o \notin {Payload[m] : m \in Uses[t]}
        BY <1>8, ObjectsApart DEF AuthTyped
      <3> QED BY <1>3, <3>1, <3>2
    <2> QED BY <2>1, <2>2, <2>3, <2>4
  <1>16. Replayed(pending'[1]) \in MemoryType /\ \A o \in Object : Replayed(pending'[1])[o] = mem[o]
    <2>1. PICK p : p = pending'[1]
      OBVIOUS
    <2>2. p.memory \in MemoryType /\ p.deltas \in Seq(DeltaType) /\ p.deltas = <<>> /\ p.memory = mem
      <3>1. p.memory = mem /\ p.deltas = <<>> BY <1>6, <2>1
      <3>2. <<>> \in Seq(DeltaType) OBVIOUS
      <3> QED BY <1>15, <3>1, <3>2
    <2>3. \A o \in Object : StoresTo(p, o) = {}
      BY <2>2 DEF StoresTo
    <2>4. \A o \in Object : Replayed(p)[o] = mem[o]
      BY <2>2, <2>3, LastStore
    <2>5. Replayed(p) \in MemoryType
      BY <2>2, ReplayedTyped
    <2> QED BY <2>1, <2>4, <2>5
  <1>17. Typed'
    <2>1. AuthTyped(auth')
      BY <1>7, <1>8, <1>10 DEF AuthTyped
    <2>2. PendingTyped(pending[1])'
      BY <1>6, <1>8, <1>10, <1>11, <1>13, <1>15 DEF PendingTyped, Workers
    <2>3. nextHandle' \in Nat
      BY <1>5, <1>8
    <2> QED BY <1>5, <1>14, <2>1, <2>2, <2>3 DEF ThreadInv, Typed, Undecided, Workers
  <1>18. Neutrality'
    <2>1. auth'.own \subseteq pending'[1].failure.own
      BY <1>6, <1>7, <1>10
    <2>2. \A o \in Local : auth'.loan.lent[o] = 0 => pending'[1].failure.loan.lent[o] = 0
      BY <1>6, <1>7, <1>8, <1>10 DEF AuthTyped
    <2>3. \A o \in auth'.own \cup Local : memory'[o] = Replayed(pending'[1])[o]
      <3>1. \A o \in auth'.own \cup Local : o \in Object
        BY <1>7, <1>8, <1>10, ObjectsApart DEF AuthTyped
      <3>2. \A o \in auth'.own \cup Local : mem[o] = memory[o]
        BY <1>7, <1>10, <1>15
      <3> QED BY <1>5, <1>16, <3>1, <3>2
    <2> QED BY <1>5, <1>6, <1>7, <2>1, <2>2, <2>3 DEF Neutrality
  <1>19. Traces'
    <2>1. Traced(auth')
      <3>1. /\ auth'.loan.steps = Append(auth.loan.steps, "create") /\ "create" \in Kind
            /\ auth'.threads.trace = auth.threads.trace /\ auth.loan.steps \in Seq(Kind)
        BY <1>7, <1>8, <1>10 DEF Kind, AuthTyped
      <3> QED BY <1>8, <3>1, TracedLeft
    <2>2. Traced(pending'[1].success) /\ Traced(pending'[1].failure)
      BY <1>6, <1>8, <1>10
    <2> QED BY <2>1, <2>2 DEF Traces
  <1>20. Waiting'
    BY <1>5 DEF Waiting
  <1>21. Failed' <=> ~succeeds
    BY <1>6, <1>11, <1>12 DEF Failed
  <1>22. CASE succeeds
    <2>1. Outcome' = s /\ OutcomeMemory' = Replayed(pending'[1])
      BY <1>6, <1>21, <1>22 DEF Outcome, OutcomeMemory
    <2>2. OneOpened(worker, worker', h, t)
      BY <1>11, <1>12, <1>13, <1>22 DEF OneOpened, Open, Workers
    <2>3. Given(auth, s, worker, h, t)
      <3>1. DOMAIN auth.threads.rights = Open(worker) /\ h \notin Open(worker)
        BY <1>9, <2>2 DEF Fits, OneOpened
      <3>2. /\ DOMAIN s.threads.rights = DOMAIN auth.threads.rights \cup {h}
            /\ s.threads.rights[h] = t
            /\ \A g \in Open(worker) : s.threads.rights[g] = auth.threads.rights[g]
        <4>1. DOMAIN s.threads.rights = DOMAIN auth.threads.rights \cup {h}
          BY <1>10 DEF WithInserted
        <4>2. s.threads.rights[h] = t
          BY <1>10 DEF WithInserted
        <4>3. \A g \in Open(worker) : s.threads.rights[g] = auth.threads.rights[g]
          BY <1>10, <3>1 DEF WithInserted
        <4> QED BY <4>1, <4>2, <4>3
      <3> QED BY <1>10, <3>2 DEF Given
    <2>4. Fits(s, worker')
      <3>1. AuthTyped(auth) /\ IsFiniteSet(DOMAIN worker) /\ Fits(auth, worker) BY <1>8, <1>9
      <3> QED BY ONLY t \in Task, <2>2, <2>3, <3>1, FitsOpened
    <2>5. Distinct(worker')
      BY <1>5, <1>9, <2>2 DEF Distinct, OneOpened, Fits
    <2>6. Fitting'
      BY <2>1, <2>4, <2>5 DEF Fitting
    <2>7. Known(OutcomeMemory', bytes')
      BY <1>5, <1>9, <1>15, <1>16, <2>1 DEF Known
    <2>8. Hidden(OutcomeMemory', worker', locked')
      <3> SUFFICES ASSUME NEW g \in Open(worker')
                   PROVE  /\ \A o \in Takes[worker'[g].task] : OutcomeMemory'[o] = None
                          /\ \A m \in Uses[worker'[g].task] : m \notin locked' => OutcomeMemory'[Payload[m]] = None
        BY DEF Hidden
      <3>1. worker'[g].task \in Task
        BY <2>2, WorkerFacts DEF OneOpened
      <3>2. /\ \A o \in Takes[worker'[g].task] : o \in Object
            /\ \A m \in Uses[worker'[g].task] : Payload[m] \in Object
        BY <3>1, ObjectsApart
      <3>3. CASE g = h
        BY <1>15, <1>16, <2>1, <2>2, <3>2, <3>3 DEF OneOpened
      <3>4. CASE g # h
        <4>1. g \in Open(worker) /\ worker'[g].task = worker[g].task
          BY <2>2, <3>4 DEF OneOpened
        <4>2. /\ \A o \in Takes[worker'[g].task] : memory[o] = None
              /\ \A m \in Uses[worker'[g].task] : memory[Payload[m]] = None
          BY <1>5, <1>9, <4>1 DEF Hidden
        <4> QED BY <1>15, <1>16, <2>1, <3>2, <4>2
      <3> QED BY <3>3, <3>4
    <2>9. Remembered'
      BY <2>7, <2>8 DEF Remembered
    <2> QED BY <1>17, <1>18, <1>19, <1>20, <2>6, <2>9 DEF ThreadInv
  <1>23. CASE ~succeeds
    <2>1. Outcome' = auth /\ OutcomeMemory' = memory
      BY <1>5, <1>6, <1>21, <1>23 DEF Outcome, OutcomeMemory
    <2>2. Open(worker') = Open(worker) /\ \A g \in Open(worker) : worker'[g].task = worker[g].task
      BY <1>11, <1>12, <1>23 DEF Open, Workers
    <2>3. Fits(auth, worker')
      BY <1>9, <2>2, FitsSame
    <2>4. Distinct(worker')
      BY <1>9, <2>2 DEF Distinct
    <2>5. Fitting'
      BY <2>1, <2>3, <2>4 DEF Fitting
    <2>6. Hidden(memory, worker', locked)
      BY <1>9, <2>2 DEF Hidden
    <2>7. Remembered'
      BY <1>5, <1>9, <2>1, <2>6 DEF Remembered
    <2> QED BY <1>17, <1>18, <1>19, <1>20, <2>5, <2>7 DEF ThreadInv
  <1> QED BY <1>22, <1>23

----------------------------------------------------------------------------
(* The invariant and the theorems                                          *)

LEMMA ThreadInit == ASSUME Init PROVE ThreadInv
  <1>1. /\ auth = [own |-> Cell,
                   loan |-> [steps |-> <<>>, lent |-> [o \in Local |-> 0]],
                   threads |-> [rights |-> EmptyMap, trace |-> None,
                                localViews |-> {},
                                mutexWorkers |-> [m \in Mutex |-> 0]]]
        /\ bytes \in [Object -> Value]
        /\ memory = [o \in Object |-> None]
        /\ pending = <<>> /\ locked = {}
        /\ nextHandle = 1 /\ returned = FALSE
        /\ worker = EmptyMap /\ joining = {}
    BY DEF Init
  <1>2. /\ auth.own = Cell /\ auth.loan.steps = <<>> /\ auth.loan.lent = [o \in Local |-> 0]
        /\ auth.threads.rights = EmptyMap /\ auth.threads.trace = None
        /\ auth.threads.mutexWorkers = [m \in Mutex |-> 0]
    BY <1>1
  <1>3. DOMAIN worker = {} /\ Open(worker) = {} /\ ~Undecided
    BY <1>1 DEF EmptyMap, Open, Undecided
  <1>4. Outcome = auth /\ OutcomeMemory = memory
    BY <1>3 DEF Outcome, OutcomeMemory
  <1>5. IsFiniteSet({}) /\ Cardinality({}) = 0
    BY FS_EmptySet
  <1>6. Typed
    <2>1. <<>> \in Seq(Kind) OBVIOUS
    <2>2. AuthTyped(auth) BY <1>2, <2>1 DEF AuthTyped
    <2>3. memory \in MemoryType BY <1>1 DEF MemoryType
    <2>4. worker \in [Workers -> WorkerType] BY <1>1 DEF EmptyMap, Workers
    <2>5. IsFiniteSet(Workers) /\ \A h \in Workers : h \in Nat /\ h < nextHandle
      BY <1>3, <1>5 DEF Workers
    <2> QED BY <1>1, <2>2, <2>3, <2>4, <2>5 DEF Typed
  <1>7. Fitting
    <2>1. \A o : Viewers(worker, o) = {} BY <1>3 DEF Viewers
    <2>2. \A m : Users(worker, m) = {} BY <1>3 DEF Users
    <2>3. Fits(auth, worker)
      <3>1. DOMAIN auth.threads.rights = {} BY <1>2 DEF EmptyMap
      <3> QED BY <1>2, <1>3, <1>5, <2>1, <2>2, <3>1 DEF Fits
    <2>4. Distinct(worker) BY <1>3 DEF Distinct
    <2> QED BY <1>4, <2>3, <2>4 DEF Fitting
  <1>8. Remembered
    <2>1. Known(memory, bytes) BY <1>1 DEF Known
    <2>2. Hidden(memory, worker, locked) BY <1>3 DEF Hidden
    <2> QED BY <1>4, <2>1, <2>2 DEF Remembered
  <1>9. Neutrality /\ Waiting
    BY <1>1, <1>3 DEF Neutrality, Waiting
  <1>10. Traces
    BY <1>2, <1>3 DEF Traces, Traced
  <1> QED BY <1>6, <1>7, <1>8, <1>9, <1>10 DEF ThreadInv

LEMMA ThreadStep == ASSUME ThreadInv, [Next]_vars PROVE ThreadInv'
  <1>1. ASSUME NEW t \in Task, NEW succeeds \in BOOLEAN, Create(t, succeeds) PROVE ThreadInv'
    BY <1>1, CreateStep
  <1>2. ASSUME NEW o \in Object, NEW v \in Value, Store(o, v) PROVE ThreadInv'
    BY <1>2, StoreStep
  <1>3. ASSUME ResolveSuccess \/ ResolveFailure PROVE ThreadInv'
    BY <1>3, ResolveStep
  <1>4. ASSUME NEW h \in handles, StartJoin(h) PROVE ThreadInv'
    BY <1>4, StartJoinStep
  <1>5. ASSUME NEW h \in joining, FinishJoin(h) PROVE ThreadInv'
    BY <1>5, FinishJoinStep
  <1>6. ASSUME OtherLoanStep PROVE ThreadInv'
    BY <1>6, OtherLoanStepKeeps
  <1>7. ASSUME Return PROVE ThreadInv'
    BY <1>7, ReturnStep
  <1>8. ASSUME NEW m \in Mutex, Lock(m) \/ Unlock(m) PROVE ThreadInv'
    BY <1>8, LockStep
  <1>9. ASSUME WorkerStep PROVE ThreadInv'
    BY <1>9, WorkerStoreStep, WorkerFinishStep DEF WorkerStep
  <1>10. ASSUME UNCHANGED vars PROVE ThreadInv'
    BY <1>10, StutterStep
  <1> QED BY <1>1, <1>2, <1>3, <1>4, <1>5, <1>6, <1>7, <1>8, <1>9, <1>10 DEF Next

LEMMA ThreadInvariant == Spec => []ThreadInv
  BY ThreadInit, ThreadStep, PTL DEF Spec

\* Whatever the system decided about a creation and whenever the parent
\* learns it (thread_create_outcomes, resolve_pending_thread_create), a
\* running worker and the parent never have the same object at hand in a way
\* that races, and no worker outlives the frame it may use.
THEOREM NoRaces == Spec => []NoDataRace
<1>1. ASSUME ThreadInv PROVE NoDataRace
  <2> SUFFICES ASSUME NEW h \in Workers, worker[h].state = "running"
               PROVE  /\ \A o \in Takes[worker[h].task] \cup Views[worker[h].task] : ~MayWrite(auth, o)
                      /\ \A o \in Takes[worker[h].task] : ~MayRead(auth, o)
                      /\ ~returned
    BY DEF NoDataRace
  <2>1. h \in Open(worker)
    BY DEF Open, Workers
  <2>2. worker[h].task \in Task /\ Outcome.own \cap Takes[worker[h].task] = {}
    BY <1>1, <2>1, WorkerFacts
  <2>3. Takes[worker[h].task] \subseteq Cell /\ Views[worker[h].task] \subseteq Local
    BY <2>2, ObjectsApart
  <2>4. ASSUME NEW o \in Takes[worker[h].task] \cup Views[worker[h].task], MayWrite(auth, o)
        PROVE  FALSE
    <3>1. o \in Object BY <2>3, ObjectsApart
    <3> QED BY <1>1, <2>1, <2>4, <3>1, WritesApart
  <2>5. ASSUME NEW o \in Takes[worker[h].task] PROVE ~MayRead(auth, o)
    <3>1. o \notin Local BY <2>3, ObjectsApart
    <3>2. o \notin auth.own BY <1>1, <2>2, OutcomeFacts
    <3>3. locked \subseteq Mutex BY <1>1 DEF ThreadInv, Typed
    <3>4. ~MayUsePayload(o) BY <2>3, <3>3, ObjectsApart DEF MayUsePayload
    <3> QED BY <3>1, <3>2, <3>4 DEF MayRead
  <2>6. ~returned
    BY <1>1, <2>1 DEF ThreadInv, Waiting
  <2> QED BY <2>4, <2>5, <2>6
<1> QED BY <1>1, ThreadInvariant, PTL

\* What the parent knows of an object it can read is what memory holds, also
\* across a creation decided later (its stores are replayed) and across a
\* mutex that workers use (its payload is forgotten on lock and unlock).
THEOREM MemoryIsTrue == Spec => []MemoryAgrees
<1>1. ASSUME ThreadInv PROVE MemoryAgrees
  <2> SUFFICES ASSUME NEW o \in {o \in Cell \cup Local : MayRead(auth, o)} \cup {Payload[m] : m \in locked},
                      memory[o] # None
               PROVE  memory[o] = bytes[o]
    BY DEF MemoryAgrees
  <2>1. Known(OutcomeMemory, bytes)
    BY <1>1 DEF ThreadInv, Remembered
  <2>2. locked \subseteq Mutex
    BY <1>1 DEF ThreadInv, Typed
  <2>3. o \in Object
    BY <2>2, ObjectsApart
  <2>4. memory[o] = OutcomeMemory[o]
    <3>1. CASE locked # {}
      BY <1>1, <3>1, OutcomeFacts
    <3>2. CASE locked = {}
      <4>1. MayRead(auth, o) /\ ~MayUsePayload(o)
        BY <3>2 DEF MayUsePayload
      <4> QED BY <1>1, <4>1, OutcomeFacts DEF MayRead
    <3> QED BY <3>1, <3>2
  <2> QED BY <2>1, <2>3, <2>4 DEF Known
<1> QED BY <1>1, ThreadInvariant, PTL

\* A thread ledger with no worker left (witnesses_loan_recovery) answers only
\* for stretches of the loan ledger that creates and joins made.
THEOREM WitnessesAreThreadSteps == Spec => []WitnessIsThreadSteps
<1>1. ASSUME ThreadInv PROVE WitnessIsThreadSteps
  <2> SUFFICES ASSUME NEW n \in 0 .. Len(auth.loan.steps),
                      WitnessesLoanRecovery(auth.threads, SubSeq(auth.loan.steps, 1, n), auth.loan.steps)
               PROVE  \A k \in (n + 1) .. Len(auth.loan.steps) : auth.loan.steps[k] \in {"create", "join"}
    BY DEF WitnessIsThreadSteps
  <2>1. PICK s : s = auth.loan.steps
    OBVIOUS
  <2>2. s \in Seq(Kind) /\ Len(s) \in Nat /\ n \in 0 .. Len(s)
    BY <1>1, <2>1 DEF ThreadInv, Typed, AuthTyped
  <2>3. auth.threads.trace = Trace(SubSeq(s, 1, n), s)
    BY <2>1 DEF WitnessesLoanRecovery
  <2>4. auth.threads.trace # None
    <3>1. SubSeq(s, 1, n) \in Seq(Kind) BY <2>2
    <3>2. Trace(SubSeq(s, 1, n), s) \in [origin : Seq(Kind), current : Seq(Kind)]
      BY <2>2, <3>1 DEF Trace
    <3>3. None \notin [origin : Seq(Kind), current : Seq(Kind)]
      BY ThreadAssumption
    <3> QED BY <2>3, <3>2, <3>3
  <2>5. PICK i \in 0 .. Len(s), j \in 0 .. Len(s) :
           /\ i <= j
           /\ auth.threads.trace = Trace(SubSeq(s, 1, i), SubSeq(s, 1, j))
           /\ \A k \in (i + 1) .. j : s[k] \in {"create", "join"}
    BY <1>1, <2>1, <2>4 DEF ThreadInv, Traces, Traced
  <2>6. SubSeq(s, 1, i) = SubSeq(s, 1, n) /\ SubSeq(s, 1, j) = s
    BY <2>3, <2>5 DEF Trace
  <2>7. Len(SubSeq(s, 1, i)) = i /\ Len(SubSeq(s, 1, n)) = n /\ Len(SubSeq(s, 1, j)) = j
    BY <2>2
  <2>8. i = n /\ j = Len(s)
    BY <2>6, <2>7
  <2> QED BY <2>1, <2>5, <2>8
<1> QED BY <1>1, ThreadInvariant, PTL
=============================================================================
