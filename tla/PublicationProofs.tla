-------------------------- MODULE PublicationProofs --------------------------
(***************************************************************************)
(* Publication is safe for every number of threads, flags and payloads.    *)
(*                                                                         *)
(* A payload changes hands with no step that gives and takes it at once,   *)
(* so where it is in between is a matter of the rights: the inductive      *)
(* invariant says which rights exist together with which value of a flag   *)
(* (Rights), that the storage of a flag is gone once rights exist          *)
(* (FlagStorage), and restates the three safety properties without the set *)
(* of places, in the form the steps preserve.                              *)
(***************************************************************************)
EXTENDS Publication, TLAPS

\* The storage of a flag has one owner, until atomic_init takes it.
FlagStorage ==
    /\ \A t, u \in Thread : \A f \in Flag :
            f \in storage[t] /\ f \in storage[u] => t = u
    /\ \A t \in Thread : \A f \in storage[t] : flag[f] = None

\* One right a side and flag; both name one payload; a publisher right means
\* that nothing was published, an observed nonzero value that something was.
Rights ==
    /\ \A t, u \in Thread : \A r \in rights[t], s \in rights[u] :
            r.flag = s.flag =>
                /\ r.payload = s.payload
                /\ r.side = s.side => t = u /\ r = s
    /\ \A t \in Thread : \A r \in rights[t] :
            /\ flag[r.flag] # None
            /\ r.side = "publisher" => flag[r.flag] = 0
            /\ r.observed = 1 => flag[r.flag] = 1

\* A payload is with one thread, in one form, and on no flag.
Exclusive ==
    /\ \A t, u \in Thread : \A p \in Payload :
            (p \in owned[t] \cup folded[t]) /\ (p \in owned[u] \cup folded[u]) => t = u
    /\ \A t \in Thread : owned[t] \cap folded[t] = {}
    /\ \A t \in Thread : \A p \in owned[t] \cup folded[t] : \A f \in Flag : ~Carries(f, p)
    /\ \A f, g \in Flag : \A p \in Payload : Carries(f, p) /\ Carries(g, p) => f = g

\* A thread that does not exist has nothing.
NotRunning ==
    \A t \in Thread \ running :
        storage[t] = {} /\ rights[t] = {} /\ owned[t] = {} /\ folded[t] = {}

\* A thread remembers nothing of an object it gave away.
Forgotten ==
    \A t \in Thread : \A p \in Payload \ (owned[t] \cup folded[t]) : known[t][p] = None

Inv ==
    TypeOK /\ FlagStorage /\ Rights /\ Exclusive /\ NotRunning /\ Forgotten
    /\ ReceivedFactsHold /\ KnowledgeIsCurrent

LEMMA InitInv == Init => Inv
  <1> SUFFICES ASSUME Init PROVE Inv
    OBVIOUS
  <1> USE PublicationAssumption DEF Init
  <1>1. TypeOK
    BY DEF TypeOK, Word
  <1>2. FlagStorage
    BY DEF FlagStorage
  <1>3. Rights
    BY DEF Rights
  <1>4. Exclusive
    BY DEF Exclusive, Carries
  <1>5. NotRunning
    BY DEF NotRunning
  <1>6. ReceivedFactsHold
    BY DEF ReceivedFactsHold, Carries
  <1>7. KnowledgeIsCurrent
    BY DEF KnowledgeIsCurrent
  <1>8. Forgotten
    BY DEF Forgotten
  <1> QED
    BY <1>1, <1>2, <1>3, <1>4, <1>5, <1>6, <1>7, <1>8 DEF Inv

LEMMA AtomicInitInv ==
    ASSUME Inv, NEW t \in running, NEW f \in Flag, NEW p \in Payload,
           AtomicInit(t, f, p)
    PROVE  Inv'
  <1> USE PublicationAssumption
  <1>0. t \in Thread
    BY DEF Inv, TypeOK
  <1>a. \A u \in Thread : \A r \in rights[u] : r.flag # f
    BY <1>0 DEF Inv, AtomicInit, FlagStorage, Rights
  <1>b. \A u \in Thread : rights'[u] = IF u = t
            THEN rights[u] \cup {Right(side, f, p, None) : side \in Side} ELSE rights[u]
    BY <1>0 DEF Inv, TypeOK, AtomicInit
  <1>n. \A u \in Thread : \A r \in rights'[u] :
            \/ r \in rights[u]
            \/ /\ u = t /\ r = Right(r.side, f, p, None)
               /\ r.flag = f /\ r.payload = p /\ r.observed = None
    <2> SUFFICES ASSUME NEW u \in Thread, NEW r \in rights'[u], r \notin rights[u]
                 PROVE  /\ u = t /\ r = Right(r.side, f, p, None)
                        /\ r.flag = f /\ r.payload = p /\ r.observed = None
      OBVIOUS
    <2>1. PICK side \in Side : u = t /\ r = Right(side, f, p, None)
      BY <1>b
    <2>2. r.side = side /\ r.flag = f /\ r.payload = p /\ r.observed = None
      BY <2>1 DEF Right
    <2> QED
      BY <2>1, <2>2
  <1>c. \A g \in Flag : flag'[g] = IF g = f THEN 0 ELSE flag[g]
    BY DEF Inv, TypeOK, AtomicInit
  <1>d. \A g \in Flag, q \in Payload : Carries(g, q)' <=> Carries(g, q)
    BY <1>0, <1>a, <1>b, <1>c DEF Inv, TypeOK, Carries, FlagStorage, AtomicInit, Right
  <1>1. TypeOK'
    <2>1. rights' \in [Thread -> SUBSET PublicationRight]
      BY <1>0, <1>b DEF Inv, TypeOK, AtomicInit, PublicationRight, Right, Side
    <2>2. \A u \in Thread : \A r \in rights'[u] : r.side = "publisher" => r.observed = None
      BY <1>n DEF Inv, TypeOK
    <2> QED
      BY <2>1, <2>2, <1>0 DEF Inv, TypeOK, AtomicInit, WithoutOwnedStorage, Word
  <1>2. FlagStorage'
    BY <1>0, <1>c DEF Inv, TypeOK, FlagStorage, AtomicInit, WithoutOwnedStorage
  <1>3. Rights'
    <2>1. \A u, v \in Thread : \A r \in rights'[u], s \in rights'[v] :
              r.flag = s.flag =>
                  /\ r.payload = s.payload
                  /\ r.side = s.side => u = v /\ r = s
      <3> SUFFICES ASSUME NEW u \in Thread, NEW v \in Thread,
                          NEW r \in rights'[u], NEW s \in rights'[v], r.flag = s.flag
                   PROVE  /\ r.payload = s.payload
                          /\ r.side = s.side => u = v /\ r = s
        OBVIOUS
      <3>1. CASE r \in rights[u] /\ s \in rights[v]
        BY <3>1 DEF Inv, Rights
      <3>2. CASE r \notin rights[u] \/ s \notin rights[v]
        <4>1. r.flag = f /\ s.flag = f
          BY <3>2, <1>n
        <4>2. r \notin rights[u] /\ s \notin rights[v]
          BY <4>1, <1>a
        <4> QED
          BY <4>2, <1>n
      <3> QED
        BY <3>1, <3>2
    <2>2. \A u \in Thread : \A r \in rights'[u] :
              /\ flag'[r.flag] # None
              /\ r.side = "publisher" => flag'[r.flag] = 0
              /\ r.observed = 1 => flag'[r.flag] = 1
      <3> SUFFICES ASSUME NEW u \in Thread, NEW r \in rights'[u]
                   PROVE  /\ flag'[r.flag] # None
                          /\ r.side = "publisher" => flag'[r.flag] = 0
                          /\ r.observed = 1 => flag'[r.flag] = 1
        OBVIOUS
      <3>1. CASE r \in rights[u]
        <4>1. r.flag \in Flag /\ r.flag # f
          BY <3>1, <1>a DEF Inv, TypeOK, PublicationRight
        <4> QED
          BY <3>1, <4>1, <1>c DEF Inv, Rights
      <3>2. CASE r.flag = f /\ r.observed = None
        BY <3>2, <1>c
      <3> QED
        BY <3>1, <3>2, <1>n
    <2> QED
      BY <2>1, <2>2 DEF Rights
  <1>4. Exclusive'
    <2>1. UNCHANGED <<owned, folded>>
      BY DEF AtomicInit
    <2>2. \A u \in Thread : \A q \in owned[u] \cup folded[u] : q \in Payload
      BY DEF Inv, TypeOK
    <2>3. \A u \in Thread : \A q \in owned[u] \cup folded[u] : \A g \in Flag : ~Carries(g, q)'
      BY <2>2, <1>d DEF Inv, Exclusive
    <2>4. \A g, h \in Flag : \A q \in Payload : Carries(g, q)' /\ Carries(h, q)' => g = h
      BY <1>d DEF Inv, Exclusive
    <2> QED
      BY <2>1, <2>3, <2>4 DEF Inv, Exclusive
  <1>5. NotRunning'
    BY <1>b DEF Inv, TypeOK, NotRunning, AtomicInit, WithoutOwnedStorage
  <1>6. ReceivedFactsHold'
    BY <1>d DEF Inv, ReceivedFactsHold, AtomicInit
  <1>7. KnowledgeIsCurrent'
    BY DEF Inv, KnowledgeIsCurrent, AtomicInit
  <1>8. Forgotten'
    BY DEF Inv, Forgotten, AtomicInit
  <1> QED
    BY <1>1, <1>2, <1>3, <1>4, <1>5, <1>6, <1>7, <1>8 DEF Inv

LEMMA ReleaseStoreInv ==
    ASSUME Inv, NEW t \in running, NEW f \in Flag, ReleaseStore(t, f)
    PROVE  Inv'
  <1> USE PublicationAssumption
  <1>0. t \in Thread
    BY DEF Inv, TypeOK
  <1>1. PICK r \in RightsAt(t, "publisher", f) :
            /\ r.payload \in folded[t]
            /\ rights' = [rights EXCEPT ![t] = @ \ {r}]
            /\ folded' = [folded EXCEPT ![t] = @ \ {r.payload}]
            /\ known' = Havoc(t, {r.payload})
            /\ flag' = [flag EXCEPT ![f] = 1]
            /\ UNCHANGED <<running, storage, owned, object>>
    BY DEF ReleaseStore
  <1>r. /\ r \in rights[t] /\ r \in PublicationRight
        /\ r.side = "publisher" /\ r.flag = f /\ r.payload \in Payload
    BY <1>0, <1>1 DEF RightsAt, Inv, TypeOK, PublicationRight
  <1>a. \A u \in Thread : rights'[u] = IF u = t THEN rights[u] \ {r} ELSE rights[u]
    BY <1>0, <1>1 DEF Inv, TypeOK
  <1>b. \A u \in Thread :
            folded'[u] = IF u = t THEN folded[u] \ {r.payload} ELSE folded[u]
    BY <1>0, <1>1 DEF Inv, TypeOK
  <1>c. \A g \in Flag : flag'[g] = IF g = f THEN 1 ELSE flag[g]
    BY <1>1 DEF Inv, TypeOK
  <1>d. flag[f] = 0
    BY <1>0, <1>r DEF Inv, Rights
  <1>e. \A g \in Flag, q \in Payload :
            Carries(g, q)' => Carries(g, q) \/ (g = f /\ q = r.payload)
    <2> SUFFICES ASSUME NEW g \in Flag, NEW q \in Payload, Carries(g, q)'
                 PROVE  Carries(g, q) \/ (g = f /\ q = r.payload)
      OBVIOUS
    <2>1. PICK u \in Thread : \E s \in rights'[u] :
              s.side = "subscriber" /\ s.flag = g /\ s.payload = q
      BY DEF Carries
    <2>2. PICK s \in rights[u] : s.side = "subscriber" /\ s.flag = g /\ s.payload = q
      BY <2>1, <1>a
    <2>3. CASE g = f
      BY <2>2, <2>3, <1>0, <1>r DEF Inv, Rights
    <2>4. CASE g # f
      <3>1. flag[g] = 1
        BY <2>4, <1>c DEF Carries
      <3> QED
        BY <3>1, <2>2 DEF Carries
    <2> QED
      BY <2>3, <2>4
  <1>2. TypeOK'
    <2>1. known' \in [Thread -> [Payload -> Value \cup {None}]]
      BY <1>0, <1>1 DEF Inv, TypeOK, Havoc
    <2>2. rights' \in [Thread -> SUBSET PublicationRight]
      BY <1>0, <1>1 DEF Inv, TypeOK
    <2>3. \A u \in Thread : \A s \in rights'[u] : s.side = "publisher" => s.observed = None
      BY <1>a DEF Inv, TypeOK
    <2>4. folded' \in [Thread -> SUBSET Payload] /\ flag' \in [Flag -> Word \cup {None}]
      BY <1>0, <1>1 DEF Inv, TypeOK, Word
    <2> QED
      BY <2>1, <2>2, <2>3, <2>4, <1>1 DEF Inv, TypeOK
  <1>3. FlagStorage'
    BY <1>1, <1>c, <1>d DEF Inv, FlagStorage, TypeOK
  <1>4. Rights'
    <2>1. \A u \in Thread : rights'[u] \subseteq rights[u]
      BY <1>a
    <2>2. \A u \in Thread : \A s \in rights'[u] : s.flag = f => s.side # "publisher"
      <3> SUFFICES ASSUME NEW u \in Thread, NEW s \in rights'[u],
                          s.flag = f, s.side = "publisher"
                   PROVE  FALSE
        OBVIOUS
      <3>1. s \in rights[u] /\ (u = t => s # r)
        BY <1>a
      <3>2. u = t /\ s = r
        BY <3>1, <1>0, <1>r DEF Inv, Rights
      <3> QED
        BY <3>1, <3>2
    <2>3. \A u \in Thread : \A s \in rights'[u] : s.flag \in Flag
      BY <2>1 DEF Inv, TypeOK, PublicationRight
    <2> QED
      BY <2>1, <2>2, <2>3, <1>c DEF Inv, Rights
  <1>5. Exclusive'
    <2>1. \A u \in Thread : r.payload \notin owned[u] \cup folded'[u]
      BY <1>0, <1>1, <1>r, <1>b DEF Inv, Exclusive
    <2>2. \A g \in Flag : ~Carries(g, r.payload)
      BY <1>0, <1>1 DEF Inv, Exclusive
    <2>3. \A u \in Thread : folded'[u] \subseteq folded[u] /\ owned'[u] = owned[u]
      BY <1>b, <1>1
    <2>4. \A u \in Thread : \A q \in owned'[u] \cup folded'[u] : \A g \in Flag : ~Carries(g, q)'
      BY <2>1, <2>3, <1>1, <1>e DEF Inv, Exclusive, TypeOK
    <2>5. \A g, h \in Flag : \A q \in Payload : Carries(g, q)' /\ Carries(h, q)' => g = h
      BY <2>2, <1>e DEF Inv, Exclusive
    <2>6. \A u, v \in Thread : \A q \in Payload :
            (q \in owned'[u] \cup folded'[u]) /\ (q \in owned'[v] \cup folded'[v]) => u = v
      BY <2>3 DEF Inv, Exclusive
    <2>7. \A u \in Thread : owned'[u] \cap folded'[u] = {}
      BY <2>3 DEF Inv, Exclusive
    <2> QED
      BY <2>4, <2>5, <2>6, <2>7 DEF Exclusive
  <1>6. NotRunning'
    BY <1>1, <1>a, <1>b DEF Inv, NotRunning
  <1>7. ReceivedFactsHold'
    BY <1>0, <1>1, <1>b, <1>e, <1>r DEF Inv, ReceivedFactsHold
  <1>8. KnowledgeIsCurrent'
    <2>1. \A u \in Thread : folded'[u] \subseteq folded[u] /\ owned'[u] = owned[u]
      BY <1>b, <1>1
    <2>2. \A u \in Thread, q \in Payload : known'[u][q] \in {None, known[u][q]}
      BY <1>0, <1>1 DEF Havoc, Inv, TypeOK
    <2>3. \A u \in Thread : \A q \in owned[u] \cup folded[u] :
              q \in Payload /\ known[u][q] \in {None, object[q]}
      BY DEF Inv, KnowledgeIsCurrent, TypeOK
    <2>4. \A u \in Thread : \A q \in owned'[u] \cup folded'[u] :
              known'[u][q] \in {None, object[q]}
      BY <2>1, <2>2, <2>3
    <2> QED
      BY <2>4, <1>1 DEF KnowledgeIsCurrent
  <1>9. Forgotten'
    <2>1. \A u \in Thread, q \in Payload :
              known'[u][q] = IF u = t /\ q = r.payload THEN None ELSE known[u][q]
      BY <1>0, <1>1 DEF Havoc, Inv, TypeOK
    <2>2. \A u \in Thread, q \in Payload :
              q \in folded[u] => q \in folded'[u] \/ (u = t /\ q = r.payload)
      BY <1>b
    <2>3. \A u \in Thread, q \in Payload :
              q \notin owned[u] \cup folded'[u] => known'[u][q] = None
      BY <2>1, <2>2 DEF Inv, Forgotten
    <2> QED
      BY <2>3, <1>1 DEF Forgotten
  <1> QED
    BY <1>2, <1>3, <1>4, <1>5, <1>6, <1>7, <1>8, <1>9 DEF Inv
LEMMA AcquireLoadInv ==
    ASSUME Inv, NEW t \in running, NEW f \in Flag, NEW value \in Word,
           AcquireLoad(t, f, value)
    PROVE  Inv'
  <1> USE PublicationAssumption
  <1>0. t \in Thread
    BY DEF Inv, TypeOK
  <1>1. PICK r \in RightsAt(t, "subscriber", f) :
            rights' = [rights EXCEPT ![t] = (@ \ {r}) \cup {[r EXCEPT !.observed = value]}]
    BY DEF AcquireLoad
  <1> DEFINE m == [r EXCEPT !.observed = value]
  <1>r. /\ r \in rights[t] /\ r \in PublicationRight
        /\ r.side = "subscriber" /\ r.flag = f
    BY <1>0, <1>1 DEF RightsAt, Inv, TypeOK
  <1>m. /\ m \in PublicationRight /\ m.side = r.side /\ m.flag = r.flag
        /\ m.payload = r.payload /\ m.observed = value
    BY <1>r DEF PublicationRight
  <1>a. \A u \in Thread : rights'[u] = IF u = t THEN (rights[u] \ {r}) \cup {m} ELSE rights[u]
    BY <1>0, <1>1 DEF Inv, TypeOK
  <1> HIDE DEF m
  <1>u. UNCHANGED <<running, storage, owned, folded, known, flag, object>>
    BY DEF AcquireLoad
  <1>f. flag[f] # None /\ value \in {0, flag[f]}
    BY <1>0, <1>r DEF AcquireLoad, Inv, Rights
  \* The marked right stands for the one it replaces.
  <1>d. \A u \in Thread : \A s \in rights'[u] : \E o \in rights[u] :
            /\ o.side = s.side /\ o.flag = s.flag /\ o.payload = s.payload
            /\ s = o \/ (s = m /\ o = r /\ u = t)
    BY <1>0, <1>a, <1>m, <1>r
  <1>e. \A g \in Flag, q \in Payload : Carries(g, q)' => Carries(g, q)
    BY <1>d, <1>u DEF Carries
  <1>2. TypeOK'
    <2>1. rights' \in [Thread -> SUBSET PublicationRight]
      <3>1. rights' = [u \in Thread |-> rights'[u]]
        BY <1>1 DEF Inv, TypeOK
      <3>2. \A u \in Thread : rights'[u] \subseteq PublicationRight
        BY <1>a, <1>m DEF Inv, TypeOK
      <3> QED
        BY <3>1, <3>2
    <2>2. \A u \in Thread : \A s \in rights'[u] : s.side = "publisher" => s.observed = None
      BY <1>a, <1>m, <1>r DEF Inv, TypeOK
    <2> QED
      BY <2>1, <2>2, <1>u DEF Inv, TypeOK
  <1>3. FlagStorage'
    BY <1>u DEF Inv, FlagStorage
  <1>4. Rights'
    <2>1. ASSUME NEW u \in Thread, NEW v \in Thread, NEW s \in rights'[u], NEW w \in rights'[v],
                 s.flag = w.flag
          PROVE  s.payload = w.payload /\ (s.side = w.side => u = v /\ s = w)
      <3>1. PICK o \in rights[u] :
                /\ o.side = s.side /\ o.flag = s.flag /\ o.payload = s.payload
                /\ s = o \/ (s = m /\ o = r /\ u = t)
        BY <1>d
      <3>2. PICK n \in rights[v] :
                /\ n.side = w.side /\ n.flag = w.flag /\ n.payload = w.payload
                /\ w = n \/ (w = m /\ n = r /\ v = t)
        BY <1>d
      <3>3. s.payload = w.payload /\ (s.side = w.side => u = v /\ o = n)
        BY <3>1, <3>2, <2>1 DEF Inv, Rights
      <3>4. ASSUME s.side = w.side PROVE s = w
        <4>1. u = v /\ o = n
          BY <3>3, <3>4
        <4>2. CASE o = r /\ u = t
          <5>1. s \in (rights[t] \ {r}) \cup {m} /\ w \in (rights[t] \ {r}) \cup {m}
            BY <4>1, <4>2, <1>0, <1>a
          <5>2. s \in {r, m} /\ w \in {r, m}
            BY <4>1, <4>2, <3>1, <3>2
          <5> QED
            BY <5>1, <5>2
        <4>3. CASE ~(o = r /\ u = t)
          BY <4>1, <4>3, <3>1, <3>2
        <4> QED
          BY <4>2, <4>3
      <3> QED
        BY <3>3, <3>4
    <2>2. ASSUME NEW u \in Thread, NEW s \in rights'[u]
          PROVE  /\ flag[s.flag] # None
                 /\ s.side = "publisher" => flag[s.flag] = 0
                 /\ s.observed = 1 => flag[s.flag] = 1
      <3>1. CASE s \in rights[u]
        BY <3>1 DEF Inv, Rights
      <3>2. CASE s = m /\ u = t
        BY <3>2, <1>m, <1>r, <1>f
      <3> QED
        BY <3>1, <3>2, <1>a
    <2> QED
      BY <2>1, <2>2, <1>u DEF Rights
  <1>5. Exclusive'
    <2>1. \A u \in Thread : \A q \in owned[u] \cup folded[u] : q \in Payload
      BY DEF Inv, TypeOK
    <2>2. \A u \in Thread : \A q \in owned[u] \cup folded[u] : \A g \in Flag : ~Carries(g, q)'
      BY <2>1, <1>e DEF Inv, Exclusive
    <2>3. \A g, h \in Flag : \A q \in Payload : Carries(g, q)' /\ Carries(h, q)' => g = h
      BY <1>e DEF Inv, Exclusive
    <2> QED
      BY <2>2, <2>3, <1>u DEF Inv, Exclusive
  <1>6. NotRunning'
    BY <1>0, <1>a, <1>u DEF Inv, NotRunning
  <1>7. ReceivedFactsHold'
    BY <1>e, <1>u DEF Inv, ReceivedFactsHold
  <1>8. KnowledgeIsCurrent'
    BY <1>u DEF Inv, KnowledgeIsCurrent
  <1>9. Forgotten'
    BY <1>u DEF Inv, Forgotten
  <1> QED
    BY <1>2, <1>3, <1>4, <1>5, <1>6, <1>7, <1>8, <1>9 DEF Inv
LEMMA ResolveInv ==
    ASSUME Inv, NEW t \in running, NEW decided \in SUBSET ObservedPublicationRights(t),
           ResolveObservedPublications(t, decided)
    PROVE  Inv'
  <1> USE PublicationAssumption
  <1>0. t \in Thread
    BY DEF Inv, TypeOK
  <1> DEFINE Settled(o) == [o EXCEPT !.observed = None]
  <1>u. UNCHANGED <<running, storage, owned, known, flag, object>>
    BY DEF ResolveObservedPublications
  <1>a. \A u \in Thread : rights'[u] =
            IF u = t THEN (rights[u] \ decided) \cup
                          {Settled(d) : d \in {o \in decided : ~Published(o)}}
            ELSE rights[u]
    BY <1>0 DEF Inv, TypeOK, ResolveObservedPublications
  <1>b. \A u \in Thread : folded'[u] =
            IF u = t THEN folded[u] \cup {d.payload : d \in {o \in decided : Published(o)}}
            ELSE folded[u]
    BY <1>0 DEF Inv, TypeOK, ResolveObservedPublications
  <1>c. \A d \in decided :
            /\ d \in rights[t] /\ d \in PublicationRight /\ d.flag \in Flag
            /\ d.payload \in Payload /\ d.side = "subscriber" /\ d.observed \in Word
    BY <1>0 DEF ObservedPublicationRights, Inv, TypeOK, PublicationRight, Side
  <1>s. \A d \in decided :
            /\ Settled(d) \in PublicationRight /\ Settled(d).observed = None
            /\ Settled(d).side = d.side /\ Settled(d).flag = d.flag
            /\ Settled(d).payload = d.payload
    BY <1>c DEF PublicationRight
  <1> HIDE DEF Settled
  \* Every right after the step comes from one before it, not an exchanged one.
  <1>d. \A u \in Thread : \A s \in rights'[u] : \E o \in rights[u] :
            /\ o.side = s.side /\ o.flag = s.flag /\ o.payload = s.payload
            /\ \/ s = o /\ (u = t => o \notin decided)
               \/ s = Settled(o) /\ u = t /\ o \in decided /\ ~Published(o)
    <2> SUFFICES ASSUME NEW u \in Thread, NEW s \in rights'[u]
                 PROVE  \E o \in rights[u] :
                            /\ o.side = s.side /\ o.flag = s.flag /\ o.payload = s.payload
                            /\ \/ s = o /\ (u = t => o \notin decided)
                               \/ s = Settled(o) /\ u = t /\ o \in decided /\ ~Published(o)
      OBVIOUS
    <2>1. CASE s \in rights[u] /\ (u = t => s \notin decided)
      BY <2>1
    <2>2. CASE u = t /\ \E d \in decided : ~Published(d) /\ s = Settled(d)
      BY <2>2, <1>c, <1>s
    <2> QED
      BY <2>1, <2>2, <1>a
  <1>e. \A g \in Flag, q \in Payload : Carries(g, q)' => Carries(g, q)
    BY <1>d, <1>u DEF Carries
  \* An exchanged payload was on its flag, and is on no flag any more.
  <1>x. \A d \in decided : Published(d) => Carries(d.flag, d.payload)
    <2> SUFFICES ASSUME NEW d \in decided, Published(d) PROVE Carries(d.flag, d.payload)
      OBVIOUS
    <2>1. d.observed = 1
      BY <1>c DEF Published, Word
    <2>2. flag[d.flag] = 1
      BY <2>1, <1>0, <1>c DEF Inv, Rights
    <2> QED
      BY <2>2, <1>0, <1>c DEF Carries
  <1>y. \A d \in decided : Published(d) => \A g \in Flag : ~Carries(g, d.payload)'
    <2> SUFFICES ASSUME NEW d \in decided, Published(d), NEW g \in Flag, Carries(g, d.payload)'
                 PROVE  FALSE
      OBVIOUS
    <2>1. g = d.flag
      BY <1>c, <1>e, <1>x DEF Inv, Exclusive
    <2>u. PICK u \in Thread : \E s \in rights'[u] : s.side = "subscriber" /\ s.flag = g
      BY DEF Carries
    <2>2. PICK s \in rights'[u] : s.side = "subscriber" /\ s.flag = g
      BY <2>u
    <2>3. PICK o \in rights[u] :
              /\ o.side = s.side /\ o.flag = s.flag
              /\ \/ s = o /\ (u = t => o \notin decided)
                 \/ s = Settled(o) /\ u = t /\ o \in decided /\ ~Published(o)
      BY <1>d
    <2>4. u = t /\ o = d
      BY <2>1, <2>2, <2>3, <1>0, <1>c DEF Inv, Rights
    <2> QED
      BY <2>3, <2>4
  <1>5. \A u \in Thread : \A q \in folded'[u] : q \in folded[u] \/
            (u = t /\ \E d \in decided : Published(d) /\ q = d.payload)
    <2> SUFFICES ASSUME NEW u \in Thread, NEW q \in folded'[u], q \notin folded[u]
                 PROVE  u = t /\ \E d \in decided : Published(d) /\ q = d.payload
      OBVIOUS
    <2>1. u = t /\ q \in {d.payload : d \in {o \in decided : Published(o)}}
      BY <1>b
    <2> QED
      BY <2>1
  <1>2. TypeOK'
    <2>1. rights' \in [Thread -> SUBSET PublicationRight]
      <3>1. rights' = [u \in Thread |-> rights'[u]]
        BY DEF Inv, TypeOK, ResolveObservedPublications
      <3>2. \A u \in Thread : \A s \in rights'[u] : s \in PublicationRight
        BY <1>d, <1>s DEF Inv, TypeOK
      <3> QED
        BY <3>1, <3>2
    <2>2. \A u \in Thread : \A s \in rights'[u] : s.side = "publisher" => s.observed = None
      BY <1>d, <1>s DEF Inv, TypeOK
    <2>3. folded' \in [Thread -> SUBSET Payload]
      <3>1. folded' = [u \in Thread |-> folded'[u]]
        BY DEF Inv, TypeOK, ResolveObservedPublications
      <3>2. \A u \in Thread : \A q \in folded'[u] : q \in Payload
        BY <1>5, <1>c DEF Inv, TypeOK
      <3> QED
        BY <3>1, <3>2
    <2> QED
      BY <2>1, <2>2, <2>3, <1>u DEF Inv, TypeOK
  <1>3. FlagStorage'
    BY <1>u DEF Inv, FlagStorage
  <1>4. Rights'
    <2>1. ASSUME NEW u \in Thread, NEW v \in Thread, NEW s \in rights'[u], NEW w \in rights'[v],
                 s.flag = w.flag
          PROVE  s.payload = w.payload /\ (s.side = w.side => u = v /\ s = w)
      <3>1. PICK o \in rights[u] :
                /\ o.side = s.side /\ o.flag = s.flag /\ o.payload = s.payload
                /\ \/ s = o /\ (u = t => o \notin decided)
                   \/ s = Settled(o) /\ u = t /\ o \in decided /\ ~Published(o)
        BY <1>d
      <3>2. PICK n \in rights[v] :
                /\ n.side = w.side /\ n.flag = w.flag /\ n.payload = w.payload
                /\ \/ w = n /\ (v = t => n \notin decided)
                   \/ w = Settled(n) /\ v = t /\ n \in decided /\ ~Published(n)
        BY <1>d
      <3>3. s.payload = w.payload /\ (s.side = w.side => u = v /\ o = n)
        BY <3>1, <3>2, <2>1 DEF Inv, Rights
      <3> QED
        BY <3>1, <3>2, <3>3
    <2>2. ASSUME NEW u \in Thread, NEW s \in rights'[u]
          PROVE  /\ flag[s.flag] # None
                 /\ s.side = "publisher" => flag[s.flag] = 0
                 /\ s.observed = 1 => flag[s.flag] = 1
      <3>1. PICK o \in rights[u] :
                /\ o.side = s.side /\ o.flag = s.flag
                /\ s = o \/ (s = Settled(o) /\ o \in decided)
        BY <1>d
      <3>2. CASE s = o
        BY <3>2 DEF Inv, Rights
      <3>3. CASE s = Settled(o) /\ o \in decided
        BY <3>1, <3>3, <1>s DEF Inv, Rights
      <3> QED
        BY <3>1, <3>2, <3>3
    <2> QED
      BY <2>1, <2>2, <1>u DEF Rights
  <1>6. Exclusive'
    <2>1. \A q \in Payload : q \in folded'[t] /\ q \notin folded[t] =>
              /\ \A g \in Flag : ~Carries(g, q)'
              /\ \A v \in Thread : q \notin owned[v] \cup folded[v]
      <3> SUFFICES ASSUME NEW q \in Payload, q \in folded'[t], q \notin folded[t]
                   PROVE  /\ \A g \in Flag : ~Carries(g, q)'
                          /\ \A v \in Thread : q \notin owned[v] \cup folded[v]
        OBVIOUS
      <3>1. PICK d \in decided : Published(d) /\ q = d.payload
        BY <1>0, <1>5
      <3>2. Carries(d.flag, q) /\ d.flag \in Flag /\ \A g \in Flag : ~Carries(g, q)'
        BY <3>1, <1>x, <1>y, <1>c
      <3> QED
        BY <3>2 DEF Inv, Exclusive
    <2>2. \A u \in Thread : \A q \in folded'[u] : q \in folded[u] \/ (u = t /\ q \notin folded[t])
      BY <1>b
    <2>3. \A u \in Thread : \A q \in owned[u] \cup folded'[u] : q \in Payload
      BY <1>2, <1>u DEF TypeOK
    <2>4. \A u, v \in Thread : \A q \in Payload :
              (q \in owned[u] \cup folded'[u]) /\ (q \in owned[v] \cup folded'[v]) => u = v
      BY <2>1, <2>2 DEF Inv, Exclusive
    <2>5. \A u \in Thread : owned[u] \cap folded'[u] = {}
      <3> SUFFICES ASSUME NEW u \in Thread, NEW q \in owned[u], q \in folded'[u] PROVE FALSE
        OBVIOUS
      <3> QED
        BY <2>1, <2>2, <2>3 DEF Inv, Exclusive
    <2>6. \A u \in Thread : \A q \in owned[u] \cup folded'[u] : \A g \in Flag : ~Carries(g, q)'
      BY <2>1, <2>2, <2>3, <1>e DEF Inv, Exclusive
    <2>7. \A g, h \in Flag : \A q \in Payload : Carries(g, q)' /\ Carries(h, q)' => g = h
      BY <1>e DEF Inv, Exclusive
    <2> QED
      BY <2>4, <2>5, <2>6, <2>7, <1>u DEF Exclusive
  <1>7. NotRunning'
    BY <1>0, <1>a, <1>b, <1>u DEF Inv, NotRunning
  <1>8. ReceivedFactsHold'
    <2>1. \A u \in Thread : \A q \in folded'[u] : q \in folded[u] \/ \E g \in Flag : Carries(g, q)
      BY <1>5, <1>c, <1>x
    <2> QED
      BY <2>1, <1>e, <1>u DEF Inv, ReceivedFactsHold
  <1>9. KnowledgeIsCurrent'
    <2>1. \A u \in Thread : \A q \in owned[u] \cup folded'[u] : q \in Payload
      BY <1>2, <1>u DEF TypeOK
    <2>2. \A u \in Thread : \A q \in owned[u] \cup folded'[u] : known[u][q] \in {None, object[q]}
      BY <2>1 DEF Inv, KnowledgeIsCurrent, Forgotten
    <2> QED
      BY <2>2, <1>u DEF KnowledgeIsCurrent
  <1>10. Forgotten'
    BY <1>b, <1>u DEF Inv, Forgotten
  <1> QED
    BY <1>2, <1>3, <1>4, <1>6, <1>7, <1>8, <1>9, <1>10 DEF Inv
\* The steps on a payload's object and form leave flags and rights alone.
LEMMA PayloadStepInv ==
    ASSUME Inv, NEW t \in running, NEW p \in Payload,
           Fold(t, p) \/ Unfold(t, p) \/ \E v \in Value : Store(t, p, v)
    PROVE  Inv'
  <1> USE PublicationAssumption
  <1>0. t \in Thread
    BY DEF Inv, TypeOK
  <1>u. UNCHANGED <<running, storage, rights, flag>>
    BY DEF Fold, Unfold, Store
  <1>e. \A f, q : Carries(f, q)' <=> Carries(f, q)
    BY <1>u DEF Carries
  <1>h. p \in owned[t] \cup folded[t]
    BY DEF Fold, Unfold, Store
  <1>a. \A u \in Thread : owned'[u] \cup folded'[u] = owned[u] \cup folded[u]
    BY <1>0 DEF Inv, TypeOK, Fold, Unfold, Store
  <1>b. \A u \in Thread : owned'[u] \cap folded'[u] = {}
    BY <1>0 DEF Inv, TypeOK, Exclusive, Fold, Unfold, Store
  <1>k. /\ known' \in [Thread -> [Payload -> Value \cup {None}]]
        /\ \A u \in Thread, q \in Payload : u # t \/ q # p => known'[u][q] = known[u][q]
    <2>1. CASE Fold(t, p)
      BY <2>1 DEF Inv, TypeOK, Fold
    <2>2. CASE Unfold(t, p)
      BY <2>2, <1>0 DEF Inv, TypeOK, Unfold
    <2>3. CASE \E v \in Value : Store(t, p, v)
      BY <2>3, <1>0 DEF Inv, TypeOK, Store
    <2> QED
      BY <2>1, <2>2, <2>3
  <1>o. object' \in [Payload -> Value] /\ \A q \in Payload \ {p} : object'[q] = object[q]
    BY DEF Inv, TypeOK, Fold, Unfold, Store
  <1>2. TypeOK'
    <2>1. owned' \in [Thread -> SUBSET Payload] /\ folded' \in [Thread -> SUBSET Payload]
      <3>1. CASE Fold(t, p)
        BY <3>1, <1>0 DEF Inv, TypeOK, Fold
      <3>2. CASE Unfold(t, p)
        BY <3>2, <1>0 DEF Inv, TypeOK, Unfold
      <3>3. CASE \E v \in Value : Store(t, p, v)
        BY <3>3 DEF Inv, TypeOK, Store
      <3> QED
        BY <3>1, <3>2, <3>3
    <2> QED
      BY <2>1, <1>u, <1>k, <1>o DEF Inv, TypeOK
  <1>3. FlagStorage' /\ Rights'
    BY <1>u DEF Inv, FlagStorage, Rights
  <1>5. Exclusive'
    BY <1>a, <1>b, <1>e DEF Inv, Exclusive
  <1>6. NotRunning'
    <2>1. \A u \in Thread \ running : owned[u] \cup folded[u] = {}
      BY DEF Inv, NotRunning
    <2>2. \A u \in Thread \ running : owned'[u] = {} /\ folded'[u] = {}
      BY <2>1, <1>a
    <2> QED
      BY <2>2, <1>u DEF Inv, NotRunning
  <1>7. ReceivedFactsHold'
    <2>1. CASE Fold(t, p)
      <3>1. object[p] = Ready /\ object' = object
        BY <2>1, <1>0 DEF Fold, Inv, KnowledgeIsCurrent
      <3>2. \A u \in Thread : \A q \in folded'[u] : q = p \/ q \in folded[u]
        BY <2>1, <1>0 DEF Fold, Inv, TypeOK
      <3> QED
        BY <3>1, <3>2, <1>e DEF Inv, ReceivedFactsHold
    <2>2. CASE Unfold(t, p)
      <3>1. object' = object /\ \A u \in Thread : folded'[u] \subseteq folded[u]
        BY <2>2, <1>0 DEF Unfold, Inv, TypeOK
      <3> QED
        BY <3>1, <1>e DEF Inv, ReceivedFactsHold
    <2>3. CASE \E v \in Value : Store(t, p, v)
      <3>1. p \in owned[t] /\ folded' = folded
        BY <2>3 DEF Store
      <3>2. \A u \in Thread : p \notin folded[u]
        BY <3>1, <1>0 DEF Inv, Exclusive
      <3>3. \A f \in Flag : ~Carries(f, p)
        BY <1>h, <1>0 DEF Inv, Exclusive
      <3> QED
        BY <3>1, <3>2, <3>3, <1>e, <1>o DEF Inv, ReceivedFactsHold
    <2> QED
      BY <2>1, <2>2, <2>3
  <1>8. KnowledgeIsCurrent'
    <2>1. known'[t][p] \in {None, object'[p]}
      <3>1. CASE Fold(t, p)
        BY <3>1, <1>0 DEF Fold, Inv, KnowledgeIsCurrent
      <3>2. CASE Unfold(t, p)
        <4>1. object[p] = Ready
          BY <3>2, <1>0 DEF Unfold, Inv, ReceivedFactsHold
        <4> QED
          BY <4>1, <3>2, <1>0 DEF Unfold, Inv, TypeOK
      <3>3. CASE \E v \in Value : Store(t, p, v)
        BY <3>3, <1>0 DEF Store, Inv, TypeOK
      <3> QED
        BY <3>1, <3>2, <3>3
    <2>2. \A u \in Thread : \A q \in owned[u] \cup folded[u] :
              /\ q \in Payload
              /\ q = p => u = t
              /\ known[u][q] \in {None, object[q]}
      BY <1>h, <1>0 DEF Inv, TypeOK, Exclusive, KnowledgeIsCurrent
    <2>3. \A u \in Thread : \A q \in owned[u] \cup folded[u] :
              known'[u][q] \in {None, object'[q]}
      BY <2>1, <2>2, <1>k, <1>o
    <2> QED
      BY <2>3, <1>a DEF KnowledgeIsCurrent
  <1>9. Forgotten'
    <2>1. \A u \in Thread : \A q \in Payload \ (owned[u] \cup folded[u]) : known'[u][q] = None
      BY <1>h, <1>k DEF Inv, Forgotten
    <2> QED
      BY <2>1, <1>a DEF Forgotten
  <1> QED
    BY <1>2, <1>3, <1>5, <1>6, <1>7, <1>8, <1>9 DEF Inv
LEMMA DropRightInv ==
    ASSUME Inv, NEW t \in running, NEW r \in rights[t], DropRight(t, r)
    PROVE  Inv'
  <1> USE PublicationAssumption
  <1>0. t \in Thread
    BY DEF Inv, TypeOK
  <1>u. UNCHANGED <<running, storage, owned, folded, known, flag, object>>
    BY DEF DropRight
  <1>a. \A u \in Thread : rights'[u] \subseteq rights[u]
    BY <1>0 DEF Inv, TypeOK, DropRight
  <1>e. \A f \in Flag, q \in Payload : Carries(f, q)' => Carries(f, q)
    BY <1>a, <1>u DEF Carries
  <1>1. TypeOK'
    <2>1. rights' \in [Thread -> SUBSET PublicationRight]
      BY <1>0 DEF Inv, TypeOK, DropRight
    <2> QED
      BY <2>1, <1>a, <1>u DEF Inv, TypeOK
  <1>2. FlagStorage' /\ Forgotten'
    BY <1>u DEF Inv, FlagStorage, Forgotten
  <1>3. Rights'
    BY <1>a, <1>u DEF Inv, Rights
  <1>4. Exclusive'
    <2>1. \A u \in Thread : \A q \in owned[u] \cup folded[u] : q \in Payload
      BY DEF Inv, TypeOK
    <2>2. \A u \in Thread : \A q \in owned[u] \cup folded[u] : \A g \in Flag : ~Carries(g, q)'
      BY <2>1, <1>e DEF Inv, Exclusive
    <2>3. \A g, h \in Flag : \A q \in Payload : Carries(g, q)' /\ Carries(h, q)' => g = h
      BY <1>e DEF Inv, Exclusive
    <2> QED
      BY <2>2, <2>3, <1>u DEF Inv, Exclusive
  <1>5. NotRunning'
    BY <1>a, <1>u DEF Inv, NotRunning
  <1>6. ReceivedFactsHold'
    BY <1>e, <1>u DEF Inv, ReceivedFactsHold
  <1>7. KnowledgeIsCurrent'
    BY <1>u DEF Inv, KnowledgeIsCurrent
  <1> QED
    BY <1>1, <1>2, <1>3, <1>4, <1>5, <1>6, <1>7 DEF Inv

LEMMA CreateWorkerInv ==
    ASSUME Inv, NEW t \in running, NEW w \in Thread, NEW R \in SUBSET rights[t],
           NEW P \in SUBSET (owned[t] \cup folded[t]), CreateWorker(t, w, R, P)
    PROVE  Inv'
  <1> USE PublicationAssumption
  <1>0. t \in Thread /\ w \notin running /\ w # t
    BY DEF Inv, TypeOK, CreateWorker
  <1>n. rights[w] = {} /\ owned[w] = {} /\ folded[w] = {}
    BY <1>0 DEF Inv, NotRunning
  <1>u. UNCHANGED <<storage, flag, object>> /\ running' = running \cup {w}
    BY DEF CreateWorker
  <1>a. \A u \in Thread : rights'[u] =
            IF u = t THEN rights[t] \ R ELSE IF u = w THEN R ELSE rights[u]
    BY <1>0 DEF Inv, TypeOK, CreateWorker
  <1>b. \A u \in Thread : owned'[u] =
            IF u = t THEN owned[t] \ P ELSE IF u = w THEN owned[t] \cap P ELSE owned[u]
    BY <1>0 DEF Inv, TypeOK, CreateWorker
  <1>c. \A u \in Thread : folded'[u] =
            IF u = t THEN folded[t] \ P ELSE IF u = w THEN folded[t] \cap P ELSE folded[u]
    BY <1>0 DEF Inv, TypeOK, CreateWorker
  <1>k. /\ known' \in [Thread -> [Payload -> Value \cup {None}]]
        /\ \A u \in Thread, q \in Payload :
               known'[u][q] = IF u = t /\ q \in P THEN None ELSE known[u][q]
    BY <1>0 DEF Inv, TypeOK, CreateWorker, Havoc
  \* Who had it before: the worker's from the creator, the others' from themselves.
  <1>d. \A u \in Thread : \A r \in rights'[u] :
            \/ u # w /\ r \in rights[u] /\ (u = t => r \notin R)
            \/ u = w /\ r \in rights[t] /\ r \in R
    BY <1>a, <1>0
  <1>h. \A u \in Thread : \A q \in owned'[u] \cup folded'[u] :
            \/ u # w /\ q \in owned[u] \cup folded[u] /\ (u = t => q \notin P)
            \/ u = w /\ q \in owned[t] \cup folded[t] /\ q \in P
    BY <1>b, <1>c, <1>0
  <1>e. \A f \in Flag, q \in Payload : Carries(f, q)' => Carries(f, q)
    BY <1>d, <1>u, <1>0 DEF Carries
  <1>1. TypeOK'
    <2>1. rights' \in [Thread -> SUBSET PublicationRight]
      BY <1>0 DEF Inv, TypeOK, CreateWorker
    <2>2. owned' \in [Thread -> SUBSET Payload] /\ folded' \in [Thread -> SUBSET Payload]
      BY <1>0 DEF Inv, TypeOK, CreateWorker
    <2>3. \A u \in Thread : \A r \in rights'[u] : r.side = "publisher" => r.observed = None
      BY <1>0, <1>d DEF Inv, TypeOK
    <2> QED
      BY <2>1, <2>2, <2>3, <1>u, <1>k DEF Inv, TypeOK
  <1>2. FlagStorage'
    BY <1>u DEF Inv, FlagStorage
  <1>3. Rights'
    <2>1. ASSUME NEW u \in Thread, NEW v \in Thread, NEW r \in rights'[u], NEW s \in rights'[v],
                 r.flag = s.flag
          PROVE  r.payload = s.payload /\ (r.side = s.side => u = v /\ r = s)
      <3>1. PICK x \in Thread : r \in rights[x] /\ (u = w => x = t /\ r \in R)
                                /\ (u # w => x = u /\ (u = t => r \notin R))
        BY <1>d, <1>0
      <3>2. PICK y \in Thread : s \in rights[y] /\ (v = w => y = t /\ s \in R)
                                /\ (v # w => y = v /\ (v = t => s \notin R))
        BY <1>d, <1>0
      <3>3. r.payload = s.payload /\ (r.side = s.side => x = y /\ r = s)
        BY <3>1, <3>2, <2>1 DEF Inv, Rights
      <3> QED
        BY <3>1, <3>2, <3>3
    <2>2. \A u \in Thread : \A r \in rights'[u] :
              /\ flag[r.flag] # None
              /\ r.side = "publisher" => flag[r.flag] = 0
              /\ r.observed = 1 => flag[r.flag] = 1
      BY <1>0, <1>d DEF Inv, Rights
    <2> QED
      BY <2>1, <2>2, <1>u DEF Rights
  <1>4. Exclusive'
    <2>1. \A u \in Thread : \A q \in owned'[u] \cup folded'[u] : q \in Payload
      BY <1>1 DEF TypeOK
    <2>2. \A u \in Thread : \A q \in owned'[u] \cup folded'[u] : \A g \in Flag : ~Carries(g, q)'
      BY <2>1, <1>0, <1>h, <1>e DEF Inv, Exclusive
    <2>3. \A g, h \in Flag : \A q \in Payload : Carries(g, q)' /\ Carries(h, q)' => g = h
      BY <1>e DEF Inv, Exclusive
    <2>4. \A u, v \in Thread : \A q \in Payload :
              (q \in owned'[u] \cup folded'[u]) /\ (q \in owned'[v] \cup folded'[v]) => u = v
      BY <1>0, <1>h DEF Inv, Exclusive
    <2>5. \A u \in Thread : owned'[u] \cap folded'[u] = {}
      BY <1>0, <1>b, <1>c DEF Inv, Exclusive
    <2> QED
      BY <2>2, <2>3, <2>4, <2>5 DEF Exclusive
  <1>5. NotRunning'
    <2>1. \A u \in Thread \ running' : u \in Thread \ running /\ u # t /\ u # w
      BY <1>0, <1>u
    <2> QED
      BY <2>1, <1>a, <1>b, <1>c, <1>u DEF Inv, NotRunning
  <1>6. ReceivedFactsHold'
    <2>1. \A u \in Thread : \A q \in folded'[u] : q \in folded[u] \/ q \in folded[t]
      BY <1>c
    <2> QED
      BY <2>1, <1>0, <1>e, <1>u DEF Inv, ReceivedFactsHold
  <1>7. KnowledgeIsCurrent'
    <2>1. \A u \in Thread : \A q \in owned'[u] \cup folded'[u] : q \in Payload
      BY <1>1 DEF TypeOK
    <2>2. \A q \in Payload : known[w][q] = None
      BY <1>n DEF Inv, Forgotten
    <2>3. \A u \in Thread : \A q \in owned'[u] \cup folded'[u] : known'[u][q] \in {None, object[q]}
      BY <2>1, <2>2, <1>h, <1>k, <1>0 DEF Inv, KnowledgeIsCurrent
    <2> QED
      BY <2>3, <1>u DEF KnowledgeIsCurrent
  <1>8. Forgotten'
    <2>1. \A q \in Payload : known[w][q] = None
      BY <1>n DEF Inv, Forgotten
    <2>2. \A u \in Thread : \A q \in Payload : u # w /\ q \in owned[u] \cup folded[u] =>
              q \in owned'[u] \cup folded'[u] \/ (u = t /\ q \in P)
      BY <1>b, <1>c
    <2>3. \A u \in Thread : \A q \in Payload :
              q \notin owned'[u] \cup folded'[u] => known'[u][q] = None
      BY <2>1, <2>2, <1>k, <1>0 DEF Inv, Forgotten
    <2> QED
      BY <2>3 DEF Forgotten
  <1> QED
    BY <1>1, <1>2, <1>3, <1>4, <1>5, <1>6, <1>7, <1>8 DEF Inv

LEMMA StutterInv == Inv /\ UNCHANGED vars => Inv'
  <1> SUFFICES ASSUME Inv, UNCHANGED vars PROVE Inv'
    OBVIOUS
  <1> USE DEF vars
  <1>e. \A f, q : Carries(f, q)' <=> Carries(f, q)
    BY DEF Carries
  <1>1. TypeOK' /\ FlagStorage'
    BY DEF Inv, TypeOK, FlagStorage
  <1>2. Rights' /\ NotRunning' /\ Forgotten'
    BY DEF Inv, Rights, NotRunning, Forgotten
  <1>3. Exclusive'
    BY <1>e DEF Inv, Exclusive
  <1>4. ReceivedFactsHold' /\ KnowledgeIsCurrent'
    BY <1>e DEF Inv, ReceivedFactsHold, KnowledgeIsCurrent
  <1> QED
    BY <1>1, <1>2, <1>3, <1>4 DEF Inv

LEMMA Invariance == Spec => []Inv
  <1>1. Inv /\ [Next]_vars => Inv'
    <2> SUFFICES ASSUME Inv, Next PROVE Inv'
      BY StutterInv
    <2>1. PICK t \in running : Step(t)
      BY DEF Next
    <2>2. CASE \E f \in Flag, p \in Payload : AtomicInit(t, f, p)
      BY <2>2, AtomicInitInv
    <2>3. CASE \E f \in Flag : ReleaseStore(t, f)
      BY <2>3, ReleaseStoreInv
    <2>4. CASE \E f \in Flag, value \in Word : AcquireLoad(t, f, value)
      BY <2>4, AcquireLoadInv
    <2>5. CASE \E decided \in (SUBSET ObservedPublicationRights(t)) \ {{}} :
                  ResolveObservedPublications(t, decided)
      BY <2>5, ResolveInv
    <2>6. CASE \E r \in rights[t] : DropRight(t, r)
      BY <2>6, DropRightInv
    <2>7. CASE \E p \in Payload :
                  Fold(t, p) \/ Unfold(t, p) \/ \E v \in Value : Store(t, p, v)
      BY <2>7, PayloadStepInv
    <2>8. CASE \E u \in Thread, R \in SUBSET rights[t], P \in SUBSET (owned[t] \cup folded[t]) :
                  CreateWorker(t, u, R, P)
      BY <2>8, CreateWorkerInv
    <2> QED
      BY <2>1, <2>2, <2>3, <2>4, <2>5, <2>6, <2>7, <2>8 DEF Step
  <1> QED
    BY InitInv, <1>1, PTL DEF Spec

\* No payload is ever in two places (release_store, acquire_load and the
\* settling branch of resolve_observed_publications together).
THEOREM PayloadIsExclusive == Spec => []PayloadInOnePlace
  <1>1. Inv => PayloadInOnePlace
    <2> SUFFICES ASSUME Inv, NEW p \in Payload, NEW a \in Places(p), NEW b \in Places(p)
                 PROVE  a = b
      BY DEF PayloadInOnePlace
    <2>1. \A c \in Places(p) :
              \/ \E t \in Thread : c = <<"object", t>> /\ p \in owned[t]
              \/ \E t \in Thread : c = <<"folded", t>> /\ p \in folded[t]
              \/ \E f \in Flag : c = <<"flag", f>> /\ Carries(f, p)
      BY DEF Places
    <2> QED
      BY <2>1 DEF Inv, Exclusive
  <1> QED
    BY <1>1, Invariance, PTL

\* A received payload keeps the promise of its body (resolve_observed_publications
\* hands it out folded, as release_store took it).
THEOREM ReceivedPayloadsKeepTheirFacts == Spec => []ReceivedFactsHold
  BY Invariance, PTL DEF Inv

\* No thread acts on what it knew of an object before it gave it away.
THEOREM ThreadKnowledgeIsCurrent == Spec => []KnowledgeIsCurrent
  BY Invariance, PTL DEF Inv
=============================================================================
