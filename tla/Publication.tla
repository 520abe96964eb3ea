----------------------------- MODULE Publication -----------------------------
(***************************************************************************)
(* One-shot publication through an atomic flag (src/kernel/publication.rs).*)
(*                                                                         *)
(* Every thread runs code that the kernel has verified on its own: what    *)
(* the thread may do is what its resources allow.  The module puts the     *)
(* verified threads together with the execution they share (the flags and  *)
(* the memory of the payloads), where the steps of the others fall between *)
(* a load of a flag and the C branch that tests the loaded value.          *)
(*                                                                         *)
(* A payload is a resource with a body that owns one object and states a   *)
(* fact about its value.  Creation of workers is one step here: its        *)
(* undecided status is the subject of ThreadLedger.                        *)
(***************************************************************************)
EXTENDS Integers

CONSTANTS
    Thread, Main,   \* threads; Main runs from the start
    Flag,           \* objects of type atomic_int
    Payload,        \* closed applications P(args) of a field-free resource
    Value, Ready,   \* values of a payload's object; the one its fact states
    None            \* Option::None, and an unknown value

ASSUME PublicationAssumption ==
    /\ Main \in Thread
    /\ Ready \in Value
    /\ None \notin Value \cup {0, 1} \cup Payload

VARIABLES
    running,    \* threads that exist
    storage,    \* thread -> flags whose storage it owns as an ordinary object
    rights,     \* thread -> publication rights it owns
    owned,      \* thread -> payloads whose object it owns, body unfolded
    folded,     \* thread -> payloads it owns folded
    known,      \* thread -> what its memory says of each payload's object
    flag,       \* the value of each flag: None, 0, or 1 for nonzero
    object      \* the value of each payload's object

vars == <<running, storage, rights, owned, folded, known, flag, object>>

\* An int that the protocol tells apart: zero or not.
Word == {0, 1}

Side == {"publisher", "subscriber"}

PublicationRight ==
    [side : Side, flag : Flag, payload : Payload, observed : Word \cup {None}]

Right(side, f, p, observed) ==
    [side |-> side, flag |-> f, payload |-> p, observed |-> observed]

\* Main starts with everything; nothing is known of the payloads' objects.
Init ==
    /\ running = {Main}
    /\ storage = [t \in Thread |-> IF t = Main THEN Flag ELSE {}]
    /\ rights = [t \in Thread |-> {}]
    /\ owned = [t \in Thread |-> IF t = Main THEN Payload ELSE {}]
    /\ folded = [t \in Thread |-> {}]
    /\ known = [t \in Thread |-> [p \in Payload |-> None]]
    /\ flag = [f \in Flag |-> None]
    /\ object \in [Payload -> Value]

----------------------------------------------------------------------------
(* The operations on flags                                                 *)

\* publication_right_at
RightsAt(t, side, f) == {r \in rights[t] : r.side = side /\ r.flag = f}

\* Mistake: the flag stays an ordinary object of the thread.
WithStorageKept(t, f) == storage

\* without_owned_storage_access
WithoutOwnedStorage(t, f) == [storage EXCEPT ![t] = @ \ {f}]

\* atomic_init(&flag, 0) takes the storage for good and mints both rights.
AtomicInit(t, f, p) ==
    /\ f \in storage[t]
    /\ storage' = WithoutOwnedStorage(t, f)
    /\ rights' = [rights EXCEPT ![t] = @ \cup {Right(side, f, p, None) : side \in Side}]
    /\ flag' = [flag EXCEPT ![f] = 0]
    /\ UNCHANGED <<running, owned, folded, known, object>>

\* Mistake: the memory of the thread keeps what it says of the objects.
HavocNothing(t, P) == known

\* with_call_memory_havoc over the ranges of payloads given away
Havoc(t, P) ==
    [known EXCEPT ![t] = [p \in Payload |-> IF p \in P THEN None ELSE @[p]]]

\* A release store of a nonzero value surrenders the right and the payload.
ReleaseStore(t, f) ==
    \E r \in RightsAt(t, "publisher", f) :
        /\ r.payload \in folded[t]
        /\ rights' = [rights EXCEPT ![t] = @ \ {r}]
        /\ folded' = [folded EXCEPT ![t] = @ \ {r.payload}]
        /\ known' = Havoc(t, {r.payload})
        /\ flag' = [flag EXCEPT ![f] = 1]
        /\ UNCHANGED <<running, storage, owned, object>>

\* An acquire load marks the right with the value it returned.  C11 lets it
\* return the initial zero after the store.  A load without the right, or one
\* refused because the earlier value is untested, leaves the state as it is.
AcquireLoad(t, f, value) ==
    /\ value \in {0, flag[f]}
    /\ \E r \in RightsAt(t, "subscriber", f) :
        /\ r.observed = None
        /\ rights' = [rights EXCEPT ![t] =
                        (@ \ {r}) \cup {[r EXCEPT !.observed = value]}]
    /\ UNCHANGED <<running, storage, owned, folded, known, flag, object>>

ObservedPublicationRights(t) == {r \in rights[t] : r.observed # None}

\* Mistake: any tested value is taken for a published one.
PublishedAlways(r) == TRUE

\* What a branch that decides the loaded value knows of it.
Published(r) == r.observed # 0

\* A C branch settles the rights in decided: zero keeps the right, nonzero
\* exchanges it for the payload.  The others stay observed.
ResolveObservedPublications(t, decided) ==
    /\ rights' = [rights EXCEPT ![t] =
            (@ \ decided) \cup
            {[r EXCEPT !.observed = None] : r \in {d \in decided : ~Published(d)}}]
    /\ folded' = [folded EXCEPT ![t] =
            @ \cup {r.payload : r \in {d \in decided : Published(d)}}]
    /\ UNCHANGED <<running, storage, owned, known, flag, object>>

\* Rights are affine: a frame may end with them.
DropRight(t, r) ==
    /\ rights' = [rights EXCEPT ![t] = @ \ {r}]
    /\ UNCHANGED <<running, storage, owned, folded, known, flag, object>>

----------------------------------------------------------------------------
(* What threads do with payloads, and creation of workers                  *)

\* The fact of the body must follow from what the thread knows.
Fold(t, p) ==
    /\ p \in owned[t]
    /\ known[t][p] = Ready
    /\ owned' = [owned EXCEPT ![t] = @ \ {p}]
    /\ folded' = [folded EXCEPT ![t] = @ \cup {p}]
    /\ UNCHANGED <<running, storage, rights, known, flag, object>>

\* Unfolding grants the object and the fact.
Unfold(t, p) ==
    /\ p \in folded[t]
    /\ folded' = [folded EXCEPT ![t] = @ \ {p}]
    /\ owned' = [owned EXCEPT ![t] = @ \cup {p}]
    /\ known' = [known EXCEPT ![t][p] = Ready]
    /\ UNCHANGED <<running, storage, rights, flag, object>>

Store(t, p, v) ==
    /\ p \in owned[t]
    /\ object' = [object EXCEPT ![p] = v]
    /\ known' = [known EXCEPT ![t][p] = v]
    /\ UNCHANGED <<running, storage, rights, owned, folded, flag>>

\* A successful pthread_create: the worker's contract consumes rights and
\* payloads of the creator.  An observed right matches no contract.
CreateWorker(t, u, R, P) ==
    /\ u \notin running
    /\ \A r \in R : r.observed = None
    /\ running' = running \cup {u}
    /\ rights' = [rights EXCEPT ![t] = @ \ R, ![u] = R]
    /\ owned' = [owned EXCEPT ![t] = @ \ P, ![u] = owned[t] \cap P]
    /\ folded' = [folded EXCEPT ![t] = @ \ P, ![u] = folded[t] \cap P]
    /\ known' = Havoc(t, P)
    /\ UNCHANGED <<storage, flag, object>>

Step(t) ==
    \/ \E f \in Flag, p \in Payload : AtomicInit(t, f, p)
    \/ \E f \in Flag : ReleaseStore(t, f)
    \/ \E f \in Flag, value \in Word : AcquireLoad(t, f, value)
    \/ \E decided \in (SUBSET ObservedPublicationRights(t)) \ {{}} :
            ResolveObservedPublications(t, decided)
    \/ \E r \in rights[t] : DropRight(t, r)
    \/ \E p \in Payload : Fold(t, p) \/ Unfold(t, p)
    \/ \E p \in Payload, v \in Value : Store(t, p, v)
    \/ \E u \in Thread, R \in SUBSET rights[t], P \in SUBSET (owned[t] \cup folded[t]) :
            CreateWorker(t, u, R, P)

Next == \E t \in running : Step(t)

Spec == Init /\ [][Next]_vars

----------------------------------------------------------------------------
(* Properties                                                              *)

\* The types, and that only a subscriber right is ever read through: the
\* index of rights by flag (publication_right_at) never mixes the sides.
TypeOK ==
    /\ running \subseteq Thread
    /\ storage \in [Thread -> SUBSET Flag]
    /\ rights \in [Thread -> SUBSET PublicationRight]
    /\ owned \in [Thread -> SUBSET Payload]
    /\ folded \in [Thread -> SUBSET Payload]
    /\ known \in [Thread -> [Payload -> Value \cup {None}]]
    /\ flag \in [Flag -> Word \cup {None}]
    /\ object \in [Payload -> Value]
    /\ \A t \in Thread : \A r \in rights[t] :
            r.side = "publisher" => r.observed = None

\* The flags that carry a payload: published, and the right to take it exists.
Carries(f, p) ==
    /\ flag[f] = 1
    /\ \E t \in Thread : \E r \in rights[t] :
            r.side = "subscriber" /\ r.flag = f /\ r.payload = p

Places(p) ==
    {<<"object", t>> : t \in {u \in Thread : p \in owned[u]}} \cup
    {<<"folded", t>> : t \in {u \in Thread : p \in folded[u]}} \cup
    {<<"flag", f>> : f \in {g \in Flag : Carries(g, p)}}

\* A payload is in one place at most, with one thread or on its way through
\* one flag, although a release store gives it away with no receiver and a
\* branch takes it with no giver (release_store, resolve_observed_publications).
PayloadInOnePlace ==
    \A p \in Payload : \A a, b \in Places(p) : a = b

\* What a thread will assume when it unfolds a payload is true of the object,
\* also of a payload it received from a flag: nobody wrote the object since
\* the publisher folded it.
ReceivedFactsHold ==
    \A p \in Payload :
        ((\E t \in Thread : p \in folded[t]) \/ (\E f \in Flag : Carries(f, p)))
            => object[p] = Ready

\* The memory of a thread is true of the objects it owns, folded or not: a
\* thread that published a payload and got it back through another flag does
\* not remember its own last value (the havoc of release_store).
KnowledgeIsCurrent ==
    \A t \in Thread : \A p \in owned[t] \cup folded[t] :
        known[t][p] \in {None, object[p]}
=============================================================================
