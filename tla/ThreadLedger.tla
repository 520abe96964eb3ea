---------------------------- MODULE ThreadLedger ----------------------------
(***************************************************************************)
(* Modelled pthreads (src/kernel/threads.rs and its binding in             *)
(* src/kernel/loops.rs): one parent path creates and joins workers.        *)
(*                                                                         *)
(* pthread_create returns a status the verifier does not know yet.  Until  *)
(* a branch decides it, the parent runs with an undecided creation: it has *)
(* only the authority common to both outcomes, and the stores it makes are *)
(* remembered and replayed if creation turns out to have succeeded.        *)
(*                                                                         *)
(* Next to what the verifier knows (auth, memory, pending) the module has  *)
(* the execution it stands for: whether the system created the worker, the *)
(* bytes in memory, and what each worker does.                             *)
(***************************************************************************)
EXTENDS Integers, FiniteSets, Sequences

CONSTANTS
    Cell,           \* scalars the parent owns and may hand to a worker
    Local,          \* locals of the parent that a worker may only view
    Mutex, Payload, \* Mutex -> the object its invariant owns
    Task,           \* verified, terminating worker applications
    Takes,          \* Task -> cells whose ownership the worker takes
    Views,          \* Task -> locals the worker views
    Uses,           \* Task -> mutexes whose use the worker borrows
    Value,          \* values of cells
    MaxHandles, MaxDeltas, MaxSteps,    \* bounds
    None            \* Option::None, and an unknown value

\* The steps of a loan ledger, by what made them.
Kind == {"create", "join", "other"}

ASSUME ThreadAssumption ==
    /\ Cell \cap Local = {}
    /\ Takes \in [Task -> SUBSET Cell]
    /\ Views \in [Task -> SUBSET Local]
    /\ Uses \in [Task -> SUBSET Mutex]
    /\ None \notin Value
    /\ \A m \in Mutex : Payload[m] \notin Cell \cup Local
    \* what an invariant owns is in no other invariant
    /\ \A m, n \in Mutex : Payload[m] = Payload[n] => m = n
    /\ None \notin [origin : Seq(Kind), current : Seq(Kind)]

VARIABLES
    auth,       \* resources, loan ledger and thread ledger of the CState
    memory,     \* the memory of the CState: a value or None
    pending,    \* pending_thread_create: a sequence of at most one
    handles,    \* handle values in the locals of the parent
    locked,     \* mutexes whose guard the parent holds
    nextHandle, \* static NEXT_HANDLE
    returned,   \* the parent function has returned
    worker,     \* handle -> what really became of that creation
    bytes,      \* what memory really holds
    joining     \* handles of a pthread_join call that has not returned

vars == <<auth, memory, pending, handles, locked, nextHandle, returned,
          worker, bytes, joining>>

Guarded == {Payload[m] : m \in Mutex}
Object == Cell \cup Local \cup Guarded
Workers == DOMAIN worker

WithInserted(f, k, v) ==
    [x \in DOMAIN f \cup {k} |-> IF x = k THEN v ELSE f[x]]

WithoutKey(f, k) == [x \in DOMAIN f \ {k} |-> f[x]]

EmptyMap == [x \in {} |-> x]

----------------------------------------------------------------------------
(* The thread ledger                                                       *)

\* origin and current identify loan ledgers by the steps that made them.
Trace(origin, current) == [origin |-> origin, current |-> current]

\* Mistake: continues a trace although the ledger moved on in between.
AdvancedTraceAnyway(threads, before, after) ==
    IF threads.trace # None THEN Trace(threads.trace.origin, after)
    ELSE IF DOMAIN threads.rights = {} THEN Trace(before, after) ELSE None

AdvancedTrace(threads, before, after) ==
    IF threads.trace # None /\ threads.trace.current = before
    THEN Trace(threads.trace.origin, after)
    ELSE IF DOMAIN threads.rights = {} THEN Trace(before, after) ELSE None

Counted(threads, t) ==
    [m \in Mutex |-> threads.mutexWorkers[m] + IF m \in Uses[t] THEN 1 ELSE 0]

Uncounted(threads, t) ==
    [m \in Mutex |-> threads.mutexWorkers[m] - IF m \in Uses[t] THEN 1 ELSE 0]

WithRight(threads, h, t, before, after) ==
    [rights |-> WithInserted(threads.rights, h, t),
     trace |-> AdvancedTrace(threads, before, after),
     localViews |-> threads.localViews \cup Views[t],
     mutexWorkers |-> Counted(threads, t)]

WithoutRight(threads, h, before, after, closed) ==
    [rights |-> WithoutKey(threads.rights, h),
     trace |-> AdvancedTrace(threads, before, after),
     localViews |-> threads.localViews \ closed,
     mutexWorkers |-> Uncounted(threads, threads.rights[h])]

\* A parent that joined all its workers may answer for the loans in between.
WitnessesLoanRecovery(threads, origin, current) ==
    /\ DOMAIN threads.rights = {}
    /\ threads.localViews = {}
    /\ \A m \in Mutex : threads.mutexWorkers[m] = 0
    /\ threads.trace = Trace(origin, current)

----------------------------------------------------------------------------
(* Authority of the parent                                                 *)

\* The loan ledger after a step; lent counts the shares workers hold of the
\* implicit views of locals.
LoanAfter(kind, lent) ==
    [steps |-> Append(auth.loan.steps, kind), lent |-> lent]

MayUsePayload(o) == \E m \in locked : Payload[m] = o

\* A store needs the owner, a local no worker views, or the guard.
MayWrite(a, o) ==
    CASE o \in Cell -> o \in a.own
      [] o \in Local -> a.loan.lent[o] = 0
      [] o \in Guarded -> MayUsePayload(o)

MayRead(a, o) == o \in Local \/ o \in a.own \/ MayUsePayload(o)

\* The parent after creation succeeded.
SuccessAuthority(h, t) ==
    LET loan == LoanAfter("create",
            [o \in Local |-> auth.loan.lent[o] + IF o \in Views[t] THEN 1 ELSE 0])
    IN [own |-> auth.own \ Takes[t],
        loan |-> loan,
        threads |-> WithRight(auth.threads, h, t, auth.loan.steps, loan.steps)]

\* Mistake: keeps what the failed creation would have left.
NeutralAsFailed(success) == auth

\* While undecided: resources and loans as if the worker ran, no right yet.
Neutral(success) ==
    [own |-> success.own, loan |-> success.loan, threads |-> auth.threads]

----------------------------------------------------------------------------
(* Creation                                                                *)

Idle == ~returned /\ joining = {}

\* Mistake: lets a parent that holds a guard create and join.
MayUseThreadsLocked == Idle /\ pending = <<>>

\* ThreadContext::new and the refusal of a second unresolved creation.
MayUseThreads == Idle /\ pending = <<>> /\ locked = {}

Create(t, succeeds) ==
    LET h == nextHandle
        success == SuccessAuthority(h, t)
    IN
    /\ MayUseThreads
    /\ nextHandle <= MaxHandles /\ Len(auth.loan.steps) < MaxSteps
    /\ Takes[t] \subseteq auth.own
    /\ auth' = Neutral(success)
    /\ pending' = <<[handle |-> h, success |-> success, failure |-> auth,
                     memory |-> [o \in Object |->
                         IF o \in Takes[t] \cup {Payload[m] : m \in Uses[t]}
                         THEN None ELSE memory[o]],
                     deltas |-> <<>>]>>
    /\ nextHandle' = h + 1
    /\ worker' = WithInserted(worker, h,
                     [task |-> t, state |-> IF succeeds THEN "running" ELSE "failed"])
    /\ UNCHANGED <<memory, handles, locked, returned, bytes, joining>>

Delta(o, v) == [object |-> o, value |-> v]

\* Mistake: the store is not remembered for the other outcome.
ForgottenDelta(p, o, v) == p

WithDelta(p, o, v) ==
    [handle |-> p.handle, success |-> p.success, failure |-> p.failure,
     memory |-> p.memory, deltas |-> Append(p.deltas, Delta(o, v))]

\* A store to owned memory, or an assignment to a local.
Store(o, v) ==
    /\ Idle
    /\ MayWrite(auth, o)
    /\ memory' = [memory EXCEPT ![o] = v]
    /\ bytes' = [bytes EXCEPT ![o] = v]
    /\ IF pending = <<>> THEN UNCHANGED pending
       ELSE /\ Len(pending[1].deltas) < MaxDeltas
            /\ pending' = <<WithDelta(pending[1], o, v)>>
    /\ UNCHANGED <<auth, handles, locked, nextHandle, returned, worker,
                   joining>>

\* The memory after the remembered stores, in source order.
Replayed(p) ==
    [o \in Object |->
        LET stores == {n \in 1 .. Len(p.deltas) : p.deltas[n].object = o} IN
        IF stores = {} THEN p.memory[o]
        ELSE p.deltas[CHOOSE n \in stores : \A k \in stores : k <= n].value]

\* A branch decided the status, as it really was.
ResolveSuccess ==
    /\ Idle
    /\ pending # <<>> /\ worker[pending[1].handle].state # "failed"
    /\ auth' = pending[1].success
    /\ memory' = Replayed(pending[1])
    /\ handles' = handles \cup {pending[1].handle}
    /\ pending' = <<>>
    /\ UNCHANGED <<locked, nextHandle, returned, worker, bytes, joining>>

ResolveFailure ==
    /\ Idle
    /\ pending # <<>> /\ worker[pending[1].handle].state = "failed"
    /\ auth' = pending[1].failure
    /\ pending' = <<>>
    /\ UNCHANGED <<memory, handles, locked, nextHandle, returned, worker,
                   bytes, joining>>

----------------------------------------------------------------------------
(* Join and return                                                         *)

\* The call is accepted; the parent then waits for the worker.
StartJoin(h) ==
    /\ MayUseThreads
    /\ h \in DOMAIN auth.threads.rights
    /\ Len(auth.loan.steps) < MaxSteps
    /\ joining' = {h}
    /\ UNCHANGED <<auth, memory, pending, handles, locked, nextHandle,
                   returned, worker, bytes>>

\* The outputs of the worker join the current frame of the parent, the shares
\* of its views come back, and a local nobody views any more is released.
FinishJoin(h) ==
    LET t == auth.threads.rights[h]
        lent == [o \in Local |-> auth.loan.lent[o] - IF o \in Views[t] THEN 1 ELSE 0]
        loan == LoanAfter("join", lent)
    IN
    /\ h \in joining
    /\ worker[h].state = "finished"
    /\ auth' = [own |-> auth.own \cup Takes[t],
                loan |-> loan,
                threads |-> WithoutRight(auth.threads, h, auth.loan.steps,
                                loan.steps, {o \in Views[t] : lent[o] = 0})]
    /\ joining' = {}
    /\ worker' = [worker EXCEPT ![h].state = "joined"]
    /\ UNCHANGED <<memory, pending, handles, locked, nextHandle,
                   returned, bytes>>

\* Any other checked transition of the parent's loan ledger.
OtherLoanStep ==
    /\ Idle /\ pending = <<>>
    /\ Len(auth.loan.steps) < MaxSteps
    /\ auth' = [own |-> auth.own, loan |-> LoanAfter("other", auth.loan.lent),
                threads |-> auth.threads]
    /\ UNCHANGED <<memory, pending, handles, locked, nextHandle,
                   returned, worker, bytes, joining>>

HasLiveCompletion == pending # <<>> \/ DOMAIN auth.threads.rights # {}

Return ==
    /\ Idle
    /\ ~HasLiveCompletion
    /\ locked = {}
    /\ returned' = TRUE
    /\ UNCHANGED <<auth, memory, pending, handles, locked, nextHandle,
                   worker, bytes, joining>>

\* While workers use the mutex, its payload may have changed behind us.
FreshenPayload(m) ==
    memory' = IF auth.threads.mutexWorkers[m] > 0
              THEN [memory EXCEPT ![Payload[m]] = None] ELSE memory

Lock(m) ==
    /\ Idle /\ pending = <<>>
    /\ m \notin locked
    /\ FreshenPayload(m)
    /\ locked' = locked \cup {m}
    /\ UNCHANGED <<auth, pending, handles, nextHandle, returned, worker, bytes,
                   joining>>

Unlock(m) ==
    /\ Idle /\ pending = <<>>
    /\ m \in locked
    /\ FreshenPayload(m)
    /\ locked' = locked \ {m}
    /\ UNCHANGED <<auth, pending, handles, nextHandle, returned, worker, bytes,
                   joining>>

----------------------------------------------------------------------------
(* What the workers do                                                     *)

\* A worker writes what it took, and payloads in its critical sections.
WorkerStore(h, o, v) ==
    /\ worker[h].state = "running"
    /\ \/ o \in Takes[worker[h].task]
       \/ \E m \in Uses[worker[h].task] \ locked : o = Payload[m]
    /\ bytes' = [bytes EXCEPT ![o] = v]
    /\ UNCHANGED <<auth, memory, pending, handles, locked, nextHandle,
                   returned, worker, joining>>

\* A worker passes through its critical sections before it ends.
WorkerFinish(h) ==
    /\ worker[h].state = "running"
    /\ Uses[worker[h].task] \cap locked = {}
    /\ worker' = [worker EXCEPT ![h].state = "finished"]
    /\ UNCHANGED <<auth, memory, pending, handles, locked, nextHandle,
                   returned, bytes, joining>>

Init ==
    /\ auth = [own |-> Cell,
               loan |-> [steps |-> <<>>, lent |-> [o \in Local |-> 0]],
               threads |-> [rights |-> EmptyMap, trace |-> None,
                            localViews |-> {},
                            mutexWorkers |-> [m \in Mutex |-> 0]]]
    /\ bytes \in [Object -> Value]
    /\ memory = [o \in Object |-> None]
    /\ pending = <<>> /\ handles = {} /\ locked = {}
    /\ nextHandle = 1 /\ returned = FALSE
    /\ worker = EmptyMap /\ joining = {}

WorkerStep ==
    \E h \in Workers :
        \/ \E o \in Object, v \in Value : WorkerStore(h, o, v)
        \/ WorkerFinish(h)

Next ==
    \/ \E t \in Task, succeeds \in BOOLEAN : Create(t, succeeds)
    \/ \E o \in Object, v \in Value : Store(o, v)
    \/ ResolveSuccess
    \/ ResolveFailure
    \/ \E h \in handles : StartJoin(h)
    \/ \E h \in joining : FinishJoin(h)
    \/ OtherLoanStep
    \/ Return
    \/ \E m \in Mutex : Lock(m) \/ Unlock(m)
    \/ WorkerStep

\* Workers terminate and the system schedules them; pthread_join returns.
Spec ==
    /\ Init /\ [][Next]_vars
    /\ \A h \in 1 .. MaxHandles :
          /\ WF_vars(h \in Workers /\ WorkerFinish(h))
          /\ WF_vars(h \in joining /\ FinishJoin(h))

----------------------------------------------------------------------------
(* Properties                                                              *)

\* Whatever the system decided and whenever the parent learns it, nothing the
\* parent may write is at the disposal of a running worker, nothing it may
\* read is written by one, and no worker outlives the frame it may use.
NoDataRace ==
    \A h \in Workers : worker[h].state = "running" =>
        LET t == worker[h].task IN
        /\ \A o \in Takes[t] \cup Views[t] : ~MayWrite(auth, o)
        /\ \A o \in Takes[t] : ~MayRead(auth, o)
        /\ ~returned

\* What the verifier knows of an object the parent can read is what memory
\* holds: after stores that were made before the creation was decided, and
\* after a mutex was locked again while any one of several workers may run.
MemoryAgrees ==
    \A o \in {o \in Cell \cup Local : MayRead(auth, o)} \cup {Payload[m] : m \in locked} :
        memory[o] # None => memory[o] = bytes[o]

\* A thread ledger answers for a stretch of loan steps only if creates and
\* joins made all of them.
WitnessIsThreadSteps ==
    \A n \in 0 .. Len(auth.loan.steps) :
        WitnessesLoanRecovery(auth.threads, SubSeq(auth.loan.steps, 1, n),
                              auth.loan.steps) =>
            \A k \in (n + 1) .. Len(auth.loan.steps) :
                auth.loan.steps[k] \in {"create", "join"}

\* A join the verifier accepted returns: the parent never waits for a worker
\* that waits for the parent.
JoinsReturn == \A h \in 1 .. MaxHandles : h \in joining ~> h \notin joining
=============================================================================
