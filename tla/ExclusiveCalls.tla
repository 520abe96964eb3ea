--------------------------- MODULE ExclusiveCalls ---------------------------
(***************************************************************************)
(* Synchronous borrows of ownership (src/kernel/loans/exclusive_calls.rs). *)
(*                                                                         *)
(* A call that borrows owned memory records a receipt in the ledger: who   *)
(* lent to whom, which occurrences are reserved, and under which open call *)
(* the lender itself runs.  The receipt is returned once, by the lender,   *)
(* after every call nested in it.                                          *)
(*                                                                         *)
(* The ledger is a persistent value.  A call that leaves nothing behind    *)
(* resumes at the version it started from, so this module keeps every      *)
(* version that was ever made, and any of them may be the current one.  A  *)
(* transition is checked against one version when it is issued and may be  *)
(* presented to any version later.                                         *)
(***************************************************************************)
EXTENDS Integers, FiniteSets

CONSTANTS
    Participant,        \* LoanParticipantIds of one arena
    Support,            \* owned memory occurrences a call may reserve
    Root,               \* the participant that owns them all at first
    MaxCalls, MaxStates,\* bounds on the two global identity counters
    None                \* Option::None

ASSUME ExclusiveAssumption ==
    /\ Root \in Participant
    /\ None \notin Nat
    /\ MaxCalls \in Nat /\ MaxStates \in Nat \ {0}

VARIABLES
    ledgers,        \* the versions of the ledger, with the resource partition
    transitions,    \* the CheckedLoanTransitions issued so far
    nextCall,       \* static NEXT of open_exclusive_call
    nextState       \* static NEXT of LoanLedgerStateId::fresh

vars == <<ledgers, transitions, nextCall, nextState>>

----------------------------------------------------------------------------
(* Records                                                                 *)

ExclusiveCallBinding ==
    [id : Nat, caller : Participant, callee : Participant,
     parent : Nat \cup {None}, supports : SUBSET Support]

Get(f, k) == IF k \in DOMAIN f THEN f[k] ELSE None

WithInserted(f, k, v) ==
    [x \in DOMAIN f \cup {k} |-> IF x = k THEN v ELSE f[x]]

WithoutKey(f, k) == [x \in DOMAIN f \ {k} |-> f[x]]

CallRecord(b, active, children) ==
    [binding |-> b, active |-> active, children |-> children]

Active(calls, i) == i \in DOMAIN calls /\ calls[i].active

\* The calls with parent changed to have n open children.
WithChildren(calls, parent, n) ==
    IF parent = None THEN calls
    ELSE WithInserted(calls, parent,
             CallRecord(calls[parent].binding, calls[parent].active, n))

----------------------------------------------------------------------------
(* Opening and returning a call                                            *)

\* Mistake: numbers the calls of each ledger version from zero.
NewBindingPerLedger(L, caller, callee, supports) ==
    [id |-> Cardinality(DOMAIN L.calls), caller |-> caller, callee |-> callee,
     parent |-> Get(L.holders, caller), supports |-> supports]

\* The binding a plan asks for: the caller's own reservation is its parent.
NewBinding(L, caller, callee, supports) ==
    [id |-> nextCall, caller |-> caller, callee |-> callee,
     parent |-> Get(L.holders, caller), supports |-> supports]

\* apply_exclusive_open accepts the binding against this version.
MayOpen(L, b) ==
    /\ b.caller # b.callee
    /\ b.supports # {}
    /\ b.id \notin DOMAIN L.calls
    /\ b.callee \notin DOMAIN L.holders
    /\ Get(L.holders, b.caller) = b.parent
    /\ b.parent # None =>
          Active(L.calls, b.parent)
          /\ L.calls[b.parent].binding.callee = b.caller

\* The reserved occurrences move from the caller's context to the callee's.
Opened(L, b, state) ==
    [state |-> state,
     calls |-> WithInserted(
         WithChildren(L.calls, b.parent,
             IF b.parent = None THEN 0 ELSE L.calls[b.parent].children + 1),
         b.id, CallRecord(b, TRUE, 0)),
     holders |-> WithInserted(L.holders, b.callee, b.id),
     at |-> [o \in Support |-> IF o \in b.supports THEN b.callee ELSE L.at[o]]]

\* The receipt is the one on record and its callee still holds it.
ValidateExclusiveCall(L, b, holder) ==
    /\ holder = b.callee
    /\ Active(L.calls, b.id)
    /\ L.calls[b.id].binding = b
    /\ Get(L.holders, holder) = b.id

\* Mistake: forgets the ActiveDependency check.
MayReturnEarly(L, b, holder) ==
    holder = b.caller /\ ValidateExclusiveCall(L, b, b.callee)

\* apply_exclusive_return: only the lender, and only after the nested calls.
MayReturn(L, b, holder) ==
    /\ holder = b.caller
    /\ ValidateExclusiveCall(L, b, b.callee)
    /\ L.calls[b.id].children = 0

ReturnedCalls(L, b) ==
    LET closed == WithInserted(L.calls, b.id,
                      CallRecord(b, FALSE, L.calls[b.id].children))
    IN WithChildren(closed, b.parent,
           IF b.parent = None THEN 0 ELSE closed[b.parent].children - 1)

\* The callee's contract gives the borrowed occurrences back.
Returned(L, b, state) ==
    [state |-> state,
     calls |-> ReturnedCalls(L, b),
     holders |-> WithoutKey(L.holders, b.callee),
     at |-> [o \in Support |-> IF o \in b.supports THEN b.caller ELSE L.at[o]]]

----------------------------------------------------------------------------
(* Issuing and applying transitions                                        *)

Issue(L, kind, b, holder) ==
    /\ nextState < MaxStates
    /\ transitions' = transitions \cup
          {[before |-> L.state, after |-> nextState, kind |-> kind,
            binding |-> b, holder |-> holder]}
    /\ nextState' = nextState + 1
    /\ UNCHANGED ledgers

\* plan_stable_view_transfer reserves occurrences of the caller's residual.
Open(L, caller, callee, supports) ==
    LET b == NewBinding(L, caller, callee, supports) IN
    /\ nextCall < MaxCalls
    /\ \A o \in supports : L.at[o] = caller
    /\ MayOpen(L, b)
    /\ Issue(L, "open", b, caller)
    /\ nextCall' = nextCall + 1

Return(L, b, holder) ==
    /\ MayReturn(L, b, holder)
    /\ Issue(L, "return", b, holder)
    /\ UNCHANGED nextCall

\* Mistake: any version that passes the evidence check is advanced.
AcceptsStale(L, t) ==
    IF t.kind = "open" THEN MayOpen(L, t.binding)
                       ELSE MayReturn(L, t.binding, t.holder)

\* The evidence is checked again; only the state identity tells versions apart.
Accepts(L, t) ==
    /\ L.state = t.before
    /\ IF t.kind = "open" THEN MayOpen(L, t.binding)
                          ELSE MayReturn(L, t.binding, t.holder)

Apply(L, t) ==
    /\ Accepts(L, t)
    /\ ledgers' = ledgers \cup
          {IF t.kind = "open" THEN Opened(L, t.binding, t.after)
                              ELSE Returned(L, t.binding, t.after)}
    /\ UNCHANGED <<transitions, nextCall, nextState>>

\* A version has an identity, the exclusive_calls and exclusive_holders, and
\* knows whose resource context has each occurrence.
NewLedger ==
    [state |-> 0, calls |-> [i \in {} |-> i], holders |-> [p \in {} |-> p],
     at |-> [o \in Support |-> Root]]

Init ==
    /\ ledgers = {NewLedger}
    /\ transitions = {}
    /\ nextCall = 0
    /\ nextState = 1

Next ==
    \E L \in ledgers :
        \/ \E caller, callee \in Participant, supports \in SUBSET Support :
              Open(L, caller, callee, supports)
        \/ \E t \in transitions, holder \in Participant :
              Return(L, t.binding, holder)
        \/ \E t \in transitions : Apply(L, t)

Spec == Init /\ [][Next]_vars

----------------------------------------------------------------------------
(* Properties                                                              *)

\* LoanLedger equality compares state identities only: two versions with one
\* identity must have the same contents, whatever transition was presented to
\* whatever version.
StateNamesLedger ==
    \A a, b \in ledgers : a.state = b.state => a = b

\* A receipt kept across a rollback never stands for another call: in every
\* version that has its identity, that identity has the same binding.
ReceiptNamesOneCall ==
    \A a, b \in ledgers : \A i \in DOMAIN a.calls \cap DOMAIN b.calls :
        a.calls[i].binding = b.calls[i].binding

OpenChildren(L, i) ==
    {c \in DOMAIN L.calls :
        L.calls[c].active /\ L.calls[c].binding.parent = i}

\* exclusive_holders and the open calls say the same: a participant runs under
\* at most one reservation.
HoldersAreCallees ==
    \A L \in ledgers :
        /\ \A p \in DOMAIN L.holders :
              Active(L.calls, L.holders[p])
              /\ L.calls[L.holders[p]].binding.callee = p
        /\ \A i \in DOMAIN L.calls :
              L.calls[i].active =>
                  Get(L.holders, L.calls[i].binding.callee) = i

\* What an open call reserved is with its callee, or with an open call that
\* the callee lent it to: nobody above can use it before the return.
ReservationsHeld ==
    \A L \in ledgers : \A i \in DOMAIN L.calls : \A o \in Support :
        L.calls[i].active /\ o \in L.calls[i].binding.supports =>
            \/ L.at[o] = L.calls[i].binding.callee
            \/ \E c \in OpenChildren(L, i) : o \in L.calls[c].binding.supports
=============================================================================
