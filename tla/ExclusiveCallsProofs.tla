------------------------ MODULE ExclusiveCallsProofs ------------------------
(***************************************************************************)
(* Proofs about ExclusiveCalls, for any participants, occurrences and      *)
(* bounds: what the two global counters and the state comparison are worth *)
(* however versions of the ledger branch.                                  *)
(***************************************************************************)
EXTENDS ExclusiveCalls, FiniteSetTheorems, TLAPS

Effect(L, t) ==
    IF t.kind = "open" THEN Opened(L, t.binding, t.after) ELSE Returned(L, t.binding, t.after)

Transition ==
    [before : Nat, after : Nat \ {0}, kind : {"open", "return"}, binding : ExclusiveCallBinding,
     holder : Participant]

Counters == nextCall \in Nat /\ nextState \in Nat \ {0} /\ transitions \subseteq Transition

(* Every transition has an after state of its own, and every version but    *)
(* the first is the effect of a transition on the version it was issued     *)
(* for.                                                                     *)
Lineage ==
    /\ \A t \in transitions : t.after < nextState
    /\ \A s, t \in transitions : s.after = t.after => s = t
    /\ \A L \in ledgers :
          \/ L = NewLedger
          \/ \E t \in transitions, M \in ledgers :
                L.state = t.after /\ M.state = t.before /\ L = Effect(M, t)

(* Every receipt on record is that of a transition, and the identity of a   *)
(* transition's receipt determines it.                                      *)
Receipts ==
    /\ \A t \in transitions : t.binding.id < nextCall
    /\ \A s, t \in transitions : s.binding.id = t.binding.id => s.binding = t.binding
    /\ \A L \in ledgers : \A i \in DOMAIN L.calls :
          /\ L.calls[i].binding.id = i
          /\ L.calls[i].binding.parent # None => L.calls[i].binding.parent \in DOMAIN L.calls
          /\ \E t \in transitions : t.binding = L.calls[i].binding

Inv == Counters /\ Lineage /\ Receipts /\ StateNamesLedger /\ HoldersAreCallees

LEMMA EffectState ==
    ASSUME NEW L, NEW t
    PROVE  Effect(L, t).state = t.after
BY DEF Effect, Opened, Returned

LEMMA NewLedgerCalls == DOMAIN NewLedger.calls = {} /\ DOMAIN NewLedger.holders = {} /\ NewLedger.state = 0
BY DEF NewLedger

LEMMA InitInv == Init => Inv
<1> SUFFICES ASSUME Init PROVE Inv
  OBVIOUS
<1>1. Counters /\ Lineage /\ StateNamesLedger
  BY DEF Init, Counters, Lineage, StateNamesLedger
<1>2. Receipts /\ HoldersAreCallees
  BY NewLedgerCalls DEF Init, Receipts, HoldersAreCallees
<1> QED BY <1>1, <1>2 DEF Inv

(***************************************************************************)
(* Issuing a transition                                                    *)
(***************************************************************************)
LEMMA IssueKeeps ==
    ASSUME Inv, NEW L \in ledgers, NEW kind \in {"open", "return"}, NEW b \in ExclusiveCallBinding,
           NEW holder \in Participant, Issue(L, kind, b, holder), nextCall' \in Nat,
           nextCall <= nextCall', b.id < nextCall', L.state \in Nat,
           \A t \in transitions : t.binding.id = b.id => t.binding = b
    PROVE  Inv'
<1> DEFINE new == [before |-> L.state, after |-> nextState, kind |-> kind,
                   binding |-> b, holder |-> holder]
<1>1. /\ transitions' = transitions \cup {new} /\ nextState' = nextState + 1 /\ UNCHANGED ledgers
      /\ new.after = nextState /\ new.binding = b
  BY DEF Issue
<1>2. new \in Transition
  BY DEF Transition, Inv, Counters
<1> HIDE DEF new
<1>3. Counters'
  BY <1>1, <1>2 DEF Inv, Counters
<1>4. \A t \in transitions : t.after \in Nat /\ t.binding.id \in Nat
  BY DEF Inv, Counters, Transition, ExclusiveCallBinding
<1>5. Lineage'
  <2>1. \A t \in transitions' : t.after < nextState'
    BY <1>1, <1>4 DEF Inv, Counters, Lineage
  <2>2. \A s, t \in transitions' : s.after = t.after => s = t
    BY <1>1, <1>4 DEF Inv, Counters, Lineage
  <2> QED BY <1>1, <2>1, <2>2 DEF Inv, Lineage, Effect, Opened, Returned, NewLedger
<1>6. Receipts'
  <2>1. \A t \in transitions' : t.binding.id < nextCall'
    BY <1>1, <1>4 DEF Inv, Receipts, Counters
  <2>2. \A s, t \in transitions' : s.binding.id = t.binding.id => s.binding = t.binding
    BY <1>1 DEF Inv, Receipts
  <2> QED BY <1>1, <2>1, <2>2 DEF Inv, Receipts
<1>7. StateNamesLedger' /\ HoldersAreCallees'
  BY <1>1 DEF Inv, StateNamesLedger, HoldersAreCallees
<1> QED BY <1>3, <1>5, <1>6, <1>7 DEF Inv

LEMMA StatesAreNumbers ==
    ASSUME Inv, NEW L \in ledgers
    PROVE  L.state \in Nat
BY NewLedgerCalls DEF Inv, Lineage, Counters, Transition

LEMMA OpenKeeps ==
    ASSUME Inv, NEW L \in ledgers, NEW caller \in Participant, NEW callee \in Participant,
           NEW supports \in SUBSET Support, Open(L, caller, callee, supports)
    PROVE  Inv'
<1> DEFINE b == NewBinding(L, caller, callee, supports)
<1>1. MayOpen(L, b) /\ Issue(L, "open", b, caller) /\ nextCall' = nextCall + 1
  BY DEF Open
<1>2. b.id = nextCall /\ b.parent = Get(L.holders, caller) /\ b = NewBinding(L, caller, callee, supports)
  BY DEF NewBinding
<1>3. b.parent \in Nat \cup {None}
  <2>1. \A p \in DOMAIN L.holders : L.holders[p] \in DOMAIN L.calls
    BY DEF Inv, HoldersAreCallees, Active
  <2>2. \A i \in DOMAIN L.calls : i \in Nat
    BY DEF Inv, Receipts, Counters, Transition, ExclusiveCallBinding
  <2> QED BY <1>2, <2>1, <2>2 DEF Get
<1>4. b \in ExclusiveCallBinding
  BY <1>2, <1>3 DEF NewBinding, ExclusiveCallBinding, Inv, Counters
<1> HIDE DEF b
<1>5. \A t \in transitions : t.binding.id # b.id
  BY <1>2 DEF Inv, Receipts, Counters, Transition, ExclusiveCallBinding
<1>6. nextCall' \in Nat /\ nextCall <= nextCall' /\ b.id < nextCall'
  BY <1>1, <1>2 DEF Inv, Counters
<1> QED BY <1>1, <1>4, <1>5, <1>6, IssueKeeps, StatesAreNumbers

LEMMA ReturnKeeps ==
    ASSUME Inv, NEW L \in ledgers, NEW t \in transitions, NEW holder \in Participant,
           Return(L, t.binding, holder)
    PROVE  Inv'
<1>1. Issue(L, "return", t.binding, holder) /\ nextCall' = nextCall
  BY DEF Return
<1>2. t.binding \in ExclusiveCallBinding /\ t.binding.id < nextCall /\ nextCall \in Nat
  BY DEF Inv, Counters, Transition, Receipts
<1>3. \A s \in transitions : s.binding.id = t.binding.id => s.binding = t.binding
  BY DEF Inv, Receipts
<1> QED BY <1>1, <1>2, <1>3, IssueKeeps, StatesAreNumbers

(***************************************************************************)
(* Applying a transition                                                   *)
(***************************************************************************)
(* The version N after an open: the new call, and the others as they were   *)
(* but for a count of children.                                             *)
AfterOpen(L, b, N) ==
    /\ DOMAIN N.calls = DOMAIN L.calls \cup {b.id}
    /\ N.calls[b.id].binding = b
    /\ N.calls[b.id].active
    /\ \A i \in DOMAIN L.calls : N.calls[i].binding = L.calls[i].binding
                                 /\ (N.calls[i].active <=> L.calls[i].active)
    /\ N.holders = WithInserted(L.holders, b.callee, b.id)

(* The version N after a return: only the call returned is closed.          *)
AfterReturn(L, b, N) ==
    /\ DOMAIN N.calls = DOMAIN L.calls
    /\ \A i \in DOMAIN L.calls : N.calls[i].binding = L.calls[i].binding
    /\ \A i \in DOMAIN L.calls : i # b.id => (N.calls[i].active <=> L.calls[i].active)
    /\ ~ N.calls[b.id].active
    /\ N.holders = WithoutKey(L.holders, b.callee)

LEMMA OpenedCalls ==
    ASSUME NEW L, NEW b, NEW state, MayOpen(L, b)
    PROVE  AfterOpen(L, b, Opened(L, b, state))
<1> DEFINE counted == WithChildren(L.calls, b.parent,
                          IF b.parent = None THEN 0 ELSE L.calls[b.parent].children + 1)
<1>1. b.parent # None => b.parent \in DOMAIN L.calls
  BY DEF MayOpen, Active
<1>2. /\ DOMAIN counted = DOMAIN L.calls
      /\ \A i \in DOMAIN L.calls : counted[i].binding = L.calls[i].binding
                                   /\ (counted[i].active <=> L.calls[i].active)
  BY <1>1 DEF WithChildren, WithInserted, CallRecord
<1>3. /\ Opened(L, b, state).calls = WithInserted(counted, b.id, CallRecord(b, TRUE, 0))
      /\ Opened(L, b, state).holders = WithInserted(L.holders, b.callee, b.id)
  BY DEF Opened
<1>4. b.id \notin DOMAIN L.calls
  BY DEF MayOpen
<1> HIDE DEF counted
<1> DEFINE calls == WithInserted(counted, b.id, CallRecord(b, TRUE, 0))
<1>5. /\ DOMAIN calls = DOMAIN L.calls \cup {b.id}
      /\ calls[b.id].binding = b /\ calls[b.id].active
      /\ \A i \in DOMAIN L.calls : calls[i] = counted[i]
  BY <1>2, <1>4 DEF WithInserted, CallRecord
<1> HIDE DEF calls
<1>6. Opened(L, b, state).calls = calls
  BY <1>3 DEF calls
<1> QED BY <1>2, <1>3, <1>5, <1>6 DEF AfterOpen

LEMMA ReturnedRecords ==
    ASSUME NEW L, NEW b, NEW state, NEW holder, MayReturn(L, b, holder),
           b.parent # None => b.parent \in DOMAIN L.calls
    PROVE  AfterReturn(L, b, Returned(L, b, state))
<1> DEFINE closed == WithInserted(L.calls, b.id, CallRecord(b, FALSE, L.calls[b.id].children))
<1>1. b.id \in DOMAIN L.calls /\ L.calls[b.id].binding = b
  BY DEF MayReturn, ValidateExclusiveCall, Active
<1>2. /\ DOMAIN closed = DOMAIN L.calls
      /\ \A i \in DOMAIN L.calls : closed[i].binding = L.calls[i].binding
      /\ \A i \in DOMAIN L.calls : i # b.id => (closed[i].active <=> L.calls[i].active)
      /\ ~ closed[b.id].active
  BY <1>1 DEF WithInserted, CallRecord
<1>3. /\ Returned(L, b, state).calls
            = WithChildren(closed, b.parent, IF b.parent = None THEN 0 ELSE closed[b.parent].children - 1)
      /\ Returned(L, b, state).holders = WithoutKey(L.holders, b.callee)
  BY DEF Returned, ReturnedCalls
<1> HIDE DEF closed
<1>4. CASE b.parent = None
  BY <1>1, <1>2, <1>3, <1>4 DEF WithChildren, AfterReturn
<1>5. CASE b.parent # None
  <2>1. b.parent \in DOMAIN closed
    BY <1>2, <1>5
  <2> QED BY <1>1, <1>2, <1>3, <1>5, <2>1 DEF WithChildren, WithInserted, CallRecord, AfterReturn
<1> QED BY <1>4, <1>5

(* A version that an issued transition makes keeps the receipts, and its    *)
(* holders are again the callees of its open calls.                         *)
LEMMA EffectKeepsReceipts ==
    ASSUME Inv, NEW L \in ledgers, NEW t \in transitions, Accepts(L, t)
    PROVE  LET N == Effect(L, t)
           IN  \A i \in DOMAIN N.calls :
                  /\ N.calls[i].binding.id = i
                  /\ N.calls[i].binding.parent # None => N.calls[i].binding.parent \in DOMAIN N.calls
                  /\ \E s \in transitions : s.binding = N.calls[i].binding
<1> DEFINE b == t.binding
<1>1. \A i \in DOMAIN L.calls :
          /\ L.calls[i].binding.id = i
          /\ L.calls[i].binding.parent # None => L.calls[i].binding.parent \in DOMAIN L.calls
          /\ \E s \in transitions : s.binding = L.calls[i].binding
  BY DEF Inv, Receipts
<1>2. CASE t.kind = "open"
  <2>1. MayOpen(L, b) /\ Effect(L, t) = Opened(L, b, t.after)
    BY <1>2 DEF Accepts, Effect
  <2>2. b.parent # None => b.parent \in DOMAIN L.calls
    BY <2>1 DEF MayOpen, Active
  <2> DEFINE N == Opened(L, b, t.after)
  <2>3. b = t.binding /\ N = Opened(L, b, t.after)
    OBVIOUS
  <2> HIDE DEF b, N
  <2>4. AfterOpen(L, b, N)
    BY <2>1, <2>3, OpenedCalls
  <2> QED BY <1>1, <2>1, <2>2, <2>3, <2>4 DEF AfterOpen
<1>3. CASE t.kind # "open"
  <2>1. MayReturn(L, b, t.holder) /\ Effect(L, t) = Returned(L, b, t.after)
    BY <1>3 DEF Accepts, Effect
  <2>2. b.parent # None => b.parent \in DOMAIN L.calls
    BY <1>1, <2>1 DEF MayReturn, ValidateExclusiveCall, Active
  <2> HIDE DEF b
  <2>3. AfterReturn(L, b, Effect(L, t))
    BY <2>1, <2>2, ReturnedRecords
  <2> QED BY <1>1, <2>3 DEF AfterReturn
<1> QED BY <1>2, <1>3

LEMMA EffectKeepsHolders ==
    ASSUME Inv, NEW L \in ledgers, NEW t \in transitions, Accepts(L, t)
    PROVE  LET N == Effect(L, t)
           IN  /\ \A p \in DOMAIN N.holders :
                     Active(N.calls, N.holders[p]) /\ N.calls[N.holders[p]].binding.callee = p
               /\ \A i \in DOMAIN N.calls : N.calls[i].active =>
                     Get(N.holders, N.calls[i].binding.callee) = i
<1> DEFINE b == t.binding
           N == Effect(L, t)
<1>1. /\ \A p \in DOMAIN L.holders :
            Active(L.calls, L.holders[p]) /\ L.calls[L.holders[p]].binding.callee = p
      /\ \A i \in DOMAIN L.calls : L.calls[i].active =>
            Get(L.holders, L.calls[i].binding.callee) = i
  BY DEF Inv, HoldersAreCallees
<1>2. \A i \in DOMAIN L.calls : i \in Nat /\ L.calls[i].binding.id = i
  BY DEF Inv, Receipts, Counters, Transition, ExclusiveCallBinding
<1>3. \A i \in DOMAIN L.calls : L.calls[i].active =>
          /\ L.calls[i].binding.callee \in DOMAIN L.holders
          /\ L.holders[L.calls[i].binding.callee] = i
  BY <1>1, <1>2, ExclusiveAssumption DEF Get
<1>4. CASE t.kind = "open"
  <2>1. MayOpen(L, b) /\ N = Opened(L, b, t.after)
    BY <1>4 DEF Accepts, Effect
  <2>2. b.id \notin DOMAIN L.calls /\ b.callee \notin DOMAIN L.holders
    BY <2>1 DEF MayOpen
  <2> HIDE DEF b, N
  <2>3. AfterOpen(L, b, N)
    BY <2>1, OpenedCalls
  <2>4. /\ DOMAIN N.calls = DOMAIN L.calls \cup {b.id}
        /\ N.calls[b.id].binding = b /\ N.calls[b.id].active
        /\ \A i \in DOMAIN L.calls : N.calls[i].binding = L.calls[i].binding
                                     /\ (N.calls[i].active <=> L.calls[i].active)
        /\ N.holders = WithInserted(L.holders, b.callee, b.id)
    BY <2>3 DEF AfterOpen
  <2>5. /\ DOMAIN N.holders = DOMAIN L.holders \cup {b.callee}
        /\ N.holders[b.callee] = b.id
        /\ \A p \in DOMAIN L.holders : N.holders[p] = L.holders[p]
    BY <2>2, <2>4 DEF WithInserted
  <2>6. \A p \in DOMAIN N.holders :
            Active(N.calls, N.holders[p]) /\ N.calls[N.holders[p]].binding.callee = p
    BY <1>1, <2>4, <2>5 DEF Active
  <2>7. \A i \in DOMAIN N.calls : N.calls[i].active => Get(N.holders, N.calls[i].binding.callee) = i
    BY <1>3, <2>2, <2>4, <2>5 DEF Get
  <2> QED BY <2>6, <2>7 DEF N
<1>5. CASE t.kind # "open"
  <2>1. MayReturn(L, b, t.holder) /\ N = Returned(L, b, t.after)
    BY <1>5 DEF Accepts, Effect
  <2>2. b.id \in DOMAIN L.calls /\ L.calls[b.id].active /\ L.calls[b.id].binding = b
    BY <2>1 DEF MayReturn, ValidateExclusiveCall, Active
  <2>3. b.parent # None => b.parent \in DOMAIN L.calls
    BY <2>2 DEF Inv, Receipts
  <2> HIDE DEF b, N
  <2>3a. AfterReturn(L, b, N)
    BY <2>1, <2>3, ReturnedRecords
  <2>4. /\ DOMAIN N.calls = DOMAIN L.calls
        /\ \A i \in DOMAIN L.calls : N.calls[i].binding = L.calls[i].binding
        /\ \A i \in DOMAIN L.calls : i # b.id => (N.calls[i].active <=> L.calls[i].active)
        /\ ~ N.calls[b.id].active
        /\ N.holders = WithoutKey(L.holders, b.callee)
    BY <2>3a DEF AfterReturn
  <2>5. /\ DOMAIN N.holders = DOMAIN L.holders \ {b.callee}
        /\ \A p \in DOMAIN N.holders : N.holders[p] = L.holders[p]
    BY <2>4 DEF WithoutKey
  <2>6. L.holders[b.callee] = b.id
    BY <1>3, <2>2
  <2>7. \A p \in DOMAIN N.holders : L.holders[p] # b.id
    BY <1>1, <2>2, <2>5
  <2>8. \A p \in DOMAIN N.holders :
            Active(N.calls, N.holders[p]) /\ N.calls[N.holders[p]].binding.callee = p
    BY <1>1, <2>4, <2>5, <2>7 DEF Active
  <2>9. \A i \in DOMAIN N.calls : N.calls[i].active => Get(N.holders, N.calls[i].binding.callee) = i
    <3> SUFFICES ASSUME NEW i \in DOMAIN L.calls, N.calls[i].active
                 PROVE  Get(N.holders, L.calls[i].binding.callee) = i
      BY <2>4
    <3>1. i # b.id /\ L.calls[i].active
      BY <2>4
    <3>2. L.calls[i].binding.callee \in DOMAIN N.holders
      BY <1>3, <2>5, <2>6, <3>1
    <3> QED BY <1>3, <2>5, <3>1, <3>2 DEF Get
  <2> QED BY <2>8, <2>9 DEF N
<1> QED BY <1>4, <1>5

LEMMA ApplyKeeps ==
    ASSUME Inv, NEW L \in ledgers, NEW t \in transitions, Apply(L, t)
    PROVE  Inv'
<1> DEFINE N == Effect(L, t)
<1>1. /\ Accepts(L, t) /\ L.state = t.before
      /\ ledgers' = ledgers \cup {N} /\ UNCHANGED <<transitions, nextCall, nextState>>
  BY DEF Apply, Accepts, Effect
<1>2. N.state = t.after /\ t.after \in Nat \ {0}
  BY EffectState DEF Inv, Counters, Transition
<1>3. \A M \in ledgers : M.state = t.after => M = N
  <2> SUFFICES ASSUME NEW M \in ledgers, M.state = t.after PROVE M = N
    OBVIOUS
  <2>1. PICK s \in transitions, K \in ledgers :
            M.state = s.after /\ K.state = s.before /\ M = Effect(K, s)
    BY <1>2, NewLedgerCalls DEF Inv, Lineage
  <2>2. s = t
    BY <2>1 DEF Inv, Lineage
  <2>3. K = L
    BY <1>1, <2>1, <2>2 DEF Inv, StateNamesLedger
  <2> QED BY <2>1, <2>2, <2>3
<1>4. \A i \in DOMAIN N.calls :
          /\ N.calls[i].binding.id = i
          /\ N.calls[i].binding.parent # None => N.calls[i].binding.parent \in DOMAIN N.calls
          /\ \E s \in transitions : s.binding = N.calls[i].binding
  BY <1>1, EffectKeepsReceipts
<1>5. /\ \A p \in DOMAIN N.holders :
            Active(N.calls, N.holders[p]) /\ N.calls[N.holders[p]].binding.callee = p
      /\ \A i \in DOMAIN N.calls : N.calls[i].active =>
            Get(N.holders, N.calls[i].binding.callee) = i
  BY <1>1, EffectKeepsHolders
<1>6. N = Effect(L, t)
  OBVIOUS
<1> HIDE DEF N
<1>7. StateNamesLedger'
  BY <1>1, <1>2, <1>3 DEF Inv, StateNamesLedger
<1>8. Lineage'
  <2>1. \A M \in ledgers' : M = NewLedger \/ \E s \in transitions', K \in ledgers' :
            M.state = s.after /\ K.state = s.before /\ M = Effect(K, s)
    BY <1>1, <1>2, <1>6 DEF Inv, Lineage
  <2> QED BY <1>1, <2>1 DEF Inv, Lineage, Effect, Opened, Returned, NewLedger
<1>9. Receipts' /\ HoldersAreCallees' /\ Counters'
  BY <1>1, <1>4, <1>5 DEF Inv, Receipts, HoldersAreCallees, Counters
<1> QED BY <1>7, <1>8, <1>9 DEF Inv

LEMMA NextInv == Inv /\ [Next]_vars => Inv'
<1> SUFFICES ASSUME Inv, [Next]_vars PROVE Inv'
  OBVIOUS
<1>1. CASE UNCHANGED vars
  <2>1. Counters' /\ Receipts' /\ StateNamesLedger' /\ HoldersAreCallees'
    BY <1>1 DEF Inv, Counters, Receipts, StateNamesLedger, HoldersAreCallees, vars
  <2>2. Lineage'
    BY <1>1 DEF Inv, Lineage, vars, Effect, Opened, Returned, NewLedger
  <2> QED BY <2>1, <2>2 DEF Inv
<1>2. CASE Next
  BY <1>2, OpenKeeps, ReturnKeeps, ApplyKeeps DEF Next
<1> QED BY <1>1, <1>2

LEMMA Invariance == Spec => []Inv
BY InitInv, NextInv, PTL DEF Spec

(* The comparison of state identities that LoanLedger equality and apply    *)
(* rely on is exact: versions with one identity are one version, however    *)
(* often a transition is applied and however versions branch.               *)
THEOREM StateIdentitiesAreExact == Spec => []StateNamesLedger
<1>1. Inv => StateNamesLedger
  BY DEF Inv
<1> QED BY <1>1, Invariance, PTL

(* The identity of a receipt never stands for two calls, also across        *)
(* versions that were left by a rollback.                                   *)
THEOREM ReceiptsAreUnique == Spec => []ReceiptNamesOneCall
<1>1. Inv => ReceiptNamesOneCall
  <2> SUFFICES ASSUME Inv, NEW a \in ledgers, NEW b \in ledgers,
                      NEW i \in DOMAIN a.calls \cap DOMAIN b.calls
               PROVE  a.calls[i].binding = b.calls[i].binding
    BY DEF ReceiptNamesOneCall
  <2>1. PICK s \in transitions : s.binding = a.calls[i].binding
    BY DEF Inv, Receipts
  <2>2. PICK t \in transitions : t.binding = b.calls[i].binding
    BY DEF Inv, Receipts
  <2> QED BY <2>1, <2>2 DEF Inv, Receipts
<1> QED BY <1>1, Invariance, PTL

(* exclusive_holders names exactly the callees of the open calls.           *)
THEOREM HoldersAgree == Spec => []HoldersAreCallees
<1>1. Inv => HoldersAreCallees
  BY DEF Inv
<1> QED BY <1>1, Invariance, PTL

(***************************************************************************)
(* Reservations: which call has an occurrence                              *)
(***************************************************************************)
(* A transition was issued for a version that is kept, and an open found    *)
(* what it reserves with the caller in that version.                        *)
Issued ==
    \A t \in transitions : \E L \in ledgers :
        /\ L.state = t.before
        /\ t.kind = "open" => \A o \in t.binding.supports : L.at[o] = t.binding.caller

(* A record counts its open children, and a nested call was made by the     *)
(* callee of the call it is nested in.                                      *)
Family(L) ==
    /\ IsFiniteSet(DOMAIN L.calls)
    /\ \A i \in DOMAIN L.calls :
          /\ L.calls[i].children = Cardinality(OpenChildren(L, i))
          /\ L.calls[i].binding.parent # None =>
                L.calls[L.calls[i].binding.parent].binding.callee = L.calls[i].binding.caller

Reserved(L) ==
    \A i \in DOMAIN L.calls : \A o \in Support :
        L.calls[i].active /\ o \in L.calls[i].binding.supports =>
            \/ L.at[o] = L.calls[i].binding.callee
            \/ \E c \in OpenChildren(L, i) : o \in L.calls[c].binding.supports

HeldInv == Inv /\ Issued /\ \A L \in ledgers : Family(L) /\ Reserved(L)

(* What an open and a return do to the counts and to the occurrences.       *)
OpenCounts(L, b, N) ==
    /\ N.calls[b.id].children = 0
    /\ \A i \in DOMAIN L.calls :
          N.calls[i].children = IF i = b.parent THEN L.calls[i].children + 1
                                ELSE L.calls[i].children
    /\ \A o \in Support : N.at[o] = IF o \in b.supports THEN b.callee ELSE L.at[o]

ReturnCounts(L, b, N) ==
    /\ \A i \in DOMAIN L.calls :
          N.calls[i].children = IF i = b.parent THEN L.calls[i].children - 1
                                ELSE L.calls[i].children
    /\ \A o \in Support : N.at[o] = IF o \in b.supports THEN b.caller ELSE L.at[o]

LEMMA OpenedCounts ==
    ASSUME NEW L, NEW b, NEW state, MayOpen(L, b), None \notin DOMAIN L.calls
    PROVE  OpenCounts(L, b, Opened(L, b, state))
<1> DEFINE counted == WithChildren(L.calls, b.parent,
                          IF b.parent = None THEN 0 ELSE L.calls[b.parent].children + 1)
           calls == WithInserted(counted, b.id, CallRecord(b, TRUE, 0))
<1>1. b.parent # None => b.parent \in DOMAIN L.calls
  BY DEF MayOpen, Active
<1>2. /\ DOMAIN counted = DOMAIN L.calls
      /\ \A i \in DOMAIN L.calls :
            counted[i].children = IF i = b.parent THEN L.calls[i].children + 1
                                  ELSE L.calls[i].children
  BY <1>1 DEF WithChildren, WithInserted, CallRecord
<1>3. /\ Opened(L, b, state).calls = calls
      /\ \A o \in Support :
            Opened(L, b, state).at[o] = IF o \in b.supports THEN b.callee ELSE L.at[o]
  BY DEF Opened
<1>4. b.id \notin DOMAIN L.calls
  BY DEF MayOpen
<1> HIDE DEF counted
<1>5. calls[b.id].children = 0 /\ \A i \in DOMAIN L.calls : calls[i] = counted[i]
  BY <1>2, <1>4 DEF WithInserted, CallRecord
<1> HIDE DEF calls
<1> QED BY <1>2, <1>3, <1>5 DEF OpenCounts

LEMMA ReturnedCounts ==
    ASSUME NEW L, NEW b, NEW state, NEW holder, MayReturn(L, b, holder),
           None \notin DOMAIN L.calls,
           b.parent # None => b.parent \in DOMAIN L.calls
    PROVE  ReturnCounts(L, b, Returned(L, b, state))
<1> DEFINE closed == WithInserted(L.calls, b.id, CallRecord(b, FALSE, L.calls[b.id].children))
           n == IF b.parent = None THEN 0 ELSE closed[b.parent].children - 1
<1>1. b.id \in DOMAIN L.calls
  BY DEF MayReturn, ValidateExclusiveCall, Active
<1>2. /\ DOMAIN closed = DOMAIN L.calls
      /\ \A i \in DOMAIN L.calls : closed[i].children = L.calls[i].children
  BY <1>1 DEF WithInserted, CallRecord
<1>3. /\ Returned(L, b, state).calls = WithChildren(closed, b.parent, n)
      /\ \A o \in Support :
            Returned(L, b, state).at[o] = IF o \in b.supports THEN b.caller ELSE L.at[o]
  BY DEF Returned, ReturnedCalls
<1>4. b.parent # None => n = closed[b.parent].children - 1
  OBVIOUS
<1> HIDE DEF closed, n
<1>5. \A i \in DOMAIN L.calls :
          WithChildren(closed, b.parent, n)[i].children
              = IF i = b.parent THEN L.calls[i].children - 1 ELSE L.calls[i].children
  BY <1>2, <1>4 DEF WithChildren, WithInserted, CallRecord
<1> QED BY <1>3, <1>5 DEF ReturnCounts

(* The facts about one version that the two lemmas below use.               *)
LEMMA VersionFacts ==
    ASSUME HeldInv, NEW L \in ledgers
    PROVE  /\ None \notin DOMAIN L.calls /\ Family(L) /\ Reserved(L)
           /\ \A i \in DOMAIN L.calls :
                 /\ L.calls[i].binding.id = i
                 /\ L.calls[i].binding.parent # None =>
                       L.calls[i].binding.parent \in DOMAIN L.calls
                 /\ L.calls[i].active => Get(L.holders, L.calls[i].binding.callee) = i
                 /\ L.calls[i].children \in Nat
                 /\ L.calls[i].children = 0 => OpenChildren(L, i) = {}
<1>1. Inv /\ Family(L) /\ Reserved(L)
  BY DEF HeldInv
<1>2. \A i \in DOMAIN L.calls : i \in Nat
  BY <1>1 DEF Inv, Receipts, Counters, Transition, ExclusiveCallBinding
<1>3. \A i \in DOMAIN L.calls : IsFiniteSet(OpenChildren(L, i))
  BY <1>1, FS_Subset DEF Family, OpenChildren
<1>4. \A i \in DOMAIN L.calls : /\ L.calls[i].children \in Nat
                                /\ L.calls[i].children = 0 => OpenChildren(L, i) = {}
  BY <1>1, <1>3, FS_CardinalityType, FS_EmptySet DEF Family
<1> QED BY <1>1, <1>2, <1>4, ExclusiveAssumption DEF Inv, Receipts, HoldersAreCallees

LEMMA OpenKeepsReservations ==
    ASSUME HeldInv, NEW L \in ledgers, NEW b, b.id # None, MayOpen(L, b), NEW N,
           AfterOpen(L, b, N), OpenCounts(L, b, N),
           \A o \in b.supports : L.at[o] = b.caller
    PROVE  Family(N) /\ Reserved(N)
<1>1. /\ DOMAIN N.calls = DOMAIN L.calls \cup {b.id}
      /\ N.calls[b.id].binding = b /\ N.calls[b.id].active /\ N.calls[b.id].children = 0
      /\ \A i \in DOMAIN L.calls :
            /\ N.calls[i].binding = L.calls[i].binding
            /\ N.calls[i].active <=> L.calls[i].active
            /\ N.calls[i].children = IF i = b.parent THEN L.calls[i].children + 1
                                     ELSE L.calls[i].children
      /\ \A o \in Support : N.at[o] = IF o \in b.supports THEN b.callee ELSE L.at[o]
  BY DEF AfterOpen, OpenCounts
<1>2. /\ b.id \notin DOMAIN L.calls /\ Get(L.holders, b.caller) = b.parent
      /\ b.parent # None => b.parent \in DOMAIN L.calls
                            /\ L.calls[b.parent].binding.callee = b.caller
  BY DEF MayOpen, Active
<1>3. /\ None \notin DOMAIN L.calls /\ Family(L) /\ Reserved(L)
      /\ \A i \in DOMAIN L.calls :
            /\ L.calls[i].binding.parent # None => L.calls[i].binding.parent \in DOMAIN L.calls
            /\ L.calls[i].active => Get(L.holders, L.calls[i].binding.callee) = i
            /\ L.calls[i].children \in Nat
  BY VersionFacts
<1>4. /\ \A i \in DOMAIN L.calls : i # b.parent => OpenChildren(N, i) = OpenChildren(L, i)
      /\ b.parent # None => OpenChildren(N, b.parent) = OpenChildren(L, b.parent) \cup {b.id}
      /\ OpenChildren(N, b.id) = {}
  <2>1. ASSUME NEW i \in DOMAIN L.calls, i # b.parent
        PROVE  OpenChildren(N, i) = OpenChildren(L, i)
    BY <1>1, <1>2, <1>3, <2>1 DEF OpenChildren
  <2>2. ASSUME b.parent # None
        PROVE  OpenChildren(N, b.parent) = OpenChildren(L, b.parent) \cup {b.id}
    BY <1>1, <1>2, <1>3, <2>2 DEF OpenChildren
  <2>3. OpenChildren(N, b.id) = {}
    BY <1>1, <1>2, <1>3 DEF OpenChildren
  <2> QED BY <2>1, <2>2, <2>3
<1>5. Family(N)
  <2>1. IsFiniteSet(DOMAIN N.calls)
    BY <1>1, <1>3, FS_AddElement DEF Family
  <2>2. \A i \in DOMAIN L.calls : i # b.parent =>
            N.calls[i].children = Cardinality(OpenChildren(N, i))
    BY <1>1, <1>3, <1>4 DEF Family
  <2>3. b.parent # None => N.calls[b.parent].children = Cardinality(OpenChildren(N, b.parent))
    <3> SUFFICES ASSUME b.parent # None
                 PROVE  N.calls[b.parent].children = Cardinality(OpenChildren(N, b.parent))
      OBVIOUS
    <3>1. PICK K : K = OpenChildren(L, b.parent)
      OBVIOUS
    <3>2. IsFiniteSet(K) /\ b.id \notin K
      BY <1>2, <1>3, <3>1, FS_Subset DEF Family, OpenChildren
    <3>3. Cardinality(K \cup {b.id}) = Cardinality(K) + 1
      BY <3>2, FS_AddElement
    <3>4. L.calls[b.parent].children = Cardinality(K)
      BY <1>2, <1>3, <3>1 DEF Family
    <3> QED BY <1>1, <1>2, <1>4, <3>1, <3>3, <3>4
  <2>4. N.calls[b.id].children = Cardinality(OpenChildren(N, b.id))
    BY <1>1, <1>4, FS_EmptySet
  <2>5. \A i \in DOMAIN N.calls : N.calls[i].binding.parent # None =>
            N.calls[N.calls[i].binding.parent].binding.callee = N.calls[i].binding.caller
    BY <1>1, <1>2, <1>3 DEF Family
  <2>6. \A i \in DOMAIN N.calls : N.calls[i].children = Cardinality(OpenChildren(N, i))
    <3> SUFFICES ASSUME NEW i \in DOMAIN N.calls
                 PROVE  N.calls[i].children = Cardinality(OpenChildren(N, i))
      OBVIOUS
    <3>1. CASE i = b.id BY <2>4, <3>1
    <3>2. CASE i # b.id /\ i = b.parent BY <1>1, <1>3, <2>3, <3>2
    <3>3. CASE i # b.id /\ i # b.parent BY <1>1, <2>2, <3>3
    <3> QED BY <3>1, <3>2, <3>3
  <2> QED BY <2>1, <2>5, <2>6 DEF Family
<1>6. Reserved(N)
  <2> SUFFICES ASSUME NEW i \in DOMAIN N.calls, NEW o \in Support,
                      N.calls[i].active, o \in N.calls[i].binding.supports
               PROVE  \/ N.at[o] = N.calls[i].binding.callee
                      \/ \E c \in OpenChildren(N, i) : o \in N.calls[c].binding.supports
    BY DEF Reserved
  <2>1. CASE i = b.id
    BY <1>1, <2>1
  <2>2. CASE i # b.id
    <3>1. i \in DOMAIN L.calls /\ L.calls[i].active /\ o \in L.calls[i].binding.supports
      BY <1>1, <2>2
    <3>2. OpenChildren(L, i) \subseteq OpenChildren(N, i)
          /\ OpenChildren(L, i) \subseteq DOMAIN L.calls
      BY <1>1 DEF OpenChildren
    <3>3. CASE \E c \in OpenChildren(L, i) : o \in L.calls[c].binding.supports
      BY <1>1, <3>2, <3>3
    <3>4. CASE L.at[o] = L.calls[i].binding.callee /\ o \in b.supports
      <4>1. b.parent = i BY <1>2, <1>3, <3>1, <3>4
      <4>2. b.id \in OpenChildren(N, i) BY <1>3, <1>4, <3>1, <4>1
      <4> QED BY <1>1, <3>4, <4>2
    <3>5. CASE L.at[o] = L.calls[i].binding.callee /\ o \notin b.supports
      BY <1>1, <3>1, <3>5
    <3> QED BY <1>3, <3>1, <3>3, <3>4, <3>5 DEF Reserved
  <2> QED BY <2>1, <2>2
<1> QED BY <1>5, <1>6

LEMMA ReturnKeepsReservations ==
    ASSUME HeldInv, NEW L \in ledgers, NEW b, NEW holder, MayReturn(L, b, holder), NEW N,
           AfterReturn(L, b, N), ReturnCounts(L, b, N)
    PROVE  Family(N) /\ Reserved(N)
<1>1. /\ DOMAIN N.calls = DOMAIN L.calls /\ ~N.calls[b.id].active
      /\ \A i \in DOMAIN L.calls :
            /\ N.calls[i].binding = L.calls[i].binding
            /\ i # b.id => (N.calls[i].active <=> L.calls[i].active)
            /\ N.calls[i].children = IF i = b.parent THEN L.calls[i].children - 1
                                     ELSE L.calls[i].children
      /\ \A o \in Support : N.at[o] = IF o \in b.supports THEN b.caller ELSE L.at[o]
  BY DEF AfterReturn, ReturnCounts
<1>2. /\ b.id \in DOMAIN L.calls /\ L.calls[b.id].active /\ L.calls[b.id].binding = b
      /\ L.calls[b.id].children = 0
  BY DEF MayReturn, ValidateExclusiveCall, Active
<1>3. /\ None \notin DOMAIN L.calls /\ Family(L) /\ Reserved(L)
      /\ OpenChildren(L, b.id) = {}
      /\ \A i \in DOMAIN L.calls :
            /\ L.calls[i].active => Get(L.holders, L.calls[i].binding.callee) = i
            /\ L.calls[i].children \in Nat
  BY <1>2, VersionFacts
<1>4. /\ \A i \in DOMAIN L.calls : i # b.parent => OpenChildren(N, i) = OpenChildren(L, i)
      /\ OpenChildren(N, b.parent) = OpenChildren(L, b.parent) \ {b.id}
      /\ b.id \in OpenChildren(L, b.parent)
  BY <1>1, <1>2 DEF OpenChildren
<1>5. Family(N)
  <2>1. \A i \in DOMAIN L.calls : i # b.parent =>
            N.calls[i].children = Cardinality(OpenChildren(N, i))
    BY <1>1, <1>3, <1>4 DEF Family
  <2>2. b.parent \in DOMAIN L.calls =>
            N.calls[b.parent].children = Cardinality(OpenChildren(N, b.parent))
    <3> SUFFICES ASSUME b.parent \in DOMAIN L.calls
                 PROVE  N.calls[b.parent].children = Cardinality(OpenChildren(N, b.parent))
      OBVIOUS
    <3>1. PICK K : K = OpenChildren(L, b.parent)
      OBVIOUS
    <3>2. IsFiniteSet(K) /\ b.id \in K
      BY <1>3, <1>4, <3>1, FS_Subset DEF Family, OpenChildren
    <3>3. Cardinality(K \ {b.id}) = Cardinality(K) - 1
      BY <3>2, FS_RemoveElement
    <3>4. L.calls[b.parent].children = Cardinality(K)
      BY <1>3, <3>1 DEF Family
    <3> QED BY <1>1, <1>4, <3>1, <3>3, <3>4
  <2>3. \A i \in DOMAIN N.calls : N.calls[i].children = Cardinality(OpenChildren(N, i))
    BY <1>1, <2>1, <2>2
  <2>4. \A i \in DOMAIN N.calls : N.calls[i].binding.parent # None =>
            N.calls[N.calls[i].binding.parent].binding.callee = N.calls[i].binding.caller
    BY <1>1, <1>3, VersionFacts DEF Family
  <2> QED BY <1>1, <1>3, <2>3, <2>4 DEF Family
<1>6. Reserved(N)
  <2> SUFFICES ASSUME NEW i \in DOMAIN N.calls, NEW o \in Support,
                      N.calls[i].active, o \in N.calls[i].binding.supports
               PROVE  \/ N.at[o] = N.calls[i].binding.callee
                      \/ \E c \in OpenChildren(N, i) : o \in N.calls[c].binding.supports
    BY DEF Reserved
  <2>1. i \in DOMAIN L.calls /\ L.calls[i].active /\ o \in L.calls[i].binding.supports /\ i # b.id
    BY <1>1
  <2>2. CASE L.at[o] = L.calls[i].binding.callee
    <3>1. o \notin b.supports
      <4> SUFFICES ASSUME o \in b.supports PROVE FALSE
        OBVIOUS
      <4>1. L.at[o] = b.callee BY <1>2, <1>3 DEF Reserved
      <4> QED BY <1>2, <1>3, <2>1, <2>2, <4>1
    <3> QED BY <1>1, <2>1, <2>2, <3>1
  <2>3. CASE \E c \in OpenChildren(L, i) : o \in L.calls[c].binding.supports
    <3>1. PICK c \in OpenChildren(L, i) : o \in L.calls[c].binding.supports
      BY <2>3
    <3>2. c \in DOMAIN L.calls /\ L.calls[c].active /\ L.calls[c].binding.parent = i
      BY <3>1 DEF OpenChildren
    <3>3. CASE c # b.id
      <4>1. c \in OpenChildren(N, i) BY <1>1, <3>2, <3>3 DEF OpenChildren
      <4> QED BY <1>1, <3>1, <3>2, <4>1
    <3>4. CASE c = b.id
      <4>1. L.calls[i].binding.callee = b.caller
        BY <1>2, <1>3, <2>1, <3>2, <3>4 DEF Family
      <4> QED BY <1>1, <1>2, <2>1, <3>1, <3>4, <4>1
    <3> QED BY <3>3, <3>4
  <2> QED BY <1>3, <2>1, <2>2, <2>3 DEF Reserved
<1> QED BY <1>5, <1>6

LEMMA HeldInit == Init => HeldInv
<1> SUFFICES ASSUME Init PROVE HeldInv
  OBVIOUS
<1>1. Inv BY InitInv
<1>2. Family(NewLedger) /\ Reserved(NewLedger)
  BY NewLedgerCalls, FS_EmptySet DEF Family, Reserved
<1> QED BY <1>1, <1>2 DEF HeldInv, Issued, Init

LEMMA HeldStep == HeldInv /\ [Next]_vars => HeldInv'
<1> SUFFICES ASSUME HeldInv, [Next]_vars PROVE HeldInv'
  OBVIOUS
<1>1. Inv' BY NextInv DEF HeldInv
<1> DEFINE Kept == Issued' /\ \A L \in ledgers' : Family(L) /\ Reserved(L)
<1>2. ASSUME NEW L \in ledgers, NEW caller \in Participant, NEW callee \in Participant,
             NEW supports \in SUBSET Support, Open(L, caller, callee, supports)
      PROVE  Kept
  <2>1. PICK b : b = NewBinding(L, caller, callee, supports)
    OBVIOUS
  <2>2. /\ ledgers' = ledgers
        /\ transitions' = transitions \cup
              {[before |-> L.state, after |-> nextState, kind |-> "open",
                binding |-> b, holder |-> caller]}
        /\ \A o \in supports : L.at[o] = caller
    BY <1>2, <2>1 DEF Open, Issue
  <2>3. b.supports = supports /\ b.caller = caller
    BY <2>1 DEF NewBinding
  <2>4. Issued' BY <2>2, <2>3 DEF HeldInv, Issued
  <2> QED BY <2>2, <2>4 DEF HeldInv
<1>3. ASSUME NEW L \in ledgers, NEW t \in transitions, NEW holder \in Participant,
             Return(L, t.binding, holder)
      PROVE  Kept
  <2>1. /\ ledgers' = ledgers
        /\ transitions' = transitions \cup
              {[before |-> L.state, after |-> nextState, kind |-> "return",
                binding |-> t.binding, holder |-> holder]}
    BY <1>3 DEF Return, Issue
  <2>2. Issued' BY <2>1 DEF HeldInv, Issued
  <2> QED BY <2>1, <2>2 DEF HeldInv
<1>4. ASSUME NEW L \in ledgers, NEW t \in transitions, Apply(L, t)
      PROVE  Kept
  <2>1. PICK N : N = Effect(L, t)
    OBVIOUS
  <2>2. /\ Accepts(L, t) /\ L.state = t.before
        /\ ledgers' = ledgers \cup {N} /\ transitions' = transitions
    BY <1>4, <2>1 DEF Apply, Accepts, Effect
  <2>3. Inv /\ None \notin DOMAIN L.calls
    BY VersionFacts DEF HeldInv
  <2>4. CASE t.kind = "open"
    <3>1. MayOpen(L, t.binding) /\ N = Opened(L, t.binding, t.after)
      BY <2>1, <2>2, <2>4 DEF Accepts, Effect
    <3>2. \A o \in t.binding.supports : L.at[o] = t.binding.caller
      BY <2>2, <2>3, <2>4 DEF HeldInv, Issued, Inv, StateNamesLedger
    <3>0. t.binding.id # None
      BY <2>2, <2>3, ExclusiveAssumption
      DEF Inv, Counters, Transition, ExclusiveCallBinding
    <3>3. Family(N) /\ Reserved(N)
      BY <2>3, <3>0, <3>1, <3>2, OpenedCalls, OpenedCounts, OpenKeepsReservations
    <3>4. Issued' BY <2>2 DEF HeldInv, Issued
    <3> QED BY <2>2, <3>3, <3>4 DEF HeldInv
  <2>5. CASE t.kind # "open"
    <3>1. MayReturn(L, t.binding, t.holder) /\ N = Returned(L, t.binding, t.after)
      BY <2>1, <2>2, <2>5 DEF Accepts, Effect
    <3>2. t.binding.parent # None => t.binding.parent \in DOMAIN L.calls
      BY <3>1, VersionFacts DEF MayReturn, ValidateExclusiveCall, Active
    <3>3. AfterReturn(L, t.binding, N) BY <3>1, <3>2, ReturnedRecords
    <3>4. ReturnCounts(L, t.binding, N) BY <2>3, <3>1, <3>2, ReturnedCounts
    <3>5. Family(N) /\ Reserved(N) BY <3>1, <3>3, <3>4, ReturnKeepsReservations
    <3>6. Issued' BY <2>2 DEF HeldInv, Issued
    <3> QED BY <2>2, <3>5, <3>6 DEF HeldInv
  <2> QED BY <2>4, <2>5
<1>5. ASSUME UNCHANGED vars PROVE Kept
  BY <1>5 DEF HeldInv, Issued, vars
<1> HIDE DEF Kept
<1>6. Kept BY <1>2, <1>3, <1>4, <1>5 DEF Next
<1> QED BY <1>1, <1>6 DEF HeldInv, Kept, Family, Reserved, OpenChildren

(* What an open call reserved stays with its callee, or with a call nested  *)
(* in it that reserved it again, in every version of the ledger: open moves *)
(* only what the caller has in the version it was checked against, and      *)
(* return waits for the nested calls.                                       *)
THEOREM ReservationsStay == Spec => []ReservationsHeld
<1>1. HeldInv => ReservationsHeld
  BY DEF HeldInv, Reserved, ReservationsHeld
<1> QED BY <1>1, HeldInit, HeldStep, PTL DEF Spec
=============================================================================
