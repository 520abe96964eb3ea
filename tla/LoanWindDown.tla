---------------------------- MODULE LoanWindDown ----------------------------
(***************************************************************************)
(* Any legal use of the ledger, followed by the steps with which a call    *)
(* returns and a worker is joined (recover_stable_views_impl in            *)
(* src/kernel/loans.rs): give shares back to the holder of the close       *)
(* right, join them, release holds, end scopes, recover owners.            *)
(***************************************************************************)
EXTENDS LoanLedger

VARIABLE returning      \* no new loan, split or hold is made any more

windVars == <<vars, returning>>

\* The share goes to the participant that can end its scope.
GiveBack(sh) ==
    LET q == scopes[shares[sh].scope].closeRight IN
    /\ shares[sh].holder # None /\ q # None /\ shares[sh].holder # q
    /\ Transfer(shares[sh].holder, sh, q)

ReturnStep ==
    \/ \E sh \in DOMAIN shares : GiveBack(sh)
    \/ \E p \in Participant :
          \/ \E left, right \in DOMAIN shares : Join(p, left, right)
          \/ \E h \in DOMAIN holds : Release(p, h)
          \/ \E s \in DOMAIN scopes : End(p, s)
          \/ \E l \in DOMAIN loans : Recover(p, l)

WindInit == Init /\ returning = FALSE

StartReturning == ~returning /\ returning' = TRUE /\ UNCHANGED vars

WindNext ==
    \/ ~returning /\ Next /\ UNCHANGED returning
    \/ StartReturning
    \/ returning /\ ReturnStep /\ UNCHANGED returning

\* A call that returns takes its recovery steps; nothing makes it return.
WindSpec ==
    /\ WindInit /\ [][WindNext]_windVars
    /\ WF_windVars(returning /\ ReturnStep /\ UNCHANGED returning)

\* No legal sequence of splits, transfers, reborrows, holds and partial
\* returns strands authority: once the participants only return what they
\* have, every scope with a close right ends and every owner comes back.
OwnersComeBack ==
    returning ~> /\ \A s \in DOMAIN scopes :
                       scopes[s].closeRight # None => ~scopes[s].active
                 /\ \A o \in Owned : owner[o] # None
=============================================================================
