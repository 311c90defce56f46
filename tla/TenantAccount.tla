---------------------------- MODULE TenantAccount ----------------------------
(***************************************************************************)
(* What the ledger promises about a tenant's money, as if every movement   *)
(* were instantaneous: a payout is authorised only by a balance that       *)
(* covers it at that moment, and what it takes is held until it is paid    *)
(* out or returned.  BalanceReservation implements it with a row lock, a   *)
(* read, a comparison and a commit.                                        *)
(***************************************************************************)
EXTENDS Naturals

CONSTANTS Tenants, Amounts

VARIABLES balance, held, paidOut   \* tenant -> cents in each account

Init ==
  /\ balance = [tn \in Tenants |-> 0]
  /\ held = [tn \in Tenants |-> 0]
  /\ paidOut = [tn \in Tenants |-> 0]

Collect(tn, n) ==
  /\ balance' = [balance EXCEPT ![tn] = @ + n]
  /\ UNCHANGED <<held, paidOut>>

Authorise(tn, n) ==
  /\ n <= balance[tn]
  /\ balance' = [balance EXCEPT ![tn] = @ - n]
  /\ held' = [held EXCEPT ![tn] = @ + n]
  /\ UNCHANGED paidOut

PayOut(tn, n) ==
  /\ n <= held[tn]
  /\ held' = [held EXCEPT ![tn] = @ - n]
  /\ paidOut' = [paidOut EXCEPT ![tn] = @ + n]
  /\ UNCHANGED balance

GiveBack(tn, n) ==
  /\ n <= held[tn]
  /\ held' = [held EXCEPT ![tn] = @ - n]
  /\ balance' = [balance EXCEPT ![tn] = @ + n]
  /\ UNCHANGED paidOut

Next == \E tn \in Tenants, n \in Amounts :
  Collect(tn, n) \/ Authorise(tn, n) \/ PayOut(tn, n) \/ GiveBack(tn, n)

Spec == Init /\ [][Next]_<<balance, held, paidOut>>

=============================================================================
