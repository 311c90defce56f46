------------------------- MODULE BalanceReservation -------------------------
(***************************************************************************)
(* Step 1 of B2cService.initiate, statement by statement, for requests     *)
(* that race: the idempotency look-up, and then one database transaction   *)
(* that locks the tenant row, sums the ledger, compares, and inserts the   *)
(* payout with its reservation.  Collections and outcomes of earlier       *)
(* payouts move the ledger meanwhile; they do not take the tenant lock.    *)
(*                                                                         *)
(* The database commits each transaction at once and shows other           *)
(* transactions what is committed (READ COMMITTED), so a transaction's     *)
(* writes appear in the step that commits them.  The accounts are kept as  *)
(* the running sums availableBalance computes from ledger_entries.         *)
(***************************************************************************)
EXTENDS Integers

CONSTANTS
  Tenants,
  Requests,     \* calls of initiate; a client's retry is another request
  TenantOf,     \* request -> its tenant
  KeyOf,        \* request -> its idempotencyKey
  NoKey,        \* no idempotencyKey was sent
  AmountOf,     \* request -> amountMinorUnits
  Collected,    \* amounts of collections that may settle meanwhile
  MaxCredit,    \* bound on what a tenant collects
  None          \* nobody holds the lock; no answer yet

\* the DTO lets only positive amounts through
ASSUME ReservationAssumption ==
  /\ TenantOf \in [Requests -> Tenants]
  /\ AmountOf \in [Requests -> Nat \ {0}]
  /\ Collected \subseteq Nat \ {0}
  /\ MaxCredit \in Nat
  /\ None \notin Requests

VARIABLES
  balance,   \* tenant -> credits minus debits on tenant_balance
  held,      \* tenant -> the same on payout_reserved
  paidOut,   \* tenant -> the same on payouts_paid
  credited,  \* tenant -> what was ever collected
  row,       \* request -> the payout row it created
  lock,      \* tenant -> who holds FOR UPDATE on its row
  pc,        \* request -> where it is
  seen,      \* request -> the balance it read
  answer     \* request -> the payout it was answered with

vars == <<balance, held, paidOut, credited, row, lock, pc, seen, answer>>
accounts == <<balance, held, paidOut, credited>>

TypeOK ==
  /\ balance \in [Tenants -> Int]
  /\ held \in [Tenants -> Int]
  /\ paidOut \in [Tenants -> Int]
  /\ credited \in [Tenants -> Nat]
  /\ row \in [Requests -> {"none", "reserved", "settled", "failed"}]
  /\ lock \in [Tenants -> Requests \cup {None}]
  /\ pc \in [Requests -> {"idle", "begin", "locked", "checked", "conflict", "done", "declined", "dead"}]
  /\ seen \in [Requests -> Int]
  /\ answer \in [Requests -> Requests \cup {None}]

Init ==
  /\ balance = [tn \in Tenants |-> 0]
  /\ held = [tn \in Tenants |-> 0]
  /\ paidOut = [tn \in Tenants |-> 0]
  /\ credited = [tn \in Tenants |-> 0]
  /\ row = [q \in Requests |-> "none"]
  /\ lock = [tn \in Tenants |-> None]
  /\ pc = [q \in Requests |-> "idle"]
  /\ seen = [q \in Requests |-> 0]
  /\ answer = [q \in Requests |-> None]

-----------------------------------------------------------------------------

Goto(q, to) == pc' = [pc EXCEPT ![q] = to]

Unlock(q) == lock' = [lock EXCEPT ![TenantOf[q]] = None]

\* committed rows with the (tenantId, idempotencyKey) of q
Existing(q) ==
  {r \in Requests : /\ KeyOf[q] # NoKey
                    /\ KeyOf[r] = KeyOf[q]
                    /\ TenantOf[r] = TenantOf[q]
                    /\ row[r] # "none"}

\* findByIdempotencyKey before anything else
preCheck(q) ==
  /\ pc[q] = "idle"
  /\ IF Existing(q) = {}
     THEN Goto(q, "begin") /\ UNCHANGED answer
     ELSE \E r \in Existing(q) : answer' = [answer EXCEPT ![q] = r] /\ Goto(q, "done")
  /\ UNCHANGED <<accounts, row, lock, seen>>

\* mutant: the lock does not outlive its statement
lockTenantBalance_OutsideTransaction(q) ==
  /\ pc[q] = "begin"
  /\ Goto(q, "locked")
  /\ UNCHANGED <<accounts, row, lock, seen, answer>>

lockTenantBalance(q) ==
  /\ pc[q] = "begin"
  /\ lock[TenantOf[q]] = None
  /\ lock' = [lock EXCEPT ![TenantOf[q]] = q]
  /\ Goto(q, "locked")
  /\ UNCHANGED <<accounts, row, seen, answer>>

\* assertSufficientBalance: InsufficientBalanceException rolls back
readBalance(q) ==
  /\ pc[q] = "locked"
  /\ seen' = [seen EXCEPT ![q] = balance[TenantOf[q]]]
  /\ IF AmountOf[q] > balance[TenantOf[q]]
     THEN Unlock(q) /\ Goto(q, "declined")
     ELSE Goto(q, "checked") /\ UNCHANGED lock
  /\ UNCHANGED <<accounts, row, answer>>

\* mutant: no unique index on (tenantId, idempotencyKey)
reserve_NoIndex(q) ==
  /\ pc[q] = "checked"
  /\ row' = [row EXCEPT ![q] = "reserved"]
  /\ balance' = [balance EXCEPT ![TenantOf[q]] = @ - AmountOf[q]]
  /\ held' = [held EXCEPT ![TenantOf[q]] = @ + AmountOf[q]]
  /\ answer' = [answer EXCEPT ![q] = q]
  /\ Goto(q, "done")
  /\ Unlock(q)
  /\ UNCHANGED <<paidOut, credited, seen>>

\* mutant: only half of the reservation pair is written
reserve_OneEntry(q) ==
  /\ pc[q] = "checked"
  /\ Existing(q) = {}
  /\ row' = [row EXCEPT ![q] = "reserved"]
  /\ held' = [held EXCEPT ![TenantOf[q]] = @ + AmountOf[q]]
  /\ answer' = [answer EXCEPT ![q] = q]
  /\ Goto(q, "done")
  /\ Unlock(q)
  /\ UNCHANGED <<balance, paidOut, credited, seen>>

\* the insert of the row and of reservationEntries, and the commit
reserve(q) ==
  /\ pc[q] = "checked"
  /\ Existing(q) = {}
  /\ row' = [row EXCEPT ![q] = "reserved"]
  /\ balance' = [balance EXCEPT ![TenantOf[q]] = @ - AmountOf[q]]
  /\ held' = [held EXCEPT ![TenantOf[q]] = @ + AmountOf[q]]
  /\ answer' = [answer EXCEPT ![q] = q]
  /\ Goto(q, "done")
  /\ Unlock(q)
  /\ UNCHANGED <<paidOut, credited, seen>>

\* mutant: the rollback of P2002 leaves the lock behind
conflict_KeepsLock(q) ==
  /\ pc[q] = "checked"
  /\ Existing(q) # {}
  /\ Goto(q, "conflict")
  /\ UNCHANGED <<accounts, row, lock, seen, answer>>

\* P2002: the transaction rolls back
conflict(q) ==
  /\ pc[q] = "checked"
  /\ Existing(q) # {}
  /\ Goto(q, "conflict")
  /\ Unlock(q)
  /\ UNCHANGED <<accounts, row, seen, answer>>

\* the look-up in the catch block
replay(q) ==
  /\ pc[q] = "conflict"
  /\ \E r \in Existing(q) : answer' = [answer EXCEPT ![q] = r]
  /\ Goto(q, "done")
  /\ UNCHANGED <<accounts, row, lock, seen>>

\* the process dies inside the transaction, or the database drops it
abort(q) ==
  /\ pc[q] \in {"begin", "locked", "checked", "conflict"}
  /\ lock' = [tn \in Tenants |-> IF lock[tn] = q THEN None ELSE lock[tn]]
  /\ Goto(q, "dead")
  /\ UNCHANGED <<accounts, row, seen, answer>>

-----------------------------------------------------------------------------
(* Movements of the same accounts that do not take the tenant lock *)

\* transitionToSettled and recordInboundSettlement
settleCollection(tn, n) ==
  /\ credited[tn] + n <= MaxCredit
  /\ credited' = [credited EXCEPT ![tn] = @ + n]
  /\ balance' = [balance EXCEPT ![tn] = @ + n]
  /\ UNCHANGED <<held, paidOut, row, lock, pc, seen, answer>>

\* transitionPayoutToSettled: settlementEntries
settlePayout(q) ==
  /\ row[q] = "reserved"
  /\ row' = [row EXCEPT ![q] = "settled"]
  /\ held' = [held EXCEPT ![TenantOf[q]] = @ - AmountOf[q]]
  /\ paidOut' = [paidOut EXCEPT ![TenantOf[q]] = @ + AmountOf[q]]
  /\ UNCHANGED <<balance, credited, lock, pc, seen, answer>>

\* mutant: the release is posted again for a payout that has failed
releasePayout_Twice(q) ==
  /\ row[q] \in {"reserved", "failed"}
  /\ row' = [row EXCEPT ![q] = "failed"]
  /\ held' = [held EXCEPT ![TenantOf[q]] = @ - AmountOf[q]]
  /\ balance' = [balance EXCEPT ![TenantOf[q]] = @ + AmountOf[q]]
  /\ UNCHANGED <<paidOut, credited, lock, pc, seen, answer>>

\* transitionPayoutToFailed and releaseReservation: releaseEntries
releasePayout(q) ==
  /\ row[q] = "reserved"
  /\ row' = [row EXCEPT ![q] = "failed"]
  /\ held' = [held EXCEPT ![TenantOf[q]] = @ - AmountOf[q]]
  /\ balance' = [balance EXCEPT ![TenantOf[q]] = @ + AmountOf[q]]
  /\ UNCHANGED <<paidOut, credited, lock, pc, seen, answer>>

-----------------------------------------------------------------------------

InitiateStep(q) ==
  \/ preCheck(q) \/ lockTenantBalance(q) \/ readBalance(q)
  \/ reserve(q) \/ conflict(q) \/ replay(q)

Movement ==
  \/ \E tn \in Tenants, n \in Collected : settleCollection(tn, n)
  \/ \E q \in Requests : settlePayout(q) \/ releasePayout(q)

Next == Movement \/ \E q \in Requests : InitiateStep(q) \/ abort(q)

Spec == Init /\ [][Next]_vars

\* Statements return; a row lock that keeps being released is granted in the end.
FairSpec ==
  /\ Spec
  /\ \A q \in Requests : SF_vars(lockTenantBalance(q)) /\ WF_vars(InitiateStep(q))

-----------------------------------------------------------------------------
(* Properties *)

(***************************************************************************)
(* A tenant never spends what it does not have, however many payouts race  *)
(* with each other and with settling collections.                          *)
(***************************************************************************)
NoOverdraft == \A tn \in Tenants : balance[tn] >= 0

(***************************************************************************)
(* The lock serialises: a tenant's row is locked by exactly the request    *)
(* that is between its lock and its commit, and the balance such a request *)
(* has read can since have grown but not shrunk.                           *)
(***************************************************************************)
LockProtectsRead ==
  \A q \in Requests :
    /\ pc[q] \in {"locked", "checked"} <=> lock[TenantOf[q]] = q
    /\ pc[q] = "checked" => AmountOf[q] <= seen[q] /\ seen[q] <= balance[TenantOf[q]]

(***************************************************************************)
(* Nothing is created or lost: what a tenant collected is in its balance,  *)
(* in the reserve or paid out.                                             *)
(***************************************************************************)
Conservation ==
  \A tn \in Tenants : credited[tn] = balance[tn] + held[tn] + paidOut[tn]

(***************************************************************************)
(* Requests with one idempotency key are answered with one payout, whether *)
(* the pre-check or the unique index catches the second.                   *)
(***************************************************************************)
OneKeyOnePayout ==
  \A q, r \in Requests :
    (/\ KeyOf[q] = KeyOf[r] /\ KeyOf[q] # NoKey /\ TenantOf[q] = TenantOf[r]
     /\ answer[q] # None /\ answer[r] # None) => answer[q] = answer[r]

(***************************************************************************)
(* Every request is answered, declined or dead: no lock is left behind and *)
(* a replay finds the payout it lost to.                                   *)
(***************************************************************************)
EveryRequestEnds ==
  \A q \in Requests : pc[q] # "idle" ~> pc[q] \in {"done", "declined", "dead"}

(***************************************************************************)
(* The steps add up to the atomic account of TenantAccount.                *)
(***************************************************************************)
Account == INSTANCE TenantAccount WITH
  Amounts <- Collected \cup {AmountOf[q] : q \in Requests}

ImplementsAccount == Account!Spec

=============================================================================
