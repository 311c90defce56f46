---------------------- MODULE TransactionLockingProofs ----------------------
(***************************************************************************)
(* The locking calls implement the contract, for any number of calls, and  *)
(* so inherit everything TransactionStateMachineProofs says of it.  What   *)
(* makes a commit a step of the contract is DecidesOnCurrentRow; it is     *)
(* inductive together with HoldsItsRow and RowExists.                      *)
(***************************************************************************)
EXTENDS TransactionLocking, TransactionStateMachineProofs

\* the lock is kept from lockTransaction to the commit
HoldsItsRow ==
  \A q \in Calls : call[q].at \in {"locked", "read"} => holder[call[q].t] = q

\* rows are not deleted, so the row of a call cannot be inserted under it
RowExists ==
  \A q \in Calls : call[q] # Idle => status[call[q].t] # "NONE"

LockInv == LockTypeOK /\ HoldsItsRow /\ RowExists /\ DecidesOnCurrentRow

\* What is known of a call that is not idle.
LEMMA ActiveCall ==
  ASSUME LockTypeOK, NEW q \in Calls, call[q].at # "idle"
  PROVE  /\ call[q] \in Call
         /\ call[q].t \in Transactions
         /\ call[q].r \in Receipts \cup {NoReceipt}
  BY DEF LockTypeOK, Call, Idle

LEMMA InitLockInv == LockInit => LockInv
  BY InitTypeOK, CallsAssumption
  DEF LockInit, LockInv, LockTypeOK, HoldsItsRow, RowExists, DecidesOnCurrentRow, Idle

-----------------------------------------------------------------------------
(* A commit is a step of the contract *)

LEMMA SettlesImplements ==
  ASSUME LockInv, NEW q \in Calls, Settles(q)
  PROVE  Next
<1> DEFINE t == call[q].t
           r == call[q].r
<1>1. t \in Transactions /\ r \in Receipts \cup {NoReceipt}
  BY ActiveCall DEF LockInv, Settles
<1>2. assertTransitionAllowed(t, "SETTLED")
  BY DEF LockInv, DecidesOnCurrentRow, Settles, assertTransitionAllowed
<1>3. MaySettle(t, r)
  BY <1>2 DEF MaySettle, Settles, CreateReconciled
<1>4. SettleRow(t, r, SettlementKind(t))
  BY <1>3 DEF SettleRow, Settles
<1>5. transitionToSettled(t, r) \/ transitionPayoutToSettled(t, r)
  BY <1>1, <1>4 DEF SettlementKind, Transactions, transitionToSettled, transitionPayoutToSettled
<1> QED
  BY <1>1, <1>5 DEF Next, Outcome

LEMMA BackfillsImplements ==
  ASSUME LockInv, NEW q \in Calls, Backfills(q)
  PROVE  Next
<1> DEFINE t == call[q].t
           r == call[q].r
<1>1. t \in Transactions /\ r \in Receipts \cup {NoReceipt}
  BY ActiveCall DEF LockInv, Backfills
<1>2. MayBackfill(t, r)
  BY DEF LockInv, DecidesOnCurrentRow, Backfills, MayBackfill
<1>3. \A kind : SettleRow(t, r, kind)
  BY <1>2 DEF SettleRow, Backfills
<1>4. transitionToSettled(t, r) \/ transitionPayoutToSettled(t, r)
  BY <1>1, <1>3 DEF Transactions, transitionToSettled, transitionPayoutToSettled
<1> QED
  BY <1>1, <1>4 DEF Next, Outcome

LEMMA FailsImplements ==
  ASSUME LockInv, NEW q \in Calls, Fails(q)
  PROVE  Next
<1> DEFINE t == call[q].t
<1>1. t \in Transactions
  BY ActiveCall DEF LockInv, Fails
<1>2. assertTransitionAllowed(t, "FAILED")
  BY DEF LockInv, DecidesOnCurrentRow, Fails, assertTransitionAllowed
<1>3. CASE t \in Payouts
  <2>1. transitionPayoutToFailed(t)
    BY <1>2, <1>3 DEF Fails, transitionPayoutToFailed
  <2> QED
    BY <1>1, <2>1 DEF Next, Outcome
<1>4. CASE t \notin Payouts
  <2>1. transitionToFailed(t)
    BY <1>1, <1>2, <1>4 DEF Fails, transitionToFailed, Transactions
  <2> QED
    BY <1>1, <2>1 DEF Next, Outcome
<1> QED
  BY <1>3, <1>4

LEMMA NextImplements == LockInv /\ [LockNext]_lockVars => [Next]_rowVars
<1> SUFFICES ASSUME LockInv, [LockNext]_lockVars
             PROVE  [Next]_rowVars
  OBVIOUS
<1>1. CASE UNCHANGED lockVars
  BY <1>1 DEF lockVars, rowVars
<1>2. CASE \E q \in Calls : CallStep(q)
  <2> PICK q \in Calls : CallStep(q)
    BY <1>2
  <2>1. CASE UNCHANGED rowVars
    BY <2>1
  <2>2. CASE Settles(q) \/ Backfills(q) \/ Fails(q)
    BY <2>2, SettlesImplements, BackfillsImplements, FailsImplements
  <2> QED
    BY <2>1, <2>2 DEF CallStep, Begin, lockTransaction, Reads, LeavesAlone
<1>3. CASE \E t \in Transactions : Initiates(t) \/ Records(t) \/ Reconciles(t)
  <2> PICK t \in Transactions : Initiates(t) \/ Records(t) \/ Reconciles(t)
    BY <1>3
  <2>1. Initiation(t) \/ Outcome(t) \/ Reconciliation(t)
    BY DEF Initiates, Records, Reconciles, Outcome
  <2> QED
    BY <2>1 DEF Next
<1> QED
  BY <1>1, <1>2, <1>3 DEF LockNext

-----------------------------------------------------------------------------
(* The lock invariant is inductive *)

\* what a step may do to row u
Kept(u) == status'[u] = status[u] /\ receipt'[u] = receipt[u]
StaysARow(u) == status[u] # "NONE" => status'[u] # "NONE"

\* The writers without a lock of their own do not touch a row that a call has
\* read.
LEMMA OthersKeepReadRows ==
  ASSUME TypeOK, LockInv, NEW t \in Transactions,
         Initiates(t) \/ Records(t) \/ Reconciles(t)
  PROVE  /\ UNCHANGED <<holder, call>>
         /\ \A u \in Transactions : StaysARow(u)
         /\ \A q \in Calls : call[q].at = "read" => Kept(call[q].t)
<1>1. CASE Initiates(t)
  <2>1. /\ receipt' = receipt
        /\ \E to \in Statuses \ {"NONE"} : status' = [status EXCEPT ![t] = to]
    BY <1>1 DEF Initiates, Initiation, reserve, createPending, markProcessing,
                releaseReservation, failInitiation, SetStatus, Statuses
  <2>2. holder[t] = NoCall
    BY <1>1 DEF Initiates
  <2>3. \A q \in Calls : call[q].at = "read" => call[q].t # t
    BY <2>2, CallsAssumption DEF LockInv, DecidesOnCurrentRow
  <2> QED
    BY <1>1, <2>1, <2>3, ActiveCall DEF Initiates, TypeOK, StaysARow, Kept, LockInv
<1>2. CASE Records(t)
  <2>1. \A q \in Calls : call[q].at = "read" => call[q].t # t
    BY <1>2 DEF Records, recordInboundSettlement, LockInv, RowExists, Idle
  <2> QED
    BY <1>2, <2>1, ActiveCall
    DEF Records, recordInboundSettlement, SetStatus, TypeOK, StaysARow, Kept, LockInv
<1>3. CASE Reconciles(t)
  BY <1>3 DEF Reconciles, Reconciliation, upsertDrift, markDrift, closeRecord, StaysARow, Kept
<1> QED
  BY <1>1, <1>2, <1>3

\* A commit writes the row of its call and no other.
LEMMA CommitKeepsOtherRows ==
  ASSUME TypeOK, LockInv, NEW q \in Calls, Settles(q) \/ Backfills(q) \/ Fails(q)
  PROVE  /\ Ends(q)
         /\ holder[call[q].t] = q
         /\ \A u \in Transactions : StaysARow(u) /\ (u # call[q].t => Kept(u))
<1>1. call[q].t \in Transactions /\ holder[call[q].t] = q
  BY ActiveCall DEF LockInv, DecidesOnCurrentRow, Settles, Backfills, Fails
<1>2. CASE Settles(q)
  BY <1>1, <1>2 DEF Settles, SetStatus, SetReceipt, TypeOK, StaysARow, Kept
<1>3. CASE Backfills(q)
  BY <1>1, <1>3 DEF Backfills, SetReceipt, TypeOK, StaysARow, Kept
<1>4. CASE Fails(q)
  BY <1>1, <1>4 DEF Fails, SetStatus, TypeOK, StaysARow, Kept
<1> QED
  BY <1>1, <1>2, <1>3, <1>4 DEF Settles, Backfills, Fails

\* Whoever ends gives back its own row, and leaves the invariant to the others.
LEMMA EndsKeepsInv ==
  ASSUME TypeOK', LockInv, NEW q \in Calls, Ends(q),
         \A u \in Transactions : StaysARow(u) /\ (holder[u] # q => Kept(u))
  PROVE  LockInv'
<1>1. LockTypeOK'
  BY DEF LockInv, LockTypeOK, Ends
<1>2. call'[q] = Idle /\ \A p \in Calls \ {q} : call'[p] = call[p]
  BY DEF LockInv, LockTypeOK, Ends
<1>3. \A p \in Calls \ {q} : call[p].at # "idle" =>
         /\ call[p].t \in Transactions
         /\ holder[call[p].t] = p => holder'[call[p].t] = p
  BY ActiveCall DEF LockInv, Ends
<1>4. HoldsItsRow'
  BY <1>2, <1>3 DEF LockInv, HoldsItsRow, Idle
<1>5. \A p \in Calls : call[p] # Idle => call[p].at # "idle"
  BY DEF LockInv, LockTypeOK, Call
<1>6. RowExists'
  BY <1>2, <1>3, <1>5 DEF LockInv, RowExists, StaysARow
<1>7. DecidesOnCurrentRow'
  BY <1>2, <1>3 DEF LockInv, DecidesOnCurrentRow, Kept, Idle
<1> QED
  BY <1>1, <1>4, <1>6, <1>7 DEF LockInv

LEMMA NextLockInv == TypeOK /\ TypeOK' /\ LockInv /\ [LockNext]_lockVars => LockInv'
<1> SUFFICES ASSUME TypeOK, TypeOK', LockInv, [LockNext]_lockVars
             PROVE  LockInv'
  OBVIOUS
<1> USE DEF LockInv
<1>1. CASE UNCHANGED lockVars
  BY <1>1 DEF lockVars, rowVars, LockTypeOK, HoldsItsRow, RowExists, DecidesOnCurrentRow
<1>2. CASE \E t \in Transactions : Initiates(t) \/ Records(t) \/ Reconciles(t)
  <2>1. /\ UNCHANGED <<holder, call>>
        /\ \A u \in Transactions : StaysARow(u)
        /\ \A q \in Calls : call[q].at = "read" => Kept(call[q].t)
    BY <1>2, OthersKeepReadRows
  <2>2. LockTypeOK' /\ HoldsItsRow' /\ DecidesOnCurrentRow'
    BY <2>1 DEF LockTypeOK, HoldsItsRow, DecidesOnCurrentRow, Kept
  <2>3. \A q \in Calls : call[q] # Idle => call[q].t \in Transactions
    BY DEF LockTypeOK, Call
  <2>4. RowExists'
    BY <2>1, <2>3 DEF RowExists, StaysARow
  <2> QED
    BY <2>2, <2>4
<1>3. CASE \E q \in Calls : CallStep(q)
  <2> PICK q \in Calls : CallStep(q)
    BY <1>3
  <2>1. CASE \E to \in {"SETTLED", "FAILED"}, t \in Transactions, r \in Receipts \cup {NoReceipt} :
                Begin(q, to, t, r)
    <3> PICK to \in {"SETTLED", "FAILED"}, t \in Transactions, r \in Receipts \cup {NoReceipt} :
                Begin(q, to, t, r)
      BY <2>1
    <3>1. /\ call'[q] \in Call /\ call'[q].at = "begun" /\ call'[q].t = t
          /\ \A p \in Calls \ {q} : call'[p] = call[p]
      BY DEF Begin, LockTypeOK, Call, Statuses
    <3>2. LockTypeOK'
      BY <3>1 DEF Begin, LockTypeOK
    <3> QED
      BY <3>1, <3>2 DEF Begin, rowVars, HoldsItsRow, RowExists, DecidesOnCurrentRow
  <2>2. CASE lockTransaction(q)
    <3>1. call[q] \in Call /\ call[q].t \in Transactions /\ call[q] # Idle
      BY <2>2, ActiveCall DEF lockTransaction, Idle
    <3>2. /\ call'[q] \in Call /\ call'[q].at = "locked" /\ call'[q].t = call[q].t
          /\ \A p \in Calls \ {q} : call'[p] = call[p]
          /\ holder'[call[q].t] = q
          /\ \A u \in Transactions \ {call[q].t} : holder'[u] = holder[u]
          /\ holder[call[q].t] = NoCall
      BY <2>2, <3>1 DEF lockTransaction, LockTypeOK, Call
    <3>3. LockTypeOK'
      BY <2>2, <3>1, <3>2 DEF lockTransaction, LockTypeOK
    <3>4. \A p \in Calls : call[p].at \in {"locked", "read"} => call[p].t # call[q].t
      BY <3>2, CallsAssumption DEF HoldsItsRow
    <3>5. \A p \in Calls \ {q} : call[p].at \in {"locked", "read"} => holder'[call[p].t] = p
      BY <3>2, <3>4, ActiveCall DEF HoldsItsRow
    <3> QED
      BY <2>2, <3>1, <3>2, <3>3, <3>5
      DEF lockTransaction, rowVars, HoldsItsRow, RowExists, DecidesOnCurrentRow
  <2>3. CASE Reads(q)
    <3>1. call[q] \in Call /\ call[q].t \in Transactions /\ call[q] # Idle
      BY <2>3, ActiveCall DEF Reads, Idle
    <3>2. status[call[q].t] \in Statuses /\ receipt[call[q].t] \in Receipts \cup {NoReceipt}
      BY <3>1 DEF TypeOK
    <3>3. /\ call'[q] = [call[q] EXCEPT !.at = "read", !.status = status[call[q].t],
                                        !.receipt = receipt[call[q].t]]
          /\ \A p \in Calls \ {q} : call'[p] = call[p]
      BY <2>3 DEF Reads, LockTypeOK
    <3>4. /\ call'[q] \in Call /\ call'[q].at = "read" /\ call'[q].t = call[q].t
          /\ call'[q].status = status[call[q].t] /\ call'[q].receipt = receipt[call[q].t]
      BY <3>1, <3>2, <3>3 DEF Call
    <3>5. LockTypeOK'
      BY <2>3, <3>3, <3>4 DEF Reads, LockTypeOK
    <3>6. holder[call[q].t] = q
      BY <2>3 DEF Reads, HoldsItsRow
    <3>7. status' = status /\ receipt' = receipt /\ holder' = holder
      BY <2>3 DEF Reads, rowVars
    <3>8. HoldsItsRow'
      BY <3>3, <3>4, <3>6, <3>7 DEF HoldsItsRow
    <3>9. RowExists'
      BY <3>1, <3>3, <3>4, <3>7 DEF RowExists
    <3>10. \A p \in Calls \ {q} : call'[p] = call[p]
      BY <3>3
    <3>11. DecidesOnCurrentRow'
      BY <3>4, <3>6, <3>7, <3>10 DEF DecidesOnCurrentRow
    <3> QED
      BY <3>5, <3>8, <3>9, <3>11
  <2>4. CASE Settles(q) \/ Backfills(q) \/ Fails(q)
    BY <2>4, CommitKeepsOtherRows, EndsKeepsInv
  <2>5. CASE LeavesAlone(q)
    BY <2>5, EndsKeepsInv DEF LeavesAlone, rowVars, StaysARow, Kept
  <2> QED
    BY <2>1, <2>2, <2>3, <2>4, <2>5 DEF CallStep
<1> QED
  BY <1>1, <1>2, <1>3 DEF LockNext

-----------------------------------------------------------------------------
(* The theorems *)

LEMMA LockSpecInv == LockSpec => [](TypeOK /\ LockInv)
<1>1. LockInit => TypeOK /\ LockInv
  BY InitTypeOK, InitLockInv DEF LockInit
<1>2. TypeOK /\ LockInv /\ [LockNext]_lockVars => (TypeOK /\ LockInv)'
  BY NextImplements, NextTypeOK, NextLockInv
<1> QED
  BY <1>1, <1>2, PTL DEF LockSpec

\* lockTransaction makes every method one step of the contract: the locking
\* specification implements the atomic one, however many calls there are.
THEOREM LockingImplementsContract == LockSpec => ImplementsContract
<1>1. LockInit => Init
  BY DEF LockInit
<1> QED
  BY <1>1, LockSpecInv, NextImplements, PTL DEF LockSpec, ImplementsContract, Spec

\* Calls that work on one row at once leave its ledger pairs as its status
\* calls for: the row is not credited or released twice.
THEOREM LockingLedgerAgrees == LockSpec => []LedgerAgreesWithStatus
  BY LockingImplementsContract, LedgerAgrees, PTL DEF ImplementsContract

\* Nor do they put one receipt on two rows, ...
THEOREM LockingReceipts == LockSpec => []ReceiptIsEvidence
  BY LockingImplementsContract, ReceiptsAreEvidence, PTL DEF ImplementsContract

\* ... notify a tenant twice, ...
THEOREM LockingNotifiesOnce == LockSpec => []NotifiedOnce
  BY LockingImplementsContract, TenantIsNotifiedOnce, PTL DEF ImplementsContract

\* ... or take back an outcome.
THEOREM LockingOutcomesFinal == LockSpec => OutcomeIsFinal
  BY LockingImplementsContract, OutcomesAreFinal, PTL DEF ImplementsContract

=============================================================================
