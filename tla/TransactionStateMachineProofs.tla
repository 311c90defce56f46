------------------- MODULE TransactionStateMachineProofs -------------------
(***************************************************************************)
(* What TransactionStateMachine promises, for any number of payouts,       *)
(* collections and receipts.  The inductive invariant is                   *)
(*                                                                         *)
(*   TypeOK /\ LedgerAgreesWithStatus /\ ReceiptIsEvidence /\ NotifiedOnce *)
(*                                                                         *)
(* Each conjunct is inductive relative to TypeOK; the receipt half of      *)
(* OutcomeIsFinal rests on ReceiptIsEvidence: a row that is about to       *)
(* settle carries no receipt the UPDATE could replace.                     *)
(***************************************************************************)
EXTENDS TransactionStateMachine, TLAPS

\* ALLOWED_TRANSITIONS, read backwards: the rows that may settle or fail.
LEMMA TransitionSources ==
  ASSUME TypeOK, NEW t \in Transactions
  PROVE  /\ assertTransitionAllowed(t, "SETTLED") <=> status[t] = "PROCESSING"
         /\ assertTransitionAllowed(t, "FAILED") <=> status[t] \in {"PENDING", "PROCESSING"}
<1>1. status[t] \in Statuses
  BY DEF TypeOK
<1> QED
  BY <1>1 DEF assertTransitionAllowed, ALLOWED_TRANSITIONS, Statuses

\* The three things a settling call can do to a row.
LEMMA SettleCases ==
  ASSUME TypeOK, NEW t \in Transactions, NEW r, NEW kind, SettleRow(t, r, kind)
  PROVE  \/ /\ status[t] = "PROCESSING"
            /\ status' = [status EXCEPT ![t] = "SETTLED"]
            /\ SetReceipt(t, r)
            /\ ReceiptFree(t, r)
            /\ Post(t, kind)
            /\ CreateReconciled(t)
            /\ enqueueWebhookDelivery(t)
         \/ /\ status[t] = "SETTLED"
            /\ receipt[t] = NoReceipt
            /\ r # NoReceipt
            /\ ReceiptFree(t, r)
            /\ receipt' = [receipt EXCEPT ![t] = r]
            /\ UNCHANGED <<status, posted, recon, drift, reconciled, deliveries>>
         \/ UNCHANGED rowVars
  BY TransitionSources DEF SettleRow, MaySettle, MayBackfill, SetStatus, SetReceipt, rowVars

-----------------------------------------------------------------------------
(* Type correctness *)

LEMMA InitTypeOK == Init => TypeOK
  BY RowsAssumption DEF Init, TypeOK, Statuses, PairKinds

LEMMA PostType ==
  ASSUME TypeOK, NEW t \in Transactions, NEW k \in PairKinds, Post(t, k)
  PROVE  posted' \in [Transactions -> [PairKinds -> Nat]]
  BY DEF TypeOK, Post

LEMMA DeliveryType ==
  ASSUME TypeOK, NEW t \in Transactions, enqueueWebhookDelivery(t)
  PROVE  deliveries' \in [Transactions -> Nat]
  BY DEF TypeOK, enqueueWebhookDelivery

LEMMA SettleRowType ==
  ASSUME TypeOK, NEW t \in Transactions, NEW r \in Receipts \cup {NoReceipt},
         NEW k \in PairKinds, SettleRow(t, r, k)
  PROVE  TypeOK'
  BY SettleCases, PostType, DeliveryType
     DEF TypeOK, SetReceipt, CreateReconciled, rowVars, Statuses

LEMMA NextTypeOK == TypeOK /\ [Next]_rowVars => TypeOK'
<1> SUFFICES ASSUME TypeOK, [Next]_rowVars
             PROVE  TypeOK'
  OBVIOUS
<1>1. CASE UNCHANGED rowVars
  BY <1>1 DEF TypeOK, rowVars
<1>2. ASSUME NEW t \in Transactions, Initiation(t)
      PROVE  TypeOK'
  <2>1. CASE reserve(t)
    BY <2>1, PostType DEF reserve, SetStatus, TypeOK, PairKinds, Statuses
  <2>2. CASE createPending(t)
    BY <2>2 DEF createPending, SetStatus, TypeOK, Statuses
  <2>3. CASE markProcessing(t)
    BY <2>3 DEF markProcessing, SetStatus, TypeOK, Statuses
  <2>4. CASE releaseReservation(t)
    BY <2>4, PostType DEF releaseReservation, SetStatus, TypeOK, PairKinds, Statuses
  <2>5. CASE failInitiation(t)
    BY <2>5 DEF failInitiation, SetStatus, TypeOK, Statuses
  <2> QED
    BY <1>2, <2>1, <2>2, <2>3, <2>4, <2>5 DEF Initiation
<1>3. ASSUME NEW t \in Transactions, Outcome(t)
      PROVE  TypeOK'
  <2>1. ASSUME NEW r \in Receipts \cup {NoReceipt}, transitionToSettled(t, r)
        PROVE  TypeOK'
    BY <2>1, SettleRowType DEF transitionToSettled, PairKinds
  <2>2. ASSUME NEW r \in Receipts \cup {NoReceipt}, transitionPayoutToSettled(t, r)
        PROVE  TypeOK'
    BY <2>2, SettleRowType DEF transitionPayoutToSettled, PairKinds
  <2>3. ASSUME NEW r \in Receipts, recordInboundSettlement(t, r)
        PROVE  TypeOK'
    BY <2>3, PostType
       DEF recordInboundSettlement, SetStatus, CreateReconciled, TypeOK, PairKinds, Statuses
  <2>4. CASE transitionToFailed(t)
    BY <2>4, DeliveryType DEF transitionToFailed, SetStatus, TypeOK, Statuses
  <2>5. CASE transitionPayoutToFailed(t)
    BY <2>5, PostType, DeliveryType
       DEF transitionPayoutToFailed, SetStatus, TypeOK, PairKinds, Statuses
  <2> QED
    BY <1>3, <2>1, <2>2, <2>3, <2>4, <2>5 DEF Outcome
<1>4. ASSUME NEW t \in Transactions, Reconciliation(t)
      PROVE  TypeOK'
  BY <1>4 DEF Reconciliation, upsertDrift, markDrift, closeRecord, TypeOK
<1> QED
  BY <1>1, <1>2, <1>3, <1>4 DEF Next

\* Every column stays in its range, and a flag on a reconciliation record is
\* never set where there is no record.
THEOREM TypeCorrect == Spec => []TypeOK
  BY InitTypeOK, NextTypeOK, PTL DEF Spec

-----------------------------------------------------------------------------
(* The ledger agrees with the status *)

LEMMA InitLedger == Init => LedgerAgreesWithStatus
  BY RowsAssumption DEF Init, LedgerAgreesWithStatus, PayoutLedgerAgrees,
       CollectionLedgerAgrees, Count, PairKinds, Transactions

\* A step that moves one row and at most its own pairs is judged on that row.
LEMMA LedgerOfOneRow ==
  ASSUME LedgerAgreesWithStatus, NEW t \in Transactions,
         \A u \in Transactions \ {t} : status'[u] = status[u] /\ posted'[u] = posted[u],
         t \in Payouts => PayoutLedgerAgrees(t)',
         t \in Collections => CollectionLedgerAgrees(t)'
  PROVE  LedgerAgreesWithStatus'
<1>1. ASSUME NEW u \in Payouts PROVE PayoutLedgerAgrees(u)'
  BY <1>1 DEF LedgerAgreesWithStatus, PayoutLedgerAgrees, Transactions, Count
<1>2. ASSUME NEW u \in Collections PROVE CollectionLedgerAgrees(u)'
  BY <1>2 DEF LedgerAgreesWithStatus, CollectionLedgerAgrees, Transactions, Count
<1> QED
  BY <1>1, <1>2 DEF LedgerAgreesWithStatus

LEMMA NextLedger ==
  TypeOK /\ LedgerAgreesWithStatus /\ [Next]_rowVars => LedgerAgreesWithStatus'
<1> SUFFICES ASSUME TypeOK, LedgerAgreesWithStatus, [Next]_rowVars
             PROVE  LedgerAgreesWithStatus'
  OBVIOUS
<1> USE RowsAssumption DEF PairKinds, Transactions, Count
<1>1. CASE UNCHANGED <<status, posted>>
  BY <1>1 DEF LedgerAgreesWithStatus, PayoutLedgerAgrees, CollectionLedgerAgrees
<1>2. ASSUME NEW t \in Transactions, Initiation(t)
      PROVE  LedgerAgreesWithStatus'
  <2> USE DEF TypeOK, LedgerAgreesWithStatus, PayoutLedgerAgrees, CollectionLedgerAgrees, SetStatus
  <2>1. CASE reserve(t)
    BY <2>1, LedgerOfOneRow DEF reserve, Post
  <2>2. CASE createPending(t)
    BY <2>2, LedgerOfOneRow DEF createPending
  <2>3. CASE status[t] = "PENDING" /\ markProcessing(t)
    BY <2>3, LedgerOfOneRow DEF markProcessing
  <2>4. CASE status[t] = "PENDING" /\ t \in Payouts /\ releaseReservation(t)
    BY <2>4, LedgerOfOneRow DEF releaseReservation, Post
  <2>5. CASE status[t] = "PENDING" /\ t \in Collections /\ failInitiation(t)
    BY <2>5, LedgerOfOneRow DEF failInitiation
  <2> QED
    BY <1>2, <2>1, <2>2, <2>3, <2>4, <2>5 DEF Initiation
<1>3. ASSUME NEW t \in Transactions, Outcome(t)
      PROVE  LedgerAgreesWithStatus'
  <2>1. ASSUME NEW r, transitionToSettled(t, r)
        PROVE  LedgerAgreesWithStatus'
    <3>1. t \in Collections /\ SettleRow(t, r, "collection")
      BY <2>1 DEF transitionToSettled
    <3>2. CASE UNCHANGED <<status, posted>>
      BY <1>1, <3>2
    <3>3. CASE /\ status[t] = "PROCESSING"
               /\ status' = [status EXCEPT ![t] = "SETTLED"]
               /\ Post(t, "collection")
      BY <3>1, <3>3, LedgerOfOneRow
         DEF Post, TypeOK, LedgerAgreesWithStatus, PayoutLedgerAgrees, CollectionLedgerAgrees
    <3> QED
      BY <3>1, <3>2, <3>3, SettleCases DEF rowVars
  <2>2. ASSUME NEW r, transitionPayoutToSettled(t, r)
        PROVE  LedgerAgreesWithStatus'
    <3>1. t \in Payouts /\ SettleRow(t, r, "settlement")
      BY <2>2 DEF transitionPayoutToSettled
    <3>2. CASE UNCHANGED <<status, posted>>
      BY <1>1, <3>2
    <3>3. CASE /\ status[t] = "PROCESSING"
               /\ status' = [status EXCEPT ![t] = "SETTLED"]
               /\ Post(t, "settlement")
      BY <3>1, <3>3, LedgerOfOneRow
         DEF Post, TypeOK, LedgerAgreesWithStatus, PayoutLedgerAgrees, CollectionLedgerAgrees
    <3> QED
      BY <3>1, <3>2, <3>3, SettleCases DEF rowVars
  <2>3. ASSUME NEW r, recordInboundSettlement(t, r)
        PROVE  LedgerAgreesWithStatus'
    BY <2>3, LedgerOfOneRow
       DEF recordInboundSettlement, Post, SetStatus, TypeOK, LedgerAgreesWithStatus,
           PayoutLedgerAgrees, CollectionLedgerAgrees
  <2>4. CASE transitionToFailed(t)
    BY <2>4, TransitionSources, LedgerOfOneRow
       DEF transitionToFailed, SetStatus, TypeOK, LedgerAgreesWithStatus,
           PayoutLedgerAgrees, CollectionLedgerAgrees
  <2>5. CASE transitionPayoutToFailed(t)
    BY <2>5, TransitionSources, LedgerOfOneRow
       DEF transitionPayoutToFailed, Post, SetStatus, TypeOK, LedgerAgreesWithStatus,
           PayoutLedgerAgrees, CollectionLedgerAgrees
  <2> QED
    BY <1>3, <2>1, <2>2, <2>3, <2>4, <2>5 DEF Outcome
<1>4. ASSUME NEW t \in Transactions, Reconciliation(t)
      PROVE  LedgerAgreesWithStatus'
  BY <1>1, <1>4 DEF Reconciliation, upsertDrift, markDrift, closeRecord
<1> QED
  BY <1>1, <1>2, <1>3, <1>4 DEF Next, rowVars

\* The ledger and the status never disagree about where the money of a
\* transaction is (every ledger write of the state machine and of B2cService).
THEOREM LedgerAgrees == Spec => []LedgerAgreesWithStatus
<1>1. Init => TypeOK /\ LedgerAgreesWithStatus
  BY InitTypeOK, InitLedger
<1>2. TypeOK /\ LedgerAgreesWithStatus /\ [Next]_rowVars => (TypeOK /\ LedgerAgreesWithStatus)'
  BY NextTypeOK, NextLedger
<1> QED
  BY <1>1, <1>2, PTL DEF Spec

-----------------------------------------------------------------------------
(* Receipts *)

\* Two ways a step keeps ReceiptIsEvidence: it leaves receipts alone and moves
\* no row that has one, or it gives a free receipt to a row that is SETTLED.
LEMMA ReceiptsUntouched ==
  ASSUME ReceiptIsEvidence, UNCHANGED receipt, NEW t \in Transactions,
         \A u \in Transactions \ {t} : status'[u] = status[u],
         receipt[t] # NoReceipt => status'[t] = "SETTLED"
  PROVE  ReceiptIsEvidence'
  BY DEF ReceiptIsEvidence

LEMMA ReceiptGiven ==
  ASSUME TypeOK, ReceiptIsEvidence, NEW t \in Transactions, NEW r,
         receipt' = [receipt EXCEPT ![t] = r], ReceiptFree(t, r), r # NoReceipt,
         \A u \in Transactions \ {t} : status'[u] = status[u],
         status'[t] = "SETTLED"
  PROVE  ReceiptIsEvidence'
  BY DEF ReceiptIsEvidence, ReceiptFree, TypeOK

LEMMA NextReceipt == TypeOK /\ ReceiptIsEvidence /\ [Next]_rowVars => ReceiptIsEvidence'
<1> SUFFICES ASSUME TypeOK, ReceiptIsEvidence, [Next]_rowVars
             PROVE  ReceiptIsEvidence'
  OBVIOUS
<1>1. CASE UNCHANGED <<status, receipt>>
  BY <1>1 DEF ReceiptIsEvidence
<1>2. ASSUME NEW t \in Transactions, Initiation(t)
      PROVE  ReceiptIsEvidence'
  <2>1. status[t] # "SETTLED" /\ UNCHANGED receipt
    BY <1>2 DEF Initiation, reserve, createPending, markProcessing, releaseReservation, failInitiation
  <2>2. \A u \in Transactions \ {t} : status'[u] = status[u]
    BY <1>2 DEF Initiation, reserve, createPending, markProcessing, releaseReservation,
         failInitiation, SetStatus, TypeOK
  <2> QED
    BY <2>1, <2>2, ReceiptsUntouched DEF ReceiptIsEvidence
<1>3. ASSUME NEW t \in Transactions, Outcome(t)
      PROVE  ReceiptIsEvidence'
  <2>1. ASSUME NEW r, NEW kind, SettleRow(t, r, kind)
        PROVE  ReceiptIsEvidence'
    <3>1. CASE UNCHANGED rowVars
      BY <1>1, <3>1 DEF rowVars
    <3>2. CASE /\ status[t] = "SETTLED"
               /\ r # NoReceipt
               /\ ReceiptFree(t, r)
               /\ receipt' = [receipt EXCEPT ![t] = r]
               /\ UNCHANGED status
      BY <3>2, ReceiptGiven
    <3>3. CASE /\ status[t] = "PROCESSING"
               /\ status' = [status EXCEPT ![t] = "SETTLED"]
               /\ SetReceipt(t, r)
               /\ ReceiptFree(t, r)
      <4>1. status'[t] = "SETTLED" /\ \A u \in Transactions \ {t} : status'[u] = status[u]
        BY <3>3 DEF TypeOK
      <4>2. CASE r = NoReceipt
        BY <3>3, <4>1, <4>2, ReceiptsUntouched DEF SetReceipt
      <4>3. CASE r # NoReceipt
        BY <3>3, <4>1, <4>3, ReceiptGiven DEF SetReceipt
      <4> QED
        BY <4>2, <4>3
    <3> QED
      BY <2>1, <3>1, <3>2, <3>3, SettleCases
  <2>2. ASSUME NEW r \in Receipts, recordInboundSettlement(t, r)
        PROVE  ReceiptIsEvidence'
    BY <2>2, ReceiptGiven, RowsAssumption DEF recordInboundSettlement, SetStatus, TypeOK
  <2>3. CASE transitionToFailed(t) \/ transitionPayoutToFailed(t)
    <3>1. status[t] # "SETTLED"
      BY <2>3, TransitionSources DEF transitionToFailed, transitionPayoutToFailed
    <3> QED
      BY <2>3, <3>1, ReceiptsUntouched
         DEF transitionToFailed, transitionPayoutToFailed, SetStatus, TypeOK, ReceiptIsEvidence
  <2> QED
    BY <1>3, <2>1, <2>2, <2>3 DEF Outcome, transitionToSettled, transitionPayoutToSettled
<1>4. ASSUME NEW t \in Transactions, Reconciliation(t)
      PROVE  ReceiptIsEvidence'
  BY <1>1, <1>4 DEF Reconciliation, upsertDrift, markDrift, closeRecord
<1> QED
  BY <1>1, <1>2, <1>3, <1>4 DEF Next, rowVars

\* A receipt is carried by one row at most, and that row is SETTLED (the
\* unique index, the duplicate handling and the back-fill together).
THEOREM ReceiptsAreEvidence == Spec => []ReceiptIsEvidence
<1>1. Init => TypeOK /\ ReceiptIsEvidence
  BY InitTypeOK DEF Init, ReceiptIsEvidence
<1>2. TypeOK /\ ReceiptIsEvidence /\ [Next]_rowVars => (TypeOK /\ ReceiptIsEvidence)'
  BY NextTypeOK, NextReceipt
<1> QED
  BY <1>1, <1>2, PTL DEF Spec

-----------------------------------------------------------------------------
(* Notifications *)

Outcomes == {"SETTLED", "FAILED"}

\* A step that keeps the deliveries and takes no row out of its outcome.
LEMMA NobodyNotified ==
  ASSUME TypeOK, NotifiedOnce, UNCHANGED deliveries,
         \A u \in Transactions : status[u] \in Outcomes => status'[u] = status[u]
  PROVE  NotifiedOnce'
  BY DEF TypeOK, NotifiedOnce, Count, Outcomes

\* A step that enqueues for a row on its way from no outcome to one.
LEMMA FirstNotification ==
  ASSUME TypeOK, NotifiedOnce, NEW t \in Transactions, enqueueWebhookDelivery(t),
         status[t] \notin Outcomes, status'[t] \in Outcomes,
         \A u \in Transactions \ {t} : status'[u] = status[u]
  PROVE  NotifiedOnce'
<1>1. deliveries[t] = 0
  BY DEF NotifiedOnce, Count, Outcomes, TypeOK
<1>2. deliveries'[t] = Count(t \in Subscribed)
  BY <1>1 DEF enqueueWebhookDelivery, Count, TypeOK
<1>3. \A u \in Transactions \ {t} : deliveries'[u] = deliveries[u]
  BY DEF enqueueWebhookDelivery, TypeOK
<1> QED
  BY <1>2, <1>3 DEF NotifiedOnce, Count, Outcomes

LEMMA NextNotified == TypeOK /\ NotifiedOnce /\ [Next]_rowVars => NotifiedOnce'
<1> SUFFICES ASSUME TypeOK, NotifiedOnce, [Next]_rowVars
             PROVE  NotifiedOnce'
  OBVIOUS
<1>1. CASE UNCHANGED <<status, deliveries>>
  BY <1>1, NobodyNotified
<1>2. ASSUME NEW t \in Transactions, Initiation(t)
      PROVE  NotifiedOnce'
  <2>1. status[t] \in {"NONE", "PENDING"} /\ UNCHANGED deliveries
    BY <1>2 DEF Initiation, reserve, createPending, markProcessing, releaseReservation, failInitiation
  <2>2. \A u \in Transactions \ {t} : status'[u] = status[u]
    BY <1>2 DEF Initiation, reserve, createPending, markProcessing, releaseReservation,
         failInitiation, SetStatus, TypeOK
  <2> QED
    BY <2>1, <2>2, NobodyNotified DEF Outcomes
<1>3. ASSUME NEW t \in Transactions, Outcome(t)
      PROVE  NotifiedOnce'
  <2>1. ASSUME NEW r, NEW kind, SettleRow(t, r, kind)
        PROVE  NotifiedOnce'
    <3>1. CASE /\ status[t] = "PROCESSING"
               /\ status' = [status EXCEPT ![t] = "SETTLED"]
               /\ enqueueWebhookDelivery(t)
      BY <3>1, FirstNotification DEF TypeOK, Outcomes
    <3> QED
      BY <1>1, <2>1, <3>1, SettleCases DEF rowVars
  <2>2. ASSUME NEW r, recordInboundSettlement(t, r)
        PROVE  NotifiedOnce'
    BY <2>2, NobodyNotified DEF recordInboundSettlement, SetStatus, TypeOK, Outcomes
  <2>3. CASE transitionToFailed(t) \/ transitionPayoutToFailed(t)
    BY <2>3, TransitionSources, FirstNotification
       DEF transitionToFailed, transitionPayoutToFailed, SetStatus, TypeOK, Outcomes
  <2> QED
    BY <1>3, <2>1, <2>2, <2>3 DEF Outcome, transitionToSettled, transitionPayoutToSettled
<1>4. ASSUME NEW t \in Transactions, Reconciliation(t)
      PROVE  NotifiedOnce'
  BY <1>1, <1>4 DEF Reconciliation, upsertDrift, markDrift, closeRecord
<1> QED
  BY <1>1, <1>2, <1>3, <1>4 DEF Next, rowVars

\* One outbox row per transaction at most, and none before its outcome, however
\* often a callback is redelivered or a receipt back-filled.
THEOREM TenantIsNotifiedOnce == Spec => []NotifiedOnce
<1>1. Init => TypeOK /\ NotifiedOnce
  BY InitTypeOK DEF Init, NotifiedOnce, Count
<1>2. TypeOK /\ NotifiedOnce /\ [Next]_rowVars => (TypeOK /\ NotifiedOnce)'
  BY NextTypeOK, NextNotified
<1> QED
  BY <1>1, <1>2, PTL DEF Spec

-----------------------------------------------------------------------------
(* Outcomes are final *)

Final(t) ==
  /\ status[t] \in {"SETTLED", "FAILED"} => status'[t] = status[t]
  /\ receipt[t] # NoReceipt => receipt'[t] = receipt[t]

LEMMA NextFinal ==
  TypeOK /\ ReceiptIsEvidence /\ [Next]_rowVars => \A u \in Transactions : Final(u)
<1> SUFFICES ASSUME TypeOK, ReceiptIsEvidence, [Next]_rowVars, NEW u \in Transactions
             PROVE  Final(u)
  OBVIOUS
<1>1. CASE UNCHANGED <<status, receipt>>
  BY <1>1 DEF Final
<1>2. ASSUME NEW t \in Transactions, Initiation(t)
      PROVE  Final(u)
  <2>1. status[t] \in {"NONE", "PENDING"} /\ UNCHANGED receipt
    BY <1>2 DEF Initiation, reserve, createPending, markProcessing, releaseReservation, failInitiation
  <2>2. \A v \in Transactions \ {t} : status'[v] = status[v]
    BY <1>2 DEF Initiation, reserve, createPending, markProcessing, releaseReservation,
         failInitiation, SetStatus, TypeOK
  <2> QED
    BY <2>1, <2>2 DEF Final
<1>3. ASSUME NEW t \in Transactions, Outcome(t)
      PROVE  Final(u)
  <2>1. ASSUME NEW r, NEW kind, SettleRow(t, r, kind)
        PROVE  Final(u)
    <3>1. CASE status[t] = "PROCESSING" /\ status' = [status EXCEPT ![t] = "SETTLED"] /\ SetReceipt(t, r)
      BY <3>1 DEF Final, ReceiptIsEvidence, SetReceipt, TypeOK
    <3>2. CASE receipt[t] = NoReceipt /\ receipt' = [receipt EXCEPT ![t] = r] /\ UNCHANGED status
      BY <3>2 DEF Final, TypeOK
    <3> QED
      BY <1>1, <2>1, <3>1, <3>2, SettleCases DEF rowVars
  <2>2. ASSUME NEW r, recordInboundSettlement(t, r)
        PROVE  Final(u)
    BY <2>2 DEF recordInboundSettlement, SetStatus, Final, TypeOK, ReceiptIsEvidence
  <2>3. CASE transitionToFailed(t) \/ transitionPayoutToFailed(t)
    BY <2>3, TransitionSources DEF transitionToFailed, transitionPayoutToFailed, SetStatus, Final, TypeOK
  <2> QED
    BY <1>3, <2>1, <2>2, <2>3 DEF Outcome, transitionToSettled, transitionPayoutToSettled
<1>4. ASSUME NEW t \in Transactions, Reconciliation(t)
      PROVE  Final(u)
  BY <1>1, <1>4 DEF Reconciliation, upsertDrift, markDrift, closeRecord
<1> QED
  BY <1>1, <1>2, <1>3, <1>4 DEF Next, rowVars

\* SETTLED and FAILED are final and a receipt is never replaced: the promise
\* of the comment on ALLOWED_TRANSITIONS, which holds of every caller that
\* writes a row directly only while it is PENDING.
THEOREM OutcomesAreFinal == Spec => OutcomeIsFinal
<1>1. Init => TypeOK /\ ReceiptIsEvidence
  BY InitTypeOK DEF Init, ReceiptIsEvidence
<1>2. TypeOK /\ ReceiptIsEvidence /\ [Next]_rowVars => (TypeOK /\ ReceiptIsEvidence)'
  BY NextTypeOK, NextReceipt
<1>3. TypeOK /\ ReceiptIsEvidence /\ [Next]_rowVars =>
        [\A t \in Transactions : Final(t)]_rowVars
  BY NextFinal
<1> QED
  BY <1>1, <1>2, <1>3, PTL DEF Spec, OutcomeIsFinal, Final

=============================================================================
