---------------------- MODULE TransactionStateMachine ----------------------
(***************************************************************************)
(* The rows of the `transactions` table, and what every method of          *)
(* TransactionStateMachine does to them, to the ledger, to the             *)
(* reconciliation record and to the outbox of tenant webhooks.             *)
(*                                                                         *)
(* Each method runs in one database transaction that starts with           *)
(* SELECT ... FOR UPDATE on its row, so each is one action here.  A method *)
(* that throws rolls back, so it changes nothing: it is a disabled action, *)
(* and its callers ask SettleThrows or FailThrows to learn which.          *)
(*                                                                         *)
(* The row writes of the two initiating services (B2cService and           *)
(* StkPushService) are here too, as the unguarded UPDATEs they are.  Spec  *)
(* is the contract of ALLOWED_TRANSITIONS: it lets a caller make such a    *)
(* write only on a PENDING row.  PayoutLifecycle and CollectionLifecycle   *)
(* show when the services keep to it.                                      *)
(***************************************************************************)
EXTENDS Naturals

CONSTANTS
  Payouts,      \* OUTBOUND transactions (channel B2C)
  Collections,  \* INBOUND transactions (STK push, Paybill, Till)
  Receipts,     \* M-Pesa receipt numbers
  NoReceipt,    \* mpesaReceiptNumber is null or was not given
  Subscribed    \* transactions whose tenant has configured a webhookUrl

Transactions == Payouts \cup Collections

ASSUME RowsAssumption ==
  /\ Payouts \cap Collections = {}
  /\ NoReceipt \notin Receipts
  /\ Subscribed \subseteq Transactions

VARIABLES
  status,      \* transaction -> its status, "NONE" while there is no row
  receipt,     \* transaction -> mpesaReceiptNumber
  posted,      \* transaction -> kind -> balanced ledger pairs of that kind
  recon,       \* transactions that have a ReconciliationRecord
  drift,       \* those whose record says driftDetected
  reconciled,  \* those whose record has a reconciledAt
  deliveries   \* transaction -> TenantWebhookDelivery rows enqueued for it

rowVars == <<status, receipt, posted, recon, drift, reconciled, deliveries>>

Statuses == {"NONE", "PENDING", "PROCESSING", "SETTLED", "FAILED", "REVERSED"}

\* reservation, settlement and release are the three pairs of a payout,
\* collection the tenant_balance / pending_settlement pair of a collection.
PairKinds == {"reservation", "settlement", "release", "collection"}

ALLOWED_TRANSITIONS ==
  [from \in Statuses |->
     {to \in Statuses : <<from, to>> \in
        {<<"PENDING", "PROCESSING">>, <<"PENDING", "FAILED">>,
         <<"PROCESSING", "SETTLED">>, <<"PROCESSING", "FAILED">>,
         <<"SETTLED", "REVERSED">>}}]

TypeOK ==
  /\ status \in [Transactions -> Statuses]
  /\ receipt \in [Transactions -> Receipts \cup {NoReceipt}]
  /\ posted \in [Transactions -> [PairKinds -> Nat]]
  /\ recon \subseteq Transactions
  /\ drift \subseteq recon
  /\ reconciled \subseteq recon
  /\ deliveries \in [Transactions -> Nat]

Init ==
  /\ status = [t \in Transactions |-> "NONE"]
  /\ receipt = [t \in Transactions |-> NoReceipt]
  /\ posted = [t \in Transactions |-> [k \in PairKinds |-> 0]]
  /\ recon = {}
  /\ drift = {}
  /\ reconciled = {}
  /\ deliveries = [t \in Transactions |-> 0]

-----------------------------------------------------------------------------
(* What the methods are made of *)

assertTransitionAllowed(t, to) == to \in ALLOWED_TRANSITIONS[status[t]]

\* mutant: no unique index on the receipt column
ReceiptFree_NoIndex(t, r) == t \in Transactions /\ r \in Receipts \cup {NoReceipt}

\* transactions.mpesaReceiptNumber is unique
ReceiptFree(t, r) ==
  r = NoReceipt \/ \A u \in Transactions \ {t} : receipt[u] # r

SetStatus(t, to) == status' = [status EXCEPT ![t] = to]

Post(t, kind) == posted' = [posted EXCEPT ![t][kind] = @ + 1]

\* an undefined value in a Prisma update leaves the column alone
SetReceipt(t, r) ==
  receipt' = IF r = NoReceipt THEN receipt ELSE [receipt EXCEPT ![t] = r]

enqueueWebhookDelivery(t) ==
  deliveries' = IF t \in Subscribed
                THEN [deliveries EXCEPT ![t] = @ + 1]
                ELSE deliveries

\* reconciliation_records.transactionId is unique: create fails on a
\* transaction that already has a record
CreateReconciled(t) ==
  /\ t \notin recon
  /\ recon' = recon \cup {t}
  /\ reconciled' = reconciled \cup {t}
  /\ drift' = drift

MaySettle(t, r) ==
  /\ assertTransitionAllowed(t, "SETTLED")
  /\ t \notin recon
  /\ ReceiptFree(t, r)

MayBackfill(t, r) ==
  /\ status[t] = "SETTLED"
  /\ receipt[t] = NoReceipt
  /\ r # NoReceipt
  /\ ReceiptFree(t, r)

IsDuplicate(t, r) ==
  status[t] = "SETTLED" /\ (r = NoReceipt \/ receipt[t] = r)

SettleThrows(t, r) ==
  ~ (MaySettle(t, r) \/ MayBackfill(t, r) \/ IsDuplicate(t, r))

FailThrows(t) == ~ assertTransitionAllowed(t, "FAILED")

\* the body transitionToSettled and transitionPayoutToSettled share
SettleRow(t, r, kind) ==
  \/ /\ MaySettle(t, r)
     /\ SetStatus(t, "SETTLED")
     /\ SetReceipt(t, r)
     /\ Post(t, kind)
     /\ CreateReconciled(t)
     /\ enqueueWebhookDelivery(t)
  \/ /\ MayBackfill(t, r)
     /\ SetReceipt(t, r)
     /\ UNCHANGED <<status, posted, recon, drift, reconciled, deliveries>>
  \/ /\ IsDuplicate(t, r)
     /\ UNCHANGED rowVars

-----------------------------------------------------------------------------
(* The five methods of TransactionStateMachine *)

transitionToSettled(t, r) ==
  /\ t \in Collections                          \* assertNotOutbound
  /\ SettleRow(t, r, "collection")

transitionToFailed(t) ==
  /\ t \in Collections                          \* assertNotOutbound
  /\ assertTransitionAllowed(t, "FAILED")
  /\ SetStatus(t, "FAILED")
  /\ enqueueWebhookDelivery(t)
  /\ UNCHANGED <<receipt, posted, recon, drift, reconciled>>

transitionPayoutToSettled(t, r) ==
  /\ t \in Payouts                              \* assertOutbound
  /\ SettleRow(t, r, "settlement")

transitionPayoutToFailed(t) ==
  /\ t \in Payouts                              \* assertOutbound
  /\ assertTransitionAllowed(t, "FAILED")
  /\ SetStatus(t, "FAILED")
  /\ Post(t, "release")
  /\ enqueueWebhookDelivery(t)
  /\ UNCHANGED <<receipt, recon, drift, reconciled>>

\* A C2B confirmation creates its row already SETTLED, and notifies nobody.
recordInboundSettlement(t, r) ==
  /\ t \in Collections
  /\ status[t] = "NONE"
  /\ ReceiptFree(t, r)
  /\ SetStatus(t, "SETTLED")
  /\ receipt' = [receipt EXCEPT ![t] = r]
  /\ Post(t, "collection")
  /\ CreateReconciled(t)
  /\ UNCHANGED deliveries

-----------------------------------------------------------------------------
(* Row writes of the initiating services.  markProcessing, releaseReservation *)
(* and failInitiation are plain UPDATEs by id: they do not look at the status. *)

\* B2cService.initiate, step 1: the row and the reservation, in one transaction
reserve(t) ==
  /\ t \in Payouts
  /\ status[t] = "NONE"
  /\ SetStatus(t, "PENDING")
  /\ Post(t, "reservation")
  /\ UNCHANGED <<receipt, recon, drift, reconciled, deliveries>>

\* StkPushService.initiate, step 1
createPending(t) ==
  /\ t \in Collections
  /\ status[t] = "NONE"
  /\ SetStatus(t, "PENDING")
  /\ UNCHANGED <<receipt, posted, recon, drift, reconciled, deliveries>>

\* step 3 of both services
markProcessing(t) ==
  /\ SetStatus(t, "PROCESSING")
  /\ UNCHANGED <<receipt, posted, recon, drift, reconciled, deliveries>>

\* B2cService.releaseReservation, reached from the catch block of initiate
releaseReservation(t) ==
  /\ SetStatus(t, "FAILED")
  /\ Post(t, "release")
  /\ UNCHANGED <<receipt, recon, drift, reconciled, deliveries>>

\* the catch block of StkPushService.initiate
failInitiation(t) ==
  /\ SetStatus(t, "FAILED")
  /\ UNCHANGED <<receipt, posted, recon, drift, reconciled, deliveries>>

-----------------------------------------------------------------------------
(* Writes of the reconciliation services to reconciliation_records *)

\* DriftDetectorService.detectStuckPayouts: upsert
upsertDrift(t) ==
  /\ recon' = recon \cup {t}
  /\ drift' = drift \cup {t}
  /\ UNCHANGED <<status, receipt, posted, reconciled, deliveries>>

\* DriftDetectorService.recordDriftAndReconcile: updateMany
markDrift(t) ==
  /\ drift' = IF t \in recon THEN drift \cup {t} ELSE drift
  /\ UNCHANGED <<status, receipt, posted, recon, reconciled, deliveries>>

\* PayoutResolutionService.resolve: updateMany
closeRecord(t) ==
  /\ reconciled' = IF t \in recon THEN reconciled \cup {t} ELSE reconciled
  /\ UNCHANGED <<status, receipt, posted, recon, drift, deliveries>>

-----------------------------------------------------------------------------
(* The contract *)

Initiation(t) ==
  \/ reserve(t)
  \/ createPending(t)
  \/ status[t] = "PENDING" /\ markProcessing(t)
  \/ status[t] = "PENDING" /\ t \in Payouts /\ releaseReservation(t)
  \/ status[t] = "PENDING" /\ t \in Collections /\ failInitiation(t)

Outcome(t) ==
  \/ \E r \in Receipts \cup {NoReceipt} :
       transitionToSettled(t, r) \/ transitionPayoutToSettled(t, r)
  \/ \E r \in Receipts : recordInboundSettlement(t, r)
  \/ transitionToFailed(t)
  \/ transitionPayoutToFailed(t)

Reconciliation(t) ==
  \/ status[t] # "NONE" /\ t \in Payouts /\ upsertDrift(t)
  \/ t \in Collections /\ markDrift(t)
  \/ t \in Payouts /\ closeRecord(t)

Next == \E t \in Transactions : Initiation(t) \/ Outcome(t) \/ Reconciliation(t)

Spec == Init /\ [][Next]_rowVars

-----------------------------------------------------------------------------
(* Properties *)

(***************************************************************************)
(* The ledger and the status never disagree about where a transaction's    *)
(* money is: a payout is reserved once, and then either settled once or    *)
(* released once, exactly when its row says SETTLED or FAILED; a           *)
(* collection is credited once, exactly when its row says SETTLED.         *)
(***************************************************************************)
Count(p) == IF p THEN 1 ELSE 0

PayoutLedgerAgrees(t) ==
  /\ posted[t]["reservation"] = Count(status[t] # "NONE")
  /\ posted[t]["settlement"] = Count(status[t] = "SETTLED")
  /\ posted[t]["release"] = Count(status[t] = "FAILED")
  /\ posted[t]["collection"] = 0

CollectionLedgerAgrees(t) ==
  /\ posted[t]["collection"] = Count(status[t] = "SETTLED")
  /\ \A k \in PairKinds \ {"collection"} : posted[t][k] = 0

LedgerAgreesWithStatus ==
  /\ \A t \in Payouts : PayoutLedgerAgrees(t)
  /\ \A t \in Collections : CollectionLedgerAgrees(t)

(***************************************************************************)
(* A receipt is evidence of one settled transaction: only SETTLED rows     *)
(* carry one, and no two rows carry the same.                              *)
(***************************************************************************)
ReceiptIsEvidence ==
  \A t \in Transactions : receipt[t] # NoReceipt =>
    /\ status[t] = "SETTLED"
    /\ \A u \in Transactions \ {t} : receipt[u] # receipt[t]

(***************************************************************************)
(* The outcome of a transaction is final (ALLOWED_TRANSITIONS): no later   *)
(* call un-settles or un-fails it, and the receipt it settled with is never*)
(* replaced, only filled in when it was missing.                           *)
(***************************************************************************)
OutcomeIsFinal ==
  [][\A t \in Transactions :
       /\ status[t] \in {"SETTLED", "FAILED"} => status'[t] = status[t]
       /\ receipt[t] # NoReceipt => receipt'[t] = receipt[t]]_rowVars

(***************************************************************************)
(* A tenant hears of an outcome at most once, however often the callback is*)
(* redelivered or its receipt back-filled: one outbox row per transaction, *)
(* and none before there is an outcome.                                    *)
(***************************************************************************)
NotifiedOnce ==
  \A t \in Transactions :
    deliveries[t] <= Count(t \in Subscribed /\ status[t] \in {"SETTLED", "FAILED"})

=============================================================================
