------------------------ MODULE PayoutLifecycleProofs ------------------------
(***************************************************************************)
(* What PayoutLifecycle promises, for any number of payouts and pollers,   *)
(* batches of any size and any number of attempts.                         *)
(*                                                                         *)
(* Writes lists the ways a step can write the row of a payout, with what   *)
(* the writer knows.  AskedOnce and Settled give SettledOnceIfPaid under   *)
(* every fault: who settles has seen Safaricom's "paid", and inserts the   *)
(* one record that a payout can have.                                      *)
(*                                                                         *)
(* The other results are about the writers that look at no status, step 3  *)
(* and the catch block of initiate.  Spoken says that the catch block has  *)
(* no payout that Safaricom accepted; it needs that no accept is lost, and *)
(* keeps the reservation in its place however early a result comes.        *)
(* InStep says what the row is while initiate runs; it needs that no       *)
(* result is ingested before step 3.  From it follows KeepsTheContract,    *)
(* with that StatusMovesAsAllowed and the theorems of                      *)
(* TransactionStateMachineProofs.  Acknowledged needs both, and adds what  *)
(* the row and Safaricom know of each other: from it follows PayoutEscrow. *)
(***************************************************************************)
EXTENDS PayoutLifecycle, TLAPS, SequenceTheorems

RowsProved == INSTANCE TransactionStateMachineProofs WITH Collections <- {}
QueueProved == INSTANCE WebhookQueueProofs WITH Events <- Callbacks

-----------------------------------------------------------------------------
(* What a step does to the rows and to the queue *)

\* a write to the row, the ledger or the record of payout t, and who makes it
HandlerOrDesk(t) ==
  desk[t] = "decided" \/ \E p \in Pollers : Handling(p, "daraja_b2c_result", t)

Writes(t) ==
  \/ b2c[t] = "idle" /\ Rows!reserve(t)
  \/ b2c[t] = "accepted" /\ Rows!markProcessing(t)
  \/ b2c[t] = "catching" /\ Rows!releaseReservation(t)
  \/ /\ HandlerOrDesk(t)
     /\ saf[t] = "paid"
     /\ \E r \in Receipts \cup {NoReceipt} : Rows!transitionPayoutToSettled(t, r)
  \/ /\ HandlerOrDesk(t)
     /\ saf[t] = "refused"
     /\ Rows!transitionPayoutToFailed(t)
  \/ t \in listed /\ Rows!upsertDrift(t)
  \/ desk[t] = "applied" /\ Rows!closeRecord(t)

LEMMA ReportsReceipt ==
  \A t \in Payouts : Reports(t) \in Receipts \cup {NoReceipt} /\ ReceiptOf[t] \in Receipts
  BY PayoutAssumption DEF Reports

LEMMA NextWrites ==
  ASSUME Next
  PROVE  UNCHANGED rowVars \/ \E t \in Payouts : Writes(t)
<1>1. ASSUME NEW t \in Payouts, Initiate(t)
      PROVE  UNCHANGED rowVars \/ Writes(t)
  BY <1>1 DEF Initiate, Reserve, Accepted, ResponseLost, Rejected, MarkProcessing,
              MarkProcessingFails, Release, InitiateDies, Writes
<1>2. ASSUME NEW t \in Payouts, Safaricom(t) PROVE UNCHANGED rowVars
  BY <1>2 DEF Safaricom, Decide, ResultCallback, TimeoutCallback, Calls
<1>3. ASSUME NEW t \in Payouts, DetectorEscalates(t)
      PROVE  UNCHANGED rowVars \/ Writes(t)
  BY <1>3 DEF DetectorEscalates, Writes
<1>4. ASSUME NEW t \in Payouts, Resolve(t)
      PROVE  UNCHANGED rowVars \/ Writes(t)
  BY <1>4, ReportsReceipt DEF Resolve, OperatorDecides, OperatorSettles, OperatorFails,
                              OperatorCloses, ResolutionDies, Writes, HandlerOrDesk
<1>5. ASSUME NEW p \in Pollers, Handle(p)
      PROVE  UNCHANGED rowVars \/ \E t \in Payouts : Writes(t)
  <2> PICK t \in Payouts : processB2cResult(p, t) \/ processB2cTimeout(p, t)
    BY <1>5 DEF Handle
  <2> QED BY ReportsReceipt DEF processB2cResult, processB2cTimeout, Writes, HandlerOrDesk
<1>6. ASSUME NEW p \in Pollers, HandlerDbError(p) \/ Bookkeeping(p) PROVE UNCHANGED rowVars
  BY <1>6 DEF HandlerDbError, Bookkeeping
<1>7. DetectorLists => UNCHANGED rowVars
  BY DEF DetectorLists
<1> QED BY <1>1, <1>2, <1>3, <1>4, <1>5, <1>6, <1>7 DEF Next

LEMMA NextAsks ==
  ASSUME Next
  PROVE  \/ UNCHANGED saf
         \/ UNCHANGED rowVars /\ \E t \in Payouts : Accepted(t) \/ ResponseLost(t) \/ Decide(t)
<1>1. ASSUME NEW t \in Payouts, Initiate(t)
      PROVE  UNCHANGED saf \/ Accepted(t) \/ ResponseLost(t)
  BY <1>1 DEF Initiate, Reserve, Rejected, MarkProcessing, MarkProcessingFails, Release,
              InitiateDies
<1>2. ASSUME NEW t \in Payouts, Safaricom(t) PROVE UNCHANGED saf \/ Decide(t)
  BY <1>2 DEF Safaricom, ResultCallback, TimeoutCallback, Calls, ownVars
<1>3. ASSUME NEW t \in Payouts, DetectorEscalates(t) \/ Resolve(t) PROVE UNCHANGED saf
  BY <1>3 DEF DetectorEscalates, Resolve, OperatorDecides, OperatorSettles, OperatorFails,
              OperatorCloses, ResolutionDies
<1>4. ASSUME NEW p \in Pollers, Handle(p) \/ HandlerDbError(p) \/ Bookkeeping(p)
      PROVE  UNCHANGED saf
  BY <1>4 DEF Handle, processB2cResult, processB2cTimeout, HandlerDbError, Bookkeeping, ownVars
<1>5. DetectorLists => UNCHANGED saf
  BY DEF DetectorLists
<1>6. \A t \in Payouts : Accepted(t) \/ ResponseLost(t) \/ Decide(t) => UNCHANGED rowVars
  BY DEF Accepted, ResponseLost, Decide
<1> QED BY <1>1, <1>2, <1>3, <1>4, <1>5, <1>6 DEF Next

\* a step of the queue: a poller's, or an insert
LEMMA NextQueues ==
  ASSUME Next
  PROVE  \/ UNCHANGED queueVars
         \/ \E t \in Payouts, source \in {"daraja_b2c_result", "daraja_b2c_timeout"} :
              Calls(source, t)
         \/ \E p \in Pollers :
              \/ Queue!Bookkeeping(p) \/ Queue!abortPoll(p)
              \/ Queue!handlerReturns(p) \/ Queue!handlerThrows(p)
<1>1. ASSUME NEW t \in Payouts, Initiate(t) \/ DetectorEscalates(t) \/ Resolve(t)
      PROVE  UNCHANGED queueVars
  BY <1>1 DEF Initiate, Reserve, Accepted, ResponseLost, Rejected, MarkProcessing,
              MarkProcessingFails, Release, InitiateDies, DetectorEscalates, Resolve,
              OperatorDecides, OperatorSettles, OperatorFails, OperatorCloses, ResolutionDies
<1>2. ASSUME NEW t \in Payouts, Safaricom(t)
      PROVE  UNCHANGED queueVars
             \/ Calls("daraja_b2c_result", t) \/ Calls("daraja_b2c_timeout", t)
  BY <1>2 DEF Safaricom, Decide, ResultCallback, TimeoutCallback
<1>3. ASSUME NEW p \in Pollers, Handle(p) \/ HandlerDbError(p) \/ Bookkeeping(p)
      PROVE  \/ Queue!Bookkeeping(p) \/ Queue!abortPoll(p)
             \/ Queue!handlerReturns(p) \/ Queue!handlerThrows(p)
  BY <1>3 DEF Handle, processB2cResult, processB2cTimeout, HandlerDbError, Bookkeeping
<1>4. DetectorLists => UNCHANGED queueVars
  BY DEF DetectorLists
<1> QED BY <1>1, <1>2, <1>3, <1>4 DEF Next

-----------------------------------------------------------------------------
(* Type correctness, whatever faults there are *)

RowsType == Rows!TypeOK
QueueType == QueueProved!QInv

LEMMA RowsInstance == RowsProved!TypeOK <=> RowsType
  BY DEF RowsType, Rows!TypeOK, RowsProved!TypeOK, Rows!Transactions, RowsProved!Transactions,
         Rows!Statuses, RowsProved!Statuses, Rows!PairKinds, RowsProved!PairKinds

LEMMA QueueTypeStep ==
  ASSUME QueueType, Next
  PROVE  QueueType'
<1> USE PayoutAssumption DEF QueueType
<1>1. CASE UNCHANGED queueVars
  BY <1>1 DEF queueVars, QueueProved!QInv, QueueProved!TypeOK, QueueProved!Batched, QueueProved!Stored
<1>2. ASSUME NEW t \in Payouts, NEW source \in {"daraja_b2c_result", "daraja_b2c_timeout"},
             Calls(source, t)
      PROVE  QueueType'
  <2>1. <<source, t>> \in Callbacks
    BY DEF Callbacks
  <2>2. QueueProved!ingest(<<source, t>>)
    BY <1>2 DEF Calls, Queue!ingest, QueueProved!ingest, Queue!Stored, QueueProved!Stored,
                Queue!ToSet, QueueProved!ToSet
  <2> QED BY <2>1, <2>2, QueueProved!IngestQInv
<1>3. ASSUME NEW p \in Pollers,
             \/ Queue!Bookkeeping(p) \/ Queue!abortPoll(p)
             \/ Queue!handlerReturns(p) \/ Queue!handlerThrows(p)
      PROVE  QueueType'
  <2>1. \/ QueueProved!Bookkeeping(p) \/ QueueProved!abortPoll(p)
        \/ QueueProved!handlerReturns(p) \/ QueueProved!handlerThrows(p)
    <3>1. Queue!pollUnprocessedEvents(p) => QueueProved!pollUnprocessedEvents(p)
      BY DEF Queue!pollUnprocessedEvents, QueueProved!pollUnprocessedEvents, Queue!InOrder, QueueProved!InOrder, Queue!Due, QueueProved!Due, Queue!Waiting, QueueProved!Waiting, Queue!Pending, QueueProved!Pending, Queue!Snap, QueueProved!Snap, Queue!Cardinality, QueueProved!Cardinality
    <3>2. /\ Queue!markProcessed(p) => QueueProved!markProcessed(p)
          /\ Queue!countAttempt(p) => QueueProved!countAttempt(p)
          /\ Queue!sendAlert(p) => QueueProved!sendAlert(p)
          /\ Queue!abortPoll(p) => QueueProved!abortPoll(p)
          /\ Queue!handlerReturns(p) => QueueProved!handlerReturns(p)
          /\ Queue!handlerThrows(p) => QueueProved!handlerThrows(p)
      BY DEF Queue!markProcessed, QueueProved!markProcessed, Queue!countAttempt, QueueProved!countAttempt, Queue!sendAlert, QueueProved!sendAlert, Queue!abortPoll, QueueProved!abortPoll, Queue!handlerReturns, QueueProved!handlerReturns, Queue!handlerThrows, QueueProved!handlerThrows, Queue!Advance, QueueProved!Advance, Queue!current, QueueProved!current
    <3> QED BY <1>3, <3>1, <3>2 DEF Queue!Bookkeeping, QueueProved!Bookkeeping
  <2> QED BY <2>1, QueueProved!PollerQInv
<1> QED BY <1>1, <1>2, <1>3, NextQueues

\* What a settling call does to its row: it settles it, fills in its receipt, or
\* nothing; and it settles no row that has a reconciliation record.
LEMMA SettleEffect ==
  ASSUME RowsType, NEW t \in Payouts, NEW r, Rows!transitionPayoutToSettled(t, r)
  PROVE  \/ /\ status[t] = "PROCESSING"
            /\ status' = [status EXCEPT ![t] = "SETTLED"]
            /\ receipt' = IF r = NoReceipt THEN receipt ELSE [receipt EXCEPT ![t] = r]
            /\ posted' = [posted EXCEPT ![t]["settlement"] = @ + 1]
            /\ t \notin recon
            /\ recon' = recon \cup {t}
            /\ reconciled' = reconciled \cup {t}
            /\ drift' = drift
            /\ deliveries' = IF t \in Subscribed
                             THEN [deliveries EXCEPT ![t] = @ + 1]
                             ELSE deliveries
         \/ /\ status[t] = "SETTLED"
            /\ receipt' = [receipt EXCEPT ![t] = r]
            /\ UNCHANGED <<status, posted, recon, drift, reconciled, deliveries>>
         \/ UNCHANGED rowVars
<1>1. status[t] \in Rows!Statuses
  BY DEF RowsType, Rows!TypeOK, Rows!Transactions
<1>2. Rows!assertTransitionAllowed(t, "SETTLED") => status[t] = "PROCESSING"
  BY <1>1 DEF Rows!assertTransitionAllowed, Rows!ALLOWED_TRANSITIONS, Rows!Statuses
<1>3. \/ Rows!MaySettle(t, r) /\ Rows!SetStatus(t, "SETTLED") /\ Rows!SetReceipt(t, r)
         /\ Rows!Post(t, "settlement") /\ Rows!CreateReconciled(t)
         /\ Rows!enqueueWebhookDelivery(t)
      \/ Rows!MayBackfill(t, r) /\ Rows!SetReceipt(t, r)
         /\ UNCHANGED <<status, posted, recon, drift, reconciled, deliveries>>
      \/ UNCHANGED rowVars
  BY DEF Rows!transitionPayoutToSettled, Rows!SettleRow, Rows!rowVars, rowVars
<1> QED
  BY <1>2, <1>3 DEF Rows!MaySettle, Rows!SetStatus, Rows!SetReceipt, Rows!Post,
       Rows!CreateReconciled, Rows!enqueueWebhookDelivery, Rows!MayBackfill

\* What a failing call does: it is made on a row that has no outcome yet.
LEMMA FailEffect ==
  ASSUME RowsType, NEW t \in Payouts, Rows!transitionPayoutToFailed(t)
  PROVE  /\ status[t] \in {"PENDING", "PROCESSING"}
         /\ status' = [status EXCEPT ![t] = "FAILED"]
         /\ posted' = [posted EXCEPT ![t]["release"] = @ + 1]
         /\ deliveries' = IF t \in Subscribed
                          THEN [deliveries EXCEPT ![t] = @ + 1]
                          ELSE deliveries
         /\ UNCHANGED <<receipt, recon, drift, reconciled>>
<1>1. status[t] \in Rows!Statuses
  BY DEF RowsType, Rows!TypeOK, Rows!Transactions
<1>2. Rows!assertTransitionAllowed(t, "FAILED") => status[t] \in {"PENDING", "PROCESSING"}
  BY <1>1 DEF Rows!assertTransitionAllowed, Rows!ALLOWED_TRANSITIONS, Rows!Statuses
<1> QED
  BY <1>2 DEF Rows!transitionPayoutToFailed, Rows!SetStatus, Rows!Post, Rows!enqueueWebhookDelivery

LEMMA RowsTypeStep ==
  ASSUME RowsType, NEW t \in Payouts, Writes(t)
  PROVE  RowsType'
<1> USE DEF RowsType, Rows!TypeOK, Rows!Transactions, Rows!Statuses, Rows!PairKinds,
            Rows!SetStatus, Rows!Post
<1>1. CASE Rows!reserve(t)
  BY <1>1 DEF Rows!reserve
<1>2. CASE Rows!markProcessing(t)
  BY <1>2 DEF Rows!markProcessing
<1>3. CASE Rows!releaseReservation(t)
  BY <1>3 DEF Rows!releaseReservation
<1>4. ASSUME NEW r \in Receipts \cup {NoReceipt}, Rows!transitionPayoutToSettled(t, r)
      PROVE  RowsType'
  <2>1. CASE UNCHANGED rowVars
    BY <2>1 DEF rowVars
  <2>2. CASE /\ status' = [status EXCEPT ![t] = "SETTLED"]
             /\ receipt' = IF r = NoReceipt THEN receipt ELSE [receipt EXCEPT ![t] = r]
             /\ posted' = [posted EXCEPT ![t]["settlement"] = @ + 1]
             /\ recon' = recon \cup {t}
             /\ reconciled' = reconciled \cup {t}
             /\ drift' = drift
             /\ deliveries' = IF t \in Subscribed
                              THEN [deliveries EXCEPT ![t] = @ + 1]
                              ELSE deliveries
    BY <1>4, <2>2
  <2>3. CASE receipt' = [receipt EXCEPT ![t] = r]
             /\ UNCHANGED <<status, posted, recon, drift, reconciled, deliveries>>
    BY <1>4, <2>3
  <2> QED BY <1>4, <2>1, <2>2, <2>3, SettleEffect
<1>5. CASE Rows!transitionPayoutToFailed(t)
  <2>1. /\ status' = [status EXCEPT ![t] = "FAILED"]
        /\ posted' = [posted EXCEPT ![t]["release"] = @ + 1]
        /\ deliveries' = IF t \in Subscribed
                         THEN [deliveries EXCEPT ![t] = @ + 1]
                         ELSE deliveries
        /\ UNCHANGED <<receipt, recon, drift, reconciled>>
    BY <1>5, FailEffect
  <2> QED BY <2>1
<1>6. CASE Rows!upsertDrift(t)
  BY <1>6 DEF Rows!upsertDrift
<1>7. CASE Rows!closeRecord(t)
  BY <1>7 DEF Rows!closeRecord
<1> QED BY <1>1, <1>2, <1>3, <1>4, <1>5, <1>6, <1>7 DEF Writes

\* Where initiate is, what Safaricom did, the detector's list and the desk.
OwnType ==
  /\ b2c \in [Payouts -> {"idle", "reserved", "accepted", "catching", "done"}]
  /\ saf \in [Payouts -> {"unknown", "queued", "paid", "refused"}]
  /\ listed \subseteq Payouts
  /\ desk \in [Payouts -> {"idle", "decided", "applied"}]

LEMMA OwnTypeStep == ASSUME OwnType, Next PROVE OwnType'
<1> USE DEF OwnType
<1>1. ASSUME NEW t \in Payouts, Initiate(t) PROVE OwnType'
  BY <1>1 DEF Initiate, Reserve, Accepted, ResponseLost, Rejected, MarkProcessing,
              MarkProcessingFails, Release, InitiateDies, GoTo
<1>2. ASSUME NEW t \in Payouts, Safaricom(t) PROVE OwnType'
  BY <1>2 DEF Safaricom, Decide, ResultCallback, TimeoutCallback, Calls, ownVars
<1>3. ASSUME NEW t \in Payouts, DetectorEscalates(t) PROVE OwnType'
  BY <1>3 DEF DetectorEscalates
<1>4. ASSUME NEW t \in Payouts, Resolve(t) PROVE OwnType'
  BY <1>4 DEF Resolve, OperatorDecides, OperatorSettles, OperatorFails,
              OperatorCloses, ResolutionDies, DeskGoes
<1>5. ASSUME NEW p \in Pollers, Handle(p) \/ HandlerDbError(p) \/ Bookkeeping(p) PROVE OwnType'
  BY <1>5 DEF Handle, processB2cResult, processB2cTimeout, HandlerDbError, Bookkeeping, ownVars
<1>6. DetectorLists => OwnType'
  BY DEF DetectorLists
<1> QED BY <1>1, <1>2, <1>3, <1>4, <1>5, <1>6 DEF Next

Types == RowsType /\ QueueType /\ OwnType

LEMMA InitTypes == Init => Types
<1> SUFFICES ASSUME Init PROVE Types
  OBVIOUS
<1>1. RowsType
  BY DEF Init, Rows!Init, RowsType, Rows!TypeOK, Rows!Transactions, Rows!Statuses, Rows!PairKinds
<1>2. QueueProved!Init
  BY DEF Init, Queue!Init, QueueProved!Init
<1>3. QueueType
  BY <1>2, PayoutAssumption, QueueProved!InitQInv DEF QueueType
<1> QED BY <1>1, <1>3 DEF Types, Init, OwnType

LEMMA NextTypes == Types /\ [Next]_vars => Types'
<1> SUFFICES ASSUME Types, [Next]_vars PROVE Types'
  OBVIOUS
<1>1. CASE UNCHANGED vars
  BY <1>1 DEF vars, rowVars, queueVars, ownVars, Types, OwnType, RowsType, Rows!TypeOK,
       QueueType, QueueProved!QInv, QueueProved!TypeOK, QueueProved!Batched, QueueProved!Stored
<1>2. CASE Next
  <2>1. RowsType'
    <3>1. CASE UNCHANGED rowVars
      BY <3>1 DEF rowVars, Types, RowsType, Rows!TypeOK
    <3> QED BY <1>2, <3>1, NextWrites, RowsTypeStep DEF Types
  <2> QED BY <1>2, <2>1, QueueTypeStep, OwnTypeStep DEF Types
<1> QED BY <1>1, <1>2

\* Rows, queue and the actors' own state stay in their ranges, whichever of
\* the faults happen.
THEOREM TypeCorrect == Spec => []TypeOK
<1>1. Types => TypeOK
  BY DEF Types, RowsType, QueueType, OwnType, TypeOK, QueueProved!QInv,
         QueueProved!TypeOK, Queue!TypeOK, QueueProved!Snapshot, Queue!Snapshot,
         QueueProved!Stages, Queue!Stages
<1> QED BY <1>1, InitTypes, NextTypes, PTL DEF Spec

-----------------------------------------------------------------------------
(* Settled once, and only if Safaricom paid: under every fault *)

\* Safaricom is asked once, so its verdict stands.
AskedOnce(t) == saf[t] # "unknown" => b2c[t] \notin {"idle", "reserved"}

Settled(t) ==
  posted[t]["settlement"] > 0 =>
    /\ posted[t]["settlement"] = 1
    /\ t \in recon
    /\ saf[t] = "paid"
    /\ t \in Subscribed => deliveries[t] > 0

LEMMA AskedOnceStep ==
  ASSUME Types, \A t \in Payouts : AskedOnce(t), Next
  PROVE  \A t \in Payouts : AskedOnce(t)' /\ (saf[t] = "paid" => saf'[t] = "paid")
<1> USE DEF Types, OwnType, AskedOnce
<1>1. ASSUME NEW t \in Payouts, Initiate(t)
      PROVE  \A u \in Payouts : AskedOnce(u)' /\ (saf[u] = "paid" => saf'[u] = "paid")
  BY <1>1 DEF Initiate, Reserve, Accepted, ResponseLost, Rejected, MarkProcessing,
              MarkProcessingFails, Release, InitiateDies, GoTo
<1>2. ASSUME NEW t \in Payouts, Safaricom(t)
      PROVE  \A u \in Payouts : AskedOnce(u)' /\ (saf[u] = "paid" => saf'[u] = "paid")
  BY <1>2 DEF Safaricom, Decide, ResultCallback, TimeoutCallback, Calls, ownVars
<1>3. ASSUME NEW t \in Payouts, DetectorEscalates(t) PROVE UNCHANGED <<b2c, saf>>
  BY <1>3 DEF DetectorEscalates
<1>4. ASSUME NEW t \in Payouts, Resolve(t) PROVE UNCHANGED <<b2c, saf>>
  BY <1>4 DEF Resolve, OperatorDecides, OperatorSettles, OperatorFails, OperatorCloses, ResolutionDies
<1>5. ASSUME NEW p \in Pollers, Handle(p) \/ HandlerDbError(p) \/ Bookkeeping(p)
      PROVE  UNCHANGED <<b2c, saf>>
  BY <1>5 DEF Handle, processB2cResult, processB2cTimeout, HandlerDbError, Bookkeeping, ownVars
<1>6. DetectorLists => UNCHANGED <<b2c, saf>>
  BY DEF DetectorLists
<1> QED BY <1>1, <1>2, <1>3, <1>4, <1>5, <1>6 DEF Next

LEMMA SettledStep ==
  ASSUME Types, \A t \in Payouts : AskedOnce(t) /\ Settled(t), Next
  PROVE  \A t \in Payouts : Settled(t)'
<1> SUFFICES ASSUME NEW u \in Payouts, posted'[u]["settlement"] > 0
             PROVE  /\ posted'[u]["settlement"] = 1 /\ u \in recon' /\ saf'[u] = "paid"
                    /\ u \in Subscribed => deliveries'[u] > 0
  BY DEF Settled
<1> USE DEF RowsType, Rows!TypeOK, Rows!Transactions, Rows!PairKinds, Settled
<1>1. CASE UNCHANGED <<posted, recon, deliveries>>
  BY <1>1, AskedOnceStep
<1>2. ASSUME NEW t \in Payouts, Writes(t), ~ UNCHANGED <<posted, recon, deliveries>>
      PROVE  /\ posted'[u]["settlement"] = 1 /\ u \in recon' /\ saf'[u] = "paid"
             /\ u \in Subscribed => deliveries'[u] > 0
  <2>1. ASSUME posted'[u]["settlement"] = posted[u]["settlement"], recon \subseteq recon',
               deliveries'[u] \in {deliveries[u], deliveries[u] + 1}
        PROVE  /\ posted'[u]["settlement"] = 1 /\ u \in recon' /\ saf'[u] = "paid"
               /\ u \in Subscribed => deliveries'[u] > 0
    BY <2>1, AskedOnceStep DEF Types
  <2>2. CASE Rows!reserve(t) \/ Rows!releaseReservation(t)
    BY <2>1, <2>2 DEF Types, Rows!reserve, Rows!releaseReservation, Rows!Post
  <2>3. CASE Rows!markProcessing(t) \/ Rows!upsertDrift(t) \/ Rows!closeRecord(t)
    BY <2>1, <2>3 DEF Types, Rows!markProcessing, Rows!upsertDrift, Rows!closeRecord
  <2>4. CASE Rows!transitionPayoutToFailed(t)
    BY <2>1, <2>4, FailEffect DEF Types
  <2>5. ASSUME NEW r \in Receipts \cup {NoReceipt}, Rows!transitionPayoutToSettled(t, r),
               saf[t] = "paid"
        PROVE  /\ posted'[u]["settlement"] = 1 /\ u \in recon' /\ saf'[u] = "paid"
               /\ u \in Subscribed => deliveries'[u] > 0
    <3>1. /\ posted' = [posted EXCEPT ![t]["settlement"] = @ + 1]
          /\ t \notin recon
          /\ recon' = recon \cup {t}
          /\ deliveries' = IF t \in Subscribed
                           THEN [deliveries EXCEPT ![t] = @ + 1]
                           ELSE deliveries
      BY <1>2, <2>5, SettleEffect DEF Types, rowVars
    <3>2. CASE u # t
      BY <2>1, <3>1, <3>2 DEF Types
    <3>3. CASE u = t
      <4>1. posted[t]["settlement"] = 0
        BY <3>1 DEF Types
      <4> QED BY <2>5, <3>1, <3>3, <4>1, AskedOnceStep DEF Types
    <3> QED BY <3>2, <3>3
  <2> QED BY <1>2, <2>2, <2>3, <2>4, <2>5 DEF Writes
<1> QED BY <1>1, <1>2, NextWrites DEF rowVars

\* However often a callback is repeated, whatever the operator and the drift
\* detector do meanwhile, and whatever fails: a payout is settled at most once,
\* only if Safaricom paid it, and its tenant's notification is enqueued with it.
THEOREM PayoutIsSettledOnceIfPaid == Spec => []SettledOnceIfPaid
<1> DEFINE IInv == Types /\ \A t \in Payouts : AskedOnce(t) /\ Settled(t)
<1>1. Init => IInv
  BY InitTypes DEF Init, Rows!Init, Rows!Transactions, Rows!PairKinds, AskedOnce, Settled
<1>2. IInv /\ [Next]_vars => IInv'
  <2>1. IInv /\ Next => IInv'
    BY NextTypes, AskedOnceStep, SettledStep
  <2>2. IInv /\ UNCHANGED vars => IInv'
    BY NextTypes DEF vars, rowVars, ownVars, AskedOnce, Settled
  <2> QED BY <2>1, <2>2
<1>3. IInv => SettledOnceIfPaid
  BY DEF Settled, SettledOnceIfPaid
<1> QED BY <1>1, <1>2, <1>3, PTL DEF Spec

\* Under every fault, too, who gives a reservation back has read a refusal, or is
\* the catch block, which believes that there was one.
THEOREM PayoutReleaseIsEarned == Spec => ReleaseIsEarned
<1> DEFINE Earned == \A t \in Payouts : posted'[t]["release"] > posted[t]["release"] =>
                       saf[t] = "refused" \/ b2c[t] = "catching"
<1>1. Types /\ [Next]_vars => [Earned]_vars
  <2> SUFFICES ASSUME Types, Next, NEW u \in Payouts,
                      posted'[u]["release"] > posted[u]["release"]
               PROVE  saf[u] = "refused" \/ b2c[u] = "catching"
    OBVIOUS
  <2> USE DEF Types, RowsType, Rows!TypeOK, Rows!Transactions, Rows!PairKinds
  <2>1. posted[u]["release"] \in Nat
    OBVIOUS
  <2>2. PICK t \in Payouts : Writes(t)
    BY <2>1, NextWrites DEF rowVars
  <2>3. posted'[u]["release"] # posted[u]["release"]
    BY <2>1
  <2>4. CASE Rows!reserve(t)
    BY <2>3, <2>4 DEF Rows!reserve, Rows!Post
  <2>5. CASE Rows!markProcessing(t) \/ Rows!upsertDrift(t) \/ Rows!closeRecord(t)
    BY <2>3, <2>5 DEF Rows!markProcessing, Rows!upsertDrift, Rows!closeRecord
  <2>6. CASE b2c[t] = "catching" /\ Rows!releaseReservation(t)
    BY <2>3, <2>6 DEF Rows!releaseReservation, Rows!Post
  <2>7. ASSUME NEW r \in Receipts \cup {NoReceipt}, Rows!transitionPayoutToSettled(t, r)
        PROVE  FALSE
    <3>1. UNCHANGED posted \/ posted' = [posted EXCEPT ![t]["settlement"] = @ + 1]
      BY <2>7, SettleEffect DEF rowVars
    <3> QED BY <2>3, <3>1
  <2>8. CASE saf[t] = "refused" /\ Rows!transitionPayoutToFailed(t)
    BY <2>3, <2>8, FailEffect
  <2> QED BY <2>2, <2>4, <2>5, <2>6, <2>7, <2>8 DEF Writes
<1> HIDE DEF Earned
<1>2. Spec => [][Earned]_vars
  BY <1>1, InitTypes, NextTypes, PTL DEF Spec
<1> QED BY <1>2 DEF Earned, ReleaseIsEarned

-----------------------------------------------------------------------------
(* Held while queued, and not released if paid: unless an accept is lost *)

\* Once Safaricom has the payout, initiate is past its catch block.  So who
\* releases has read a refusal or is the catch block of a request that never
\* got through, and who reserves is step 1, once.
Spoken(t) ==
  /\ saf[t] # "unknown" => b2c[t] \in {"accepted", "done"}
  /\ posted[t]["release"] > 0 =>
       saf[t] = "refused" \/ (saf[t] = "unknown" /\ b2c[t] = "done")
  /\ posted[t]["reservation"] = IF b2c[t] = "idle" THEN 0 ELSE 1

\* What a handler or the operator posts: a settlement, or the release of a
\* payout that Safaricom refused.
OutcomePosts(t) ==
  \/ UNCHANGED posted
  \/ posted' = [posted EXCEPT ![t]["settlement"] = @ + 1]
  \/ saf[t] = "refused" /\ posted' = [posted EXCEPT ![t]["release"] = @ + 1]

LEMMA HandlePosts ==
  ASSUME Types, NEW p \in Pollers, Handle(p)
  PROVE  UNCHANGED <<b2c, saf>> /\ \E t \in Payouts : OutcomePosts(t)
<1>1. PICK t \in Payouts : processB2cResult(p, t) \/ processB2cTimeout(p, t)
  BY DEF Handle
<1>2. UNCHANGED <<b2c, saf>>
  BY <1>1 DEF processB2cResult, processB2cTimeout, ownVars
<1>3. OutcomePosts(t)
  BY <1>1, SettleEffect, FailEffect
     DEF Types, processB2cResult, processB2cTimeout, rowVars, OutcomePosts
<1> QED BY <1>2, <1>3

LEMMA ResolvePosts ==
  ASSUME Types, NEW t \in Payouts, Resolve(t)
  PROVE  UNCHANGED <<b2c, saf>> /\ OutcomePosts(t)
<1>1. UNCHANGED <<b2c, saf>>
  BY DEF Resolve, OperatorDecides, OperatorSettles, OperatorFails, OperatorCloses,
         ResolutionDies
<1>2. OutcomePosts(t)
  BY SettleEffect, FailEffect
     DEF Types, Resolve, OperatorDecides, OperatorSettles, OperatorFails, OperatorCloses,
         ResolutionDies, Rows!closeRecord, rowVars, OutcomePosts
<1> QED BY <1>1, <1>2

LEMMA SpokenStep ==
  ASSUME Types, \A t \in Payouts : Spoken(t), Next, "ambiguous_accept" \notin Faults
  PROVE  \A t \in Payouts : Spoken(t)'
<1> USE DEF Types, OwnType, RowsType, Rows!TypeOK, Rows!Transactions, Rows!PairKinds, Spoken
<1>1. ASSUME NEW t \in Payouts, Initiate(t) PROVE \A u \in Payouts : Spoken(u)'
  <2>1. CASE Reserve(t)
    BY <2>1 DEF Reserve, GoTo, Rows!reserve, Rows!Post
  <2>2. CASE Release(t)
    BY <2>2 DEF Release, GoTo, Rows!releaseReservation, Rows!Post
  <2>3. CASE Accepted(t) \/ Rejected(t) \/ MarkProcessing(t) \/ InitiateDies(t)
    BY <2>3 DEF Accepted, Rejected, MarkProcessing, InitiateDies, GoTo, rowVars,
                Rows!markProcessing
  <2> QED BY <1>1, <2>1, <2>2, <2>3 DEF Initiate, ResponseLost, MarkProcessingFails, May
<1>2. ASSUME NEW t \in Payouts, Safaricom(t) PROVE \A u \in Payouts : Spoken(u)'
  BY <1>2 DEF Safaricom, Decide, ResultCallback, TimeoutCallback, Calls, rowVars, ownVars
<1>3. ASSUME NEW t \in Payouts, UNCHANGED <<b2c, saf>>, OutcomePosts(t)
      PROVE  \A u \in Payouts : Spoken(u)'
  BY <1>3 DEF OutcomePosts
<1>4. ASSUME NEW t \in Payouts, DetectorEscalates(t) PROVE UNCHANGED <<b2c, saf, posted>>
  BY <1>4 DEF DetectorEscalates, rowVars, Rows!upsertDrift
<1>5. ASSUME NEW p \in Pollers, HandlerDbError(p) \/ Bookkeeping(p)
      PROVE  UNCHANGED <<b2c, saf, posted>>
  BY <1>5 DEF HandlerDbError, Bookkeeping, rowVars, ownVars
<1>6. DetectorLists => UNCHANGED <<b2c, saf, posted>>
  BY DEF DetectorLists, rowVars
<1>7. UNCHANGED <<b2c, saf, posted>> => \A u \in Payouts : Spoken(u)'
  OBVIOUS
<1> QED BY <1>1, <1>2, <1>3, <1>4, <1>5, <1>6, <1>7, HandlePosts, ResolvePosts DEF Next

SpokenInv == Types /\ \A t \in Payouts : AskedOnce(t) /\ Settled(t) /\ Spoken(t)

LEMMA InitSpoken == Init => SpokenInv
  BY InitTypes
     DEF SpokenInv, Init, Rows!Init, Rows!Transactions, Rows!PairKinds, AskedOnce, Settled, Spoken

LEMMA NextSpoken ==
  ASSUME "ambiguous_accept" \notin Faults
  PROVE  SpokenInv /\ [Next]_vars => SpokenInv'
<1>1. SpokenInv /\ Next => SpokenInv'
  BY NextTypes, AskedOnceStep, SettledStep, SpokenStep DEF SpokenInv
<1>2. SpokenInv /\ UNCHANGED vars => SpokenInv'
  BY NextTypes DEF SpokenInv, vars, rowVars, ownVars, AskedOnce, Settled, Spoken
<1> QED BY <1>1, <1>2

\* Until Safaricom has decided, only the reservation is posted.
LEMMA SpokenIsHeld == SpokenInv => HeldWhileQueued /\ PaidIsNotReleased
<1> SUFFICES ASSUME SpokenInv, NEW t \in Payouts
             PROVE  /\ saf[t] = "queued" => Place(t) = "reserve"
                    /\ saf[t] = "paid" => posted[t]["release"] = 0
  BY DEF HeldWhileQueued, PaidIsNotReleased
<1>1. posted[t]["release"] \in Nat /\ posted[t]["settlement"] \in Nat
  BY DEF SpokenInv, Types, RowsType, Rows!TypeOK, Rows!Transactions, Rows!PairKinds
<1>2. saf[t] \in {"queued", "paid"} => posted[t]["release"] = 0
  BY <1>1 DEF SpokenInv, Spoken
<1>3. saf[t] = "queued" => posted[t]["settlement"] = 0 /\ posted[t]["reservation"] = 1
  BY <1>1 DEF SpokenInv, Spoken, Settled
<1> QED BY <1>2, <1>3 DEF Place

\* When no accept is lost, a reservation is held for as long as Safaricom has
\* the payout in its queue, whatever results do: come early, late, twice or never.
THEOREM ReservationIsHeldWhileQueued ==
  ASSUME "ambiguous_accept" \notin Faults
  PROVE  Spec => []HeldWhileQueued
<1>1. SpokenInv /\ [Next]_vars => SpokenInv'
  BY NextSpoken
<1> QED BY <1>1, InitSpoken, SpokenIsHeld, PTL DEF Spec

\* And no paid payout is released: the ambiguous accept that payout_ambiguous_accept
\* shows is the only way to it.
THEOREM PaidPayoutIsNotReleased ==
  ASSUME "ambiguous_accept" \notin Faults
  PROVE  Spec => []PaidIsNotReleased
<1>1. SpokenInv /\ [Next]_vars => SpokenInv'
  BY NextSpoken
<1> QED BY <1>1, InitSpoken, SpokenIsHeld, PTL DEF Spec

-----------------------------------------------------------------------------
(* The contract of the rows, unless a result overtakes step 3 of initiate *)

Uncalled(t) ==
  ~ Queue!Stored(<<"daraja_b2c_result", t>>) /\ ~ Queue!Stored(<<"daraja_b2c_timeout", t>>)

\* While initiate runs nobody else has the payout in hand, so the row is where
\* initiate left it.
InStep(t) ==
  /\ b2c[t] = "idle" <=> status[t] = "NONE"
  /\ b2c[t] \in {"reserved", "accepted", "catching"} => status[t] = "PENDING"
  /\ b2c[t] # "done" => Uncalled(t) /\ desk[t] = "idle"
  /\ t \in listed => status[t] # "NONE"

LEMMA StoredStep ==
  ASSUME Types, Next, NEW e, ~ Queue!Stored(e), Queue!Stored(e)'
  PROVE  \E t \in Payouts, source \in {"daraja_b2c_result", "daraja_b2c_timeout"} :
           Calls(source, t) /\ e = <<source, t>>
<1> USE DEF Queue!Stored, Queue!ToSet
<1>1. CASE UNCHANGED queueVars
  BY <1>1 DEF queueVars
<1>2. ASSUME NEW t \in Payouts, NEW source \in {"daraja_b2c_result", "daraja_b2c_timeout"},
             Calls(source, t)
      PROVE  e = <<source, t>>
  <2> DEFINE c == <<source, t>>
  <2>1. received' = Append(received, c) /\ c \in Callbacks /\ received \in Seq(Callbacks)
    BY <1>2 DEF Calls, Queue!ingest, Callbacks, Types, QueueType, QueueProved!QInv, QueueProved!TypeOK
  <2> HIDE DEF c
  <2>2. /\ received' \in Seq(Callbacks)
        /\ Len(received') = Len(received) + 1
        /\ \A i \in 1 .. Len(received) : received'[i] = received[i]
        /\ received'[Len(received) + 1] = c
    BY <2>1, AppendProperties
  <2>3. DOMAIN received = 1 .. Len(received) /\ DOMAIN received' = 1 .. Len(received')
        /\ Len(received) \in Nat
    BY <2>1, <2>2, LenProperties
  <2>4. PICK i \in DOMAIN received' : received'[i] = e
    OBVIOUS
  <2>5. i \notin DOMAIN received \/ received[i] # e
    OBVIOUS
  <2>6. i = Len(received) + 1
    BY <2>2, <2>3, <2>4, <2>5
  <2> QED BY <2>2, <2>4, <2>6 DEF c
<1>3. ASSUME NEW p \in Pollers,
             \/ Queue!Bookkeeping(p) \/ Queue!abortPoll(p)
             \/ Queue!handlerReturns(p) \/ Queue!handlerThrows(p)
      PROVE  UNCHANGED received
  BY <1>3 DEF Queue!Bookkeeping, Queue!pollUnprocessedEvents, Queue!markProcessed,
       Queue!countAttempt, Queue!sendAlert, Queue!abortPoll, Queue!handlerReturns,
       Queue!handlerThrows
<1> QED BY <1>1, <1>2, <1>3, NextQueues

LEMMA HandledIsStored ==
  ASSUME Types, NEW p \in Pollers, NEW source, NEW t, Handling(p, source, t)
  PROVE  Queue!Stored(<<source, t>>)
<1>1. QueueProved!Stored(QueueProved!current(p))
  BY PayoutAssumption, QueueProved!CurrentIsFirst DEF Types, QueueType, Handling
<1> QED BY <1>1 DEF Handling, Queue!current, QueueProved!current, Queue!Stored, QueueProved!Stored,
              Queue!ToSet, QueueProved!ToSet

LEMMA HandlerOrDeskIsLate ==
  ASSUME Types, NEW t \in Payouts, InStep(t), HandlerOrDesk(t)
  PROVE  b2c[t] = "done"
  BY HandledIsStored DEF HandlerOrDesk, InStep, Uncalled

\* A step on the row, the progress of initiate and the desk, of one payout.
LEMMA OneInStep ==
  ASSUME Types, \A t \in Payouts : InStep(t), Next, "early_result" \notin Faults
  PROVE  \A t \in Payouts : InStep(t)'
<1>1. ASSUME NEW u \in Payouts, Uncalled(u), ~ Uncalled(u)'
      PROVE  b2c[u] = "done" /\ UNCHANGED <<rowVars, ownVars>>
  <2> PICK e \in Callbacks : e[2] = u /\ ~ Queue!Stored(e) /\ Queue!Stored(e)'
    BY <1>1 DEF Uncalled, Callbacks
  <2>1. PICK t \in Payouts, source \in {"daraja_b2c_result", "daraja_b2c_timeout"} :
          Calls(source, t) /\ e = <<source, t>>
    BY StoredStep
  <2> QED BY <2>1 DEF Calls, May
<1>2. CASE \E u \in Payouts : Uncalled(u) /\ ~ Uncalled(u)'
  BY <1>1, <1>2 DEF rowVars, ownVars, InStep, Uncalled
<1>3. CASE \A u \in Payouts : Uncalled(u) => Uncalled(u)'
  <2> USE <1>3 DEF Types, OwnType, RowsType, Rows!TypeOK, Rows!Transactions, InStep
  <2>1. ASSUME NEW t \in Payouts, Initiate(t) PROVE \A u \in Payouts : InStep(u)'
    BY <2>1 DEF Initiate, Reserve, Accepted, ResponseLost, Rejected, MarkProcessing,
                MarkProcessingFails, Release, InitiateDies, GoTo, rowVars, Rows!reserve,
                Rows!markProcessing, Rows!releaseReservation, Rows!SetStatus
  <2>2. ASSUME NEW t \in Payouts, Safaricom(t) PROVE \A u \in Payouts : InStep(u)'
    BY <2>2 DEF Safaricom, Decide, ResultCallback, TimeoutCallback, Calls, rowVars, ownVars
  <2>3. ASSUME NEW t \in Payouts, DetectorEscalates(t) PROVE \A u \in Payouts : InStep(u)'
    BY <2>3 DEF DetectorEscalates, rowVars, Rows!upsertDrift
  <2>4. ASSUME NEW t \in Payouts, Resolve(t) PROVE \A u \in Payouts : InStep(u)'
    <3>1. \/ UNCHANGED status
          \/ status[t] # "NONE" /\ \E x : x # "NONE" /\ status' = [status EXCEPT ![t] = x]
      BY <2>4, SettleEffect, FailEffect
         DEF Resolve, OperatorDecides, OperatorSettles, OperatorFails, OperatorCloses,
             ResolutionDies, rowVars, Rows!closeRecord
    <3>2. b2c[t] = "done"
      BY <2>4 DEF Resolve, OperatorDecides, OperatorSettles, OperatorFails, OperatorCloses,
                  ResolutionDies
    <3>3. UNCHANGED <<b2c, listed>> /\ \E x : desk' = [desk EXCEPT ![t] = x]
      BY <2>4 DEF Resolve, OperatorDecides, OperatorSettles, OperatorFails, OperatorCloses,
                  ResolutionDies, DeskGoes
    <3> QED BY <3>1, <3>2, <3>3
  <2>5. ASSUME NEW p \in Pollers, Handle(p) PROVE \A u \in Payouts : InStep(u)'
    <3> PICK t \in Payouts : processB2cResult(p, t) \/ processB2cTimeout(p, t)
      BY <2>5 DEF Handle
    <3>1. UNCHANGED ownVars
      BY DEF processB2cResult, processB2cTimeout
    <3>2. CASE UNCHANGED status
      BY <3>1, <3>2 DEF ownVars
    <3>3. CASE ~ UNCHANGED status
      <4>1. HandlerOrDesk(t)
        BY <3>3 DEF processB2cResult, processB2cTimeout, HandlerOrDesk, rowVars
      <4>2. status[t] # "NONE" /\ \E x : x # "NONE" /\ status' = [status EXCEPT ![t] = x]
        BY <3>3, ReportsReceipt, SettleEffect, FailEffect
           DEF processB2cResult, processB2cTimeout, rowVars
      <4> QED BY <3>1, <4>1, <4>2, HandlerOrDeskIsLate DEF ownVars
    <3> QED BY <3>2, <3>3
  <2>6. ASSUME NEW p \in Pollers, HandlerDbError(p) \/ Bookkeeping(p)
        PROVE  \A u \in Payouts : InStep(u)'
    BY <2>6 DEF HandlerDbError, Bookkeeping, rowVars, ownVars
  <2>7. DetectorLists => \A u \in Payouts : InStep(u)'
    BY DEF DetectorLists, rowVars
  <2> QED BY <2>1, <2>2, <2>3, <2>4, <2>5, <2>6, <2>7 DEF Next
<1> QED BY <1>2, <1>3

LEMMA WritesKeepContract ==
  ASSUME Types, NEW t \in Payouts, InStep(t), Writes(t)
  PROVE  Rows!Next
<1>1. CASE b2c[t] = "idle" /\ Rows!reserve(t)
  BY <1>1 DEF Rows!Next, Rows!Initiation, Rows!Transactions
<1>2. CASE b2c[t] = "accepted" /\ Rows!markProcessing(t)
  BY <1>2 DEF InStep, Rows!Next, Rows!Initiation, Rows!Transactions
<1>3. CASE b2c[t] = "catching" /\ Rows!releaseReservation(t)
  BY <1>3 DEF InStep, Rows!Next, Rows!Initiation, Rows!Transactions
<1>4. ASSUME NEW r \in Receipts \cup {NoReceipt}, Rows!transitionPayoutToSettled(t, r)
      PROVE  Rows!Next
  BY <1>4 DEF Rows!Next, Rows!Outcome, Rows!Transactions
<1>5. CASE Rows!transitionPayoutToFailed(t)
  BY <1>5 DEF Rows!Next, Rows!Outcome, Rows!Transactions
<1>6. CASE t \in listed /\ Rows!upsertDrift(t)
  BY <1>6 DEF InStep, Rows!Next, Rows!Reconciliation, Rows!Transactions
<1>7. CASE Rows!closeRecord(t)
  BY <1>7 DEF Rows!Next, Rows!Reconciliation, Rows!Transactions
<1> QED BY <1>1, <1>2, <1>3, <1>4, <1>5, <1>6, <1>7 DEF Writes

InStepInv == Types /\ \A t \in Payouts : InStep(t)

LEMMA InitInStep == Init => InStepInv /\ Rows!Init
  BY InitTypes DEF Init, InStepInv, InStep, Uncalled, Rows!Init, Rows!Transactions,
       Queue!Init, Queue!Stored, Queue!ToSet

LEMMA NextInStep ==
  ASSUME "early_result" \notin Faults
  PROVE  InStepInv /\ [Next]_vars => InStepInv' /\ [Rows!Next]_rowVars
<1> SUFFICES ASSUME InStepInv, [Next]_vars PROVE InStepInv' /\ [Rows!Next]_rowVars
  OBVIOUS
<1>1. CASE UNCHANGED vars
  BY <1>1, NextTypes DEF vars, rowVars, queueVars, ownVars, InStepInv, InStep, Uncalled,
       Queue!Stored
<1>2. CASE Next
  BY <1>2, NextTypes, OneInStep, NextWrites, WritesKeepContract DEF InStepInv
<1> QED BY <1>1, <1>2

\* Unless a result is ingested before step 3 of initiate, every write of a
\* payout's row is one the contract allows, though step 3 and the release look
\* at no status, and crashes, late accepts, pollers, the detector and operators
\* interleave with them.
THEOREM PayoutKeepsTheContract ==
  ASSUME "early_result" \notin Faults
  PROVE  Spec => KeepsTheContract
<1>1. InStepInv /\ [Next]_vars => InStepInv' /\ [Rows!Next]_Rows!rowVars
  BY NextInStep DEF rowVars, Rows!rowVars
<1> QED BY <1>1, InitInStep, PTL DEF Spec, KeepsTheContract, Rows!Spec

LEMMA ContractMoves ==
  ASSUME RowsType, Rows!Next, NEW u \in Payouts, status[u] # "NONE", status'[u] # status[u]
  PROVE  status'[u] \in Rows!ALLOWED_TRANSITIONS[status[u]]
<1>1. PICK t \in Payouts : Rows!Initiation(t) \/ Rows!Outcome(t) \/ Rows!Reconciliation(t)
  BY DEF Rows!Next, Rows!Transactions
<1>2. ASSUME NEW to, status' = [status EXCEPT ![t] = to]
      PROVE  u = t /\ status'[t] = to
  BY <1>2 DEF RowsType, Rows!TypeOK, Rows!Transactions
<1>3. CASE Rows!Initiation(t)
  <2>1. status[t] = "PENDING" /\ \E to \in {"PROCESSING", "FAILED"} :
                                   status' = [status EXCEPT ![t] = to]
    BY <1>2, <1>3 DEF Rows!Initiation, Rows!reserve, Rows!createPending, Rows!markProcessing,
         Rows!releaseReservation, Rows!failInitiation, Rows!SetStatus
  <2> QED BY <1>2, <2>1 DEF Rows!ALLOWED_TRANSITIONS, Rows!Statuses
<1>4. CASE Rows!Outcome(t)
  <2>1. \/ status[t] = "PROCESSING" /\ status' = [status EXCEPT ![t] = "SETTLED"]
        \/ status[t] \in {"PENDING", "PROCESSING"} /\ status' = [status EXCEPT ![t] = "FAILED"]
    BY <1>4, SettleEffect, FailEffect
       DEF Rows!Outcome, Rows!transitionToSettled, Rows!recordInboundSettlement,
           Rows!transitionToFailed, rowVars
  <2> QED BY <1>2, <2>1 DEF Rows!ALLOWED_TRANSITIONS, Rows!Statuses
<1>5. CASE Rows!Reconciliation(t)
  BY <1>5 DEF Rows!Reconciliation, Rows!upsertDrift, Rows!markDrift, Rows!closeRecord
<1> QED BY <1>1, <1>3, <1>4, <1>5

\* Hence no status is overwritten: a refusal that is applied before step 3 is the
\* only way to it.
THEOREM PayoutStatusMovesAsAllowed ==
  ASSUME "early_result" \notin Faults
  PROVE  Spec => StatusMovesAsAllowed
<1> DEFINE Move == \A t \in Payouts :
                     status[t] # "NONE" /\ status'[t] # status[t]
                       => status'[t] \in Rows!ALLOWED_TRANSITIONS[status[t]]
<1>1. InStepInv /\ [Next]_vars => InStepInv' /\ [Move]_vars
  <2> SUFFICES ASSUME InStepInv, [Next]_vars PROVE InStepInv' /\ [Move]_vars
    OBVIOUS
  <2>1. InStepInv' /\ [Rows!Next]_rowVars
    BY NextInStep
  <2>2. CASE Rows!Next
    BY <2>1, <2>2, ContractMoves DEF InStepInv, Types
  <2>3. CASE UNCHANGED rowVars
    BY <2>1, <2>3 DEF rowVars
  <2> QED BY <2>1, <2>2, <2>3
<1>2. Init => InStepInv
  BY InitInStep
<1> HIDE DEF Move
<1>3. Spec => [][Move]_vars
  BY <1>1, <1>2, PTL DEF Spec
<1> QED BY <1>3 DEF Move, StatusMovesAsAllowed

-----------------------------------------------------------------------------
(* The rows keep the promises of TransactionStateMachine *)

LEMMA NextInstance == [Rows!Next]_rowVars <=> [RowsProved!Next]_RowsProved!rowVars
  BY DEF Rows!Transactions, RowsProved!Transactions, Rows!Statuses, RowsProved!Statuses,
         Rows!PairKinds, RowsProved!PairKinds, Rows!Next, RowsProved!Next, Rows!Initiation,
         RowsProved!Initiation, Rows!Outcome, RowsProved!Outcome, Rows!Reconciliation,
         RowsProved!Reconciliation, Rows!reserve, RowsProved!reserve, Rows!createPending,
         RowsProved!createPending, Rows!markProcessing, RowsProved!markProcessing,
         Rows!releaseReservation, RowsProved!releaseReservation, Rows!failInitiation,
         RowsProved!failInitiation, Rows!transitionToSettled, RowsProved!transitionToSettled,
         Rows!transitionPayoutToSettled, RowsProved!transitionPayoutToSettled,
         Rows!recordInboundSettlement, RowsProved!recordInboundSettlement,
         Rows!transitionToFailed, RowsProved!transitionToFailed, Rows!transitionPayoutToFailed,
         RowsProved!transitionPayoutToFailed, Rows!upsertDrift, RowsProved!upsertDrift,
         Rows!markDrift, RowsProved!markDrift, Rows!closeRecord, RowsProved!closeRecord,
         Rows!SettleRow, RowsProved!SettleRow, Rows!SetStatus, RowsProved!SetStatus, Rows!Post,
         RowsProved!Post, Rows!SetReceipt, RowsProved!SetReceipt, Rows!enqueueWebhookDelivery,
         RowsProved!enqueueWebhookDelivery, Rows!CreateReconciled, RowsProved!CreateReconciled,
         Rows!MaySettle, RowsProved!MaySettle, Rows!MayBackfill, RowsProved!MayBackfill,
         Rows!IsDuplicate, RowsProved!IsDuplicate, Rows!ReceiptFree, RowsProved!ReceiptFree,
         Rows!assertTransitionAllowed, RowsProved!assertTransitionAllowed,
         Rows!ALLOWED_TRANSITIONS, RowsProved!ALLOWED_TRANSITIONS, Rows!rowVars,
         RowsProved!rowVars, rowVars

LEMMA ContractInstance == KeepsTheContract => RowsProved!Spec
<1>1. Rows!Init <=> RowsProved!Init
  BY DEF Rows!Init, RowsProved!Init, Rows!Transactions, RowsProved!Transactions,
         Rows!PairKinds, RowsProved!PairKinds
<1>2. [Rows!Next]_Rows!rowVars <=> [RowsProved!Next]_RowsProved!rowVars
  BY NextInstance DEF Rows!rowVars, rowVars
<1> QED BY <1>1, <1>2, PTL DEF KeepsTheContract, Rows!Spec, RowsProved!Spec

\* What that is worth: in the lifecycle too the ledger agrees with the status,
\* receipts are evidence, a tenant is notified at most once, outcomes are final.
THEOREM PayoutRowsKeepPromises ==
  ASSUME "early_result" \notin Faults
  PROVE  Spec => /\ [](Rows!LedgerAgreesWithStatus /\ Rows!ReceiptIsEvidence /\ Rows!NotifiedOnce)
                 /\ Rows!OutcomeIsFinal
<1> USE DEF Rows!Transactions, RowsProved!Transactions, Rows!Count, RowsProved!Count
<1>1. /\ Payouts \cap {} = {} /\ NoReceipt \notin Receipts
      /\ Subscribed \subseteq RowsProved!Transactions
  BY PayoutAssumption
<1>2. RowsProved!LedgerAgreesWithStatus => Rows!LedgerAgreesWithStatus
  BY DEF RowsProved!LedgerAgreesWithStatus, RowsProved!PayoutLedgerAgrees,
         RowsProved!CollectionLedgerAgrees, Rows!LedgerAgreesWithStatus,
         Rows!PayoutLedgerAgrees, Rows!CollectionLedgerAgrees
<1>3. RowsProved!ReceiptIsEvidence => Rows!ReceiptIsEvidence
  BY DEF RowsProved!ReceiptIsEvidence, Rows!ReceiptIsEvidence
<1>4. RowsProved!NotifiedOnce => Rows!NotifiedOnce
  BY DEF RowsProved!NotifiedOnce, Rows!NotifiedOnce
<1>5. RowsProved!Spec => [](RowsProved!LedgerAgreesWithStatus)
  BY <1>1, RowsProved!LedgerAgrees
<1>6. RowsProved!Spec => [](RowsProved!ReceiptIsEvidence)
  BY <1>1, RowsProved!ReceiptsAreEvidence
<1>7. RowsProved!Spec => [](RowsProved!NotifiedOnce)
  BY <1>1, RowsProved!TenantIsNotifiedOnce
<1>8. RowsProved!Spec => RowsProved!OutcomeIsFinal
  BY <1>1, RowsProved!OutcomesAreFinal
<1>9. RowsProved!OutcomeIsFinal => Rows!OutcomeIsFinal
  BY DEF RowsProved!OutcomeIsFinal, Rows!OutcomeIsFinal, RowsProved!rowVars, Rows!rowVars
<1> QED BY PayoutKeepsTheContract, ContractInstance, <1>2, <1>3, <1>4, <1>5, <1>6, <1>7, <1>8,
           <1>9, PTL

-----------------------------------------------------------------------------
(* The escrow, when Safaricom's answers reach initiate *)

\* A payout that Safaricom may have in its queue is one that initiate knows was
\* accepted; and a row has no outcome that contradicts Safaricom.
Acknowledged(t) ==
  /\ saf[t] # "unknown" => b2c[t] \in {"accepted", "done"}
  /\ saf[t] = "queued" => status[t] \in {"PENDING", "PROCESSING"}
  /\ saf[t] = "paid" => status[t] # "FAILED"

LEMMA AcknowledgedStep ==
  ASSUME Types, \A t \in Payouts : InStep(t) /\ Acknowledged(t), Next,
         "ambiguous_accept" \notin Faults
  PROVE  \A t \in Payouts : Acknowledged(t)'
<1> USE DEF Acknowledged
<1>1. \A u \in Payouts : b2c[u] \in {"accepted", "done"} => b2c'[u] \in {"accepted", "done"}
  <2>1. ASSUME NEW t \in Payouts, Initiate(t)
        PROVE  \A u \in Payouts :
                 b2c[u] \in {"accepted", "done"} => b2c'[u] \in {"accepted", "done"}
    BY <2>1 DEF Initiate, Reserve, Accepted, ResponseLost, Rejected, MarkProcessing,
                MarkProcessingFails, Release, InitiateDies, GoTo, May, Types, OwnType
  <2>2. ASSUME NEW t \in Payouts, Safaricom(t) \/ DetectorEscalates(t) \/ Resolve(t)
        PROVE  UNCHANGED b2c
    BY <2>2 DEF Safaricom, Decide, ResultCallback, TimeoutCallback, Calls, ownVars,
                DetectorEscalates, Resolve, OperatorDecides, OperatorSettles, OperatorFails,
                OperatorCloses, ResolutionDies
  <2>3. ASSUME NEW p \in Pollers, Handle(p) \/ HandlerDbError(p) \/ Bookkeeping(p)
        PROVE  UNCHANGED b2c
    BY <2>3 DEF Handle, processB2cResult, processB2cTimeout, HandlerDbError, Bookkeeping, ownVars
  <2>4. DetectorLists => UNCHANGED b2c
    BY DEF DetectorLists
  <2> QED BY <2>1, <2>2, <2>3, <2>4 DEF Next
<1>2. CASE ~ UNCHANGED saf
  <2>1. PICK t \in Payouts : Accepted(t) \/ Decide(t)
    BY <1>2, NextAsks DEF ResponseLost, May
  <2>2. UNCHANGED status
    BY <1>2, NextAsks DEF rowVars
  <2> QED BY <1>1, <2>1, <2>2 DEF Accepted, Decide, GoTo, InStep, Types, OwnType
<1>3. CASE UNCHANGED saf
  <2>1. CASE UNCHANGED rowVars
    BY <1>1, <1>3, <2>1 DEF rowVars
  <2>2. ASSUME NEW t \in Payouts, Writes(t) PROVE \A u \in Payouts : Acknowledged(u)'
    <3> USE <1>1, <1>3 DEF Types, OwnType, RowsType, Rows!TypeOK, Rows!Transactions
    <3>1. CASE b2c[t] = "idle" /\ Rows!reserve(t)
      BY <3>1 DEF Rows!reserve, Rows!SetStatus
    <3>2. CASE b2c[t] = "accepted" /\ Rows!markProcessing(t)
      BY <3>2 DEF Rows!markProcessing, Rows!SetStatus
    <3>3. CASE b2c[t] = "catching" /\ Rows!releaseReservation(t)
      BY <3>3 DEF Rows!releaseReservation, Rows!SetStatus
    <3>4. CASE /\ saf[t] = "paid"
               /\ \E r \in Receipts \cup {NoReceipt} : Rows!transitionPayoutToSettled(t, r)
      <4>1. UNCHANGED status \/ status' = [status EXCEPT ![t] = "SETTLED"]
        BY <3>4, SettleEffect DEF rowVars
      <4> QED BY <3>4, <4>1
    <3>5. CASE saf[t] = "refused" /\ Rows!transitionPayoutToFailed(t)
      <4>1. status' = [status EXCEPT ![t] = "FAILED"]
        BY <3>5, FailEffect
      <4> QED BY <3>5, <4>1
    <3>6. CASE Rows!upsertDrift(t) \/ Rows!closeRecord(t)
      BY <3>6 DEF Rows!upsertDrift, Rows!closeRecord
    <3> QED BY <2>2, <3>1, <3>2, <3>3, <3>4, <3>5, <3>6 DEF Writes
  <2> QED BY <2>1, <2>2, NextWrites
<1> QED BY <1>2, <1>3

AckInv ==
  InStepInv /\ Rows!LedgerAgreesWithStatus /\ \A t \in Payouts : Acknowledged(t)

LEMMA PlaceByStatus ==
  ASSUME Rows!LedgerAgreesWithStatus, NEW t \in Payouts
  PROVE  Place(t) = IF status[t] = "NONE" THEN "balance"
                    ELSE IF status[t] = "SETTLED" THEN "paid"
                    ELSE IF status[t] = "FAILED" THEN "returned"
                    ELSE "reserve"
  BY DEF Rows!LedgerAgreesWithStatus, Rows!PayoutLedgerAgrees, Rows!Count, Place

LEMMA InitAck == Init => AckInv
  BY InitInStep
     DEF AckInv, Init, Acknowledged, Rows!Init, Rows!LedgerAgreesWithStatus,
         Rows!PayoutLedgerAgrees, Rows!Count, Rows!Transactions, Rows!PairKinds

\* The contract keeps the ledger in agreement, one step at a time.
LEMMA LedgerStep ==
  ASSUME RowsType, Rows!LedgerAgreesWithStatus, [Rows!Next]_rowVars
  PROVE  Rows!LedgerAgreesWithStatus'
<1> USE DEF Rows!Transactions, RowsProved!Transactions, Rows!Count, RowsProved!Count
<1>1. Payouts \cap {} = {} /\ NoReceipt \notin Receipts /\ Subscribed \subseteq Payouts
  BY PayoutAssumption
<1>2. RowsProved!LedgerAgreesWithStatus <=> Rows!LedgerAgreesWithStatus
  BY DEF RowsProved!LedgerAgreesWithStatus, RowsProved!PayoutLedgerAgrees,
         RowsProved!CollectionLedgerAgrees, Rows!LedgerAgreesWithStatus,
         Rows!PayoutLedgerAgrees, Rows!CollectionLedgerAgrees
<1>3. RowsProved!LedgerAgreesWithStatus' <=> Rows!LedgerAgreesWithStatus'
  BY DEF RowsProved!LedgerAgreesWithStatus, RowsProved!PayoutLedgerAgrees,
         RowsProved!CollectionLedgerAgrees, Rows!LedgerAgreesWithStatus,
         Rows!PayoutLedgerAgrees, Rows!CollectionLedgerAgrees
<1> QED BY <1>1, <1>2, <1>3, RowsInstance, NextInstance, RowsProved!NextLedger

LEMMA NextAck ==
  ASSUME "early_result" \notin Faults, "ambiguous_accept" \notin Faults
  PROVE  AckInv /\ [Next]_vars => AckInv'

<1> SUFFICES ASSUME AckInv, [Next]_vars PROVE AckInv'
  OBVIOUS
<1>1. InStepInv' /\ [Rows!Next]_rowVars
  BY NextInStep DEF AckInv
<1>2. Rows!LedgerAgreesWithStatus'
  BY <1>1, LedgerStep DEF AckInv, InStepInv, Types
<1>3. \A t \in Payouts : Acknowledged(t)'
  <2>1. CASE UNCHANGED vars
    BY <2>1 DEF vars, rowVars, ownVars, AckInv, Acknowledged
  <2>2. CASE Next
    BY <2>2, AcknowledgedStep DEF AckInv, InStepInv
  <2> QED BY <2>1, <2>2
<1> QED BY <1>1, <1>2, <1>3 DEF AckInv

LEMMA AckIsHeld == AckInv => HeldWhileQueued
  BY PlaceByStatus DEF AckInv, Acknowledged, HeldWhileQueued

-----------------------------------------------------------------------------
(* The refinement of PayoutEscrow *)

LEMMA PlaceByStatusNext ==
  ASSUME Rows!LedgerAgreesWithStatus', NEW t \in Payouts
  PROVE  Place(t)' = IF status'[t] = "NONE" THEN "balance"
                     ELSE IF status'[t] = "SETTLED" THEN "paid"
                     ELSE IF status'[t] = "FAILED" THEN "returned"
                     ELSE "reserve"
  BY DEF Rows!LedgerAgreesWithStatus, Rows!PayoutLedgerAgrees, Rows!Count, Place

money == [t \in Payouts |-> Place(t)]
verdict == [t \in Payouts |-> IF saf[t] \in {"paid", "refused"} THEN saf[t] ELSE "open"]

LEMMA EscrowInit == Init => Escrow!Init
<1> SUFFICES ASSUME Init PROVE Escrow!Init
  OBVIOUS
<1>1. \A t \in Payouts : Place(t) = "balance"
  BY DEF Init, Rows!Init, Rows!Transactions, Rows!PairKinds, Place
<1> QED BY <1>1 DEF Init, Escrow!Init

\* A row whose status moves takes the money of its own payout only.
LEMMA MoneyMoves ==
  ASSUME Types, Rows!LedgerAgreesWithStatus, Rows!LedgerAgreesWithStatus', NEW t \in Payouts,
         NEW x, status' = [status EXCEPT ![t] = x]
  PROVE  /\ \A u \in Payouts \ {t} : Place(u)' = Place(u)
         /\ status'[t] = x
<1>1. \A u \in Payouts \ {t} : status'[u] = status[u]
  BY DEF Types, RowsType, Rows!TypeOK, Rows!Transactions
<1>2. status'[t] = x
  BY DEF Types, RowsType, Rows!TypeOK, Rows!Transactions
<1> QED BY <1>1, <1>2, PlaceByStatus, PlaceByStatusNext

LEMMA EscrowMove ==
  ASSUME NEW t \in Payouts, NEW from, NEW to, \A u \in Payouts \ {t} : Place(u)' = Place(u),
         Place(t) = from, Place(t)' = to
  PROVE  Escrow!Move(t, from, to)
  BY DEF Escrow!Move

\* A write moves the money of its payout only, along one edge of the escrow.
LEMMA EscrowWrite ==
  ASSUME AckInv, Rows!LedgerAgreesWithStatus', NEW t \in Payouts, Writes(t), UNCHANGED saf
  PROVE  Escrow!Next \/ UNCHANGED money
<1> USE DEF AckInv, InStepInv
<1>1. CASE b2c[t] = "idle" /\ Rows!reserve(t)
  <2>1. status[t] = "NONE" /\ status' = [status EXCEPT ![t] = "PENDING"]
    BY <1>1 DEF Rows!reserve, Rows!SetStatus
  <2>2. Escrow!Move(t, "balance", "reserve")
    <3>1. Place(t) = "balance"
      BY <2>1, PlaceByStatus
    <3>2. Place(t)' = "reserve" /\ \A u \in Payouts \ {t} : Place(u)' = Place(u)
      BY <2>1, MoneyMoves, PlaceByStatusNext
    <3> QED BY <3>1, <3>2, EscrowMove
  <2> QED BY <2>2 DEF Escrow!Next, Escrow!Reserve
<1>2. CASE b2c[t] = "accepted" /\ Rows!markProcessing(t)
  <2>1. status[t] = "PENDING" /\ status' = [status EXCEPT ![t] = "PROCESSING"]
    BY <1>2 DEF Rows!markProcessing, Rows!SetStatus, InStep
  <2>2. Place(t)' = Place(t)
    BY <2>1, MoneyMoves, PlaceByStatus, PlaceByStatusNext
  <2> QED BY <2>1, <2>2, MoneyMoves DEF money
<1>3. CASE b2c[t] = "catching" /\ Rows!releaseReservation(t)
  <2>1. status[t] = "PENDING" /\ status' = [status EXCEPT ![t] = "FAILED"] /\ saf[t] = "unknown"
    BY <1>3 DEF Rows!releaseReservation, Rows!SetStatus, InStep, Acknowledged
  <2>2. Escrow!Move(t, "reserve", "returned")
    BY <2>1, MoneyMoves, PlaceByStatus, PlaceByStatusNext, EscrowMove
  <2> QED BY <2>1, <2>2 DEF Escrow!Next, Escrow!Return
<1>4. CASE /\ saf[t] = "paid"
           /\ \E r \in Receipts \cup {NoReceipt} : Rows!transitionPayoutToSettled(t, r)
  <2>1. \/ status[t] = "PROCESSING" /\ status' = [status EXCEPT ![t] = "SETTLED"]
        \/ UNCHANGED <<status, posted>>
    BY <1>4, SettleEffect DEF Types, rowVars
  <2>2. CASE UNCHANGED <<status, posted>>
    BY <2>2 DEF money, Place
  <2>3. CASE status[t] = "PROCESSING" /\ status' = [status EXCEPT ![t] = "SETTLED"]
    <3>1. Escrow!Move(t, "reserve", "paid")
      BY <2>3, MoneyMoves, PlaceByStatus, PlaceByStatusNext, EscrowMove
    <3> QED BY <1>4, <3>1 DEF Escrow!Next, Escrow!Discharge
  <2> QED BY <2>1, <2>2, <2>3
<1>5. CASE saf[t] = "refused" /\ Rows!transitionPayoutToFailed(t)
  <2>1. status[t] \in {"PENDING", "PROCESSING"} /\ status' = [status EXCEPT ![t] = "FAILED"]
    BY <1>5, FailEffect DEF Types
  <2>2. Escrow!Move(t, "reserve", "returned")
    <3>1. Place(t) = "reserve"
      BY <2>1, PlaceByStatus
    <3>2. Place(t)' = "returned" /\ \A u \in Payouts \ {t} : Place(u)' = Place(u)
      BY <2>1, MoneyMoves, PlaceByStatusNext
    <3> QED BY <3>1, <3>2, EscrowMove
  <2> QED BY <1>5, <2>2 DEF Escrow!Next, Escrow!Return
<1>6. CASE Rows!upsertDrift(t) \/ Rows!closeRecord(t)
  BY <1>6 DEF Rows!upsertDrift, Rows!closeRecord, money, Place
<1> QED BY <1>1, <1>2, <1>3, <1>4, <1>5, <1>6 DEF Writes

\* Safaricom queues what is reserved, and decides on what is queued.
LEMMA EscrowStep ==
  ASSUME AckInv, Rows!LedgerAgreesWithStatus', Next
  PROVE  Escrow!Next \/ UNCHANGED <<money, verdict>>
<1>1. CASE ~ UNCHANGED saf
  <2> PICK t \in Payouts : Accepted(t) \/ ResponseLost(t) \/ Decide(t)
    BY <1>1, NextAsks
  <2>1. UNCHANGED money
    BY <1>1, NextAsks DEF rowVars, money, Place
  <2>2. CASE Decide(t)
    <3>1. Place(t) = "reserve" /\ verdict[t] = "open"
      BY <2>2, AckIsHeld DEF Decide, HeldWhileQueued, verdict
    <3>2. \E v \in {"paid", "refused"} : verdict' = [verdict EXCEPT ![t] = v]
      BY <2>2 DEF Decide, verdict, AckInv, InStepInv, Types, OwnType
    <3> QED BY <2>1, <3>1, <3>2 DEF Escrow!Next, Escrow!Decide, money, verdict
  <2>3. CASE Accepted(t) \/ ResponseLost(t)
    <3>1. saf[t] = "unknown" /\ saf' = [saf EXCEPT ![t] = "queued"]
      BY <2>3 DEF Accepted, ResponseLost, AckInv, Acknowledged, InStepInv, Types, OwnType
    <3>2. UNCHANGED verdict
      BY <3>1 DEF verdict, AckInv, InStepInv, Types, OwnType
    <3> QED BY <2>1, <3>2
  <2> QED BY <2>2, <2>3
<1>2. CASE UNCHANGED saf
  <2>1. UNCHANGED verdict
    BY <1>2 DEF verdict
  <2>2. CASE UNCHANGED rowVars
    BY <2>1, <2>2 DEF rowVars, money, Place
  <2> QED BY <1>2, <2>1, <2>2, NextWrites, EscrowWrite
<1> QED BY <1>1, <1>2

\* The ledger of a payout implements the escrow: the shillings leave the
\* reserve once, and return only if Safaricom has not paid and cannot pay.
THEOREM PayoutImplementsEscrow ==
  ASSUME "early_result" \notin Faults, "ambiguous_accept" \notin Faults
  PROVE  Spec => ImplementsEscrow
<1>1. AckInv /\ [Next]_vars => AckInv'
  BY NextAck
<1>2. AckInv /\ AckInv' /\ [Next]_vars => [Escrow!Next]_<<money, verdict>>
  <2>1. CASE UNCHANGED vars
    BY <2>1 DEF vars, rowVars, ownVars, money, verdict, Place
  <2>2. CASE Next
    BY <2>2, EscrowStep DEF AckInv
  <2> QED BY <2>1, <2>2
<1> QED BY <1>1, <1>2, InitAck, EscrowInit, PTL DEF Spec, ImplementsEscrow, Escrow!Spec, money, verdict

=============================================================================
