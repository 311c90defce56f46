---------------------- MODULE CollectionLifecycleProofs ----------------------
(***************************************************************************)
(* What CollectionLifecycle promises, for any number of pushes, payments   *)
(* and pollers, batches of any size, any number of attempts, and under     *)
(* every fault: unlike a payout, a push has no key to be matched by until  *)
(* step 3 of initiate has committed, so nothing overtakes that step.       *)
(*                                                                         *)
(* Pushing says where the row of a push is while initiate runs, and that   *)
(* neither a callback nor the drift detector can have it in hand; it makes *)
(* every write one the contract allows.  Truthful says what the rows, the  *)
(* queue and the detector's verdicts know of what the customer did.        *)
(*                                                                         *)
(* At the end the detector's other half, PayoutEscalation, under every     *)
(* fault: what it promises of any number of runs that overlap, and OneRun, *)
(* which ties the place of a run to the flag, the alerts and the queries   *)
(* of the payout it is at, when there is one run at a time.                *)
(***************************************************************************)
EXTENDS CollectionLifecycle, PayoutEscalation, TLAPS, SequenceTheorems

RowsProved == INSTANCE TransactionStateMachineProofs WITH Payouts <- {}
QueueProved == INSTANCE WebhookQueueProofs WITH Events <- Callbacks

-----------------------------------------------------------------------------
(* What a step does to the rows and to the queue *)

CallbackInHand(t) == \E p \in Pollers : Handling(p, "daraja_stk_callback", t)

ConfirmationInHand(t) == \E p \in Pollers : Handling(p, "daraja_c2b_confirmation", t)

\* a write to the row of push t, and who makes it
WritesPush(t) ==
  \/ stk[t] = "idle" /\ Rows!createPending(t)
  \/ stk[t] = "accepted" /\ Rows!markProcessing(t)
  \/ stk[t] = "catching" /\ Rows!failInitiation(t)
  \/ /\ CallbackInHand(t) /\ t \in checkout /\ saf[t] = "paid"
     /\ Rows!transitionToSettled(t, ReceiptOf[t])
  \/ CallbackInHand(t) /\ t \in checkout /\ saf[t] = "declined" /\ Rows!transitionToFailed(t)
  \/ verdict[t] = "paid" /\ Rows!transitionToSettled(t, NoReceipt)
  \/ verdict[t] = "declined" /\ Rows!transitionToFailed(t)
  \/ verdict[t] = "flag" /\ Rows!markDrift(t)

\* and to the row of a direct payment
WritesPayment(t) ==
  ConfirmationInHand(t) /\ Rows!recordInboundSettlement(t, ReceiptOf[t])

Writes ==
  \/ \E t \in Pushes : WritesPush(t)
  \/ \E t \in Payments : WritesPayment(t)

LEMMA NextWrites ==
  ASSUME Next
  PROVE  UNCHANGED rowVars \/ Writes
<1>1. ASSUME NEW t \in Pushes, Initiate(t)
      PROVE  UNCHANGED rowVars \/ WritesPush(t)
  BY <1>1 DEF Initiate, Create, Accepted, ResponseLost, Rejected, MarkProcessing,
              MarkProcessingFails, Fail, InitiateDies, WritesPush
<1>2. ASSUME NEW t \in Pushes, Decide(t) \/ Callback(t) PROVE UNCHANGED rowVars
  BY <1>2 DEF Decide, Callback
<1>3. ASSUME NEW t \in Pushes, Detect(t)
      PROVE  UNCHANGED rowVars \/ WritesPush(t)
  BY <1>3 DEF Detect, DetectorAsks, DetectorApplies, DetectorFlags, WritesPush
<1>4. ASSUME NEW t \in Payments, Pay(t) \/ Confirmation(t) PROVE UNCHANGED rowVars
  BY <1>4 DEF Pay, Confirmation
<1>5. ASSUME NEW p \in Pollers, Handle(p)
      PROVE  UNCHANGED rowVars \/ Writes
  <2>1. ASSUME NEW t \in Pushes, processStkCallback(p, t)
        PROVE  UNCHANGED rowVars \/ WritesPush(t)
    BY <2>1 DEF processStkCallback, WritesPush, CallbackInHand
  <2>2. ASSUME NEW t \in Payments, processC2bConfirmation(p, t)
        PROVE  UNCHANGED rowVars \/ WritesPayment(t)
    BY <2>2 DEF processC2bConfirmation, WritesPayment, ConfirmationInHand
  <2> QED BY <1>5, <2>1, <2>2 DEF Handle, Writes
<1>6. ASSUME NEW p \in Pollers, Bookkeeping(p) PROVE UNCHANGED rowVars
  BY <1>6 DEF Bookkeeping
<1>7. DetectorLists \/ DetectorDies => UNCHANGED rowVars
  BY DEF DetectorLists, DetectorDies
<1> QED BY <1>1, <1>2, <1>3, <1>4, <1>5, <1>6, <1>7 DEF Next, Writes

\* what the customers do, and the two calls that prompt them
LEMMA NextPays ==
  ASSUME Next
  PROVE  \/ UNCHANGED saf
         \/ UNCHANGED <<rowVars, queueVars>>
            /\ \/ \E t \in Pushes : Accepted(t) \/ ResponseLost(t) \/ Decide(t)
               \/ \E t \in Payments : Pay(t)
<1>1. ASSUME NEW t \in Pushes, Initiate(t)
      PROVE  UNCHANGED saf \/ Accepted(t) \/ ResponseLost(t)
  BY <1>1 DEF Initiate, Create, Rejected, MarkProcessing, MarkProcessingFails, Fail, InitiateDies
<1>2. ASSUME NEW t \in Pushes, Callback(t) \/ Detect(t) PROVE UNCHANGED saf
  BY <1>2 DEF Callback, Detect, DetectorAsks, DetectorApplies, DetectorFlags, ownVars
<1>3. ASSUME NEW t \in Payments, Confirmation(t) PROVE UNCHANGED saf
  BY <1>3 DEF Confirmation, ownVars
<1>4. ASSUME NEW p \in Pollers, Handle(p) \/ Bookkeeping(p) PROVE UNCHANGED saf
  BY <1>4 DEF Handle, processStkCallback, processC2bConfirmation, Bookkeeping, ownVars
<1>5. DetectorLists \/ DetectorDies => UNCHANGED saf
  BY DEF DetectorLists, DetectorDies
<1>6. /\ \A t \in Pushes : Accepted(t) \/ ResponseLost(t) \/ Decide(t)
                             => UNCHANGED <<rowVars, queueVars>>
      /\ \A t \in Payments : Pay(t) => UNCHANGED <<rowVars, queueVars>>
  BY DEF Accepted, ResponseLost, Decide, Pay
<1> QED BY <1>1, <1>2, <1>3, <1>4, <1>5, <1>6 DEF Next

\* a step of the queue: a poller's, or an insert
Inserts(e) ==
  /\ Queue!ingest(e)
  /\ \E t \in Collections :
       \/ t \in Pushes /\ e = <<"daraja_stk_callback", t>> /\ saf[t] \in {"paid", "declined"}
       \/ t \in Payments /\ e = <<"daraja_c2b_confirmation", t>> /\ saf[t] = "paid"
  /\ UNCHANGED <<rowVars, ownVars>>

LEMMA NextQueues ==
  ASSUME Next
  PROVE  \/ UNCHANGED queueVars
         \/ \E e \in Callbacks : Inserts(e)
         \/ \E p \in Pollers :
              \/ Queue!Bookkeeping(p) \/ Queue!abortPoll(p)
              \/ Queue!handlerReturns(p) \/ Queue!handlerThrows(p)
<1>1. ASSUME NEW t \in Pushes, Initiate(t) \/ Decide(t) \/ Detect(t)
      PROVE  UNCHANGED queueVars
  BY <1>1 DEF Initiate, Create, Accepted, ResponseLost, Rejected, MarkProcessing,
              MarkProcessingFails, Fail, InitiateDies, Decide, Detect, DetectorAsks,
              DetectorApplies, DetectorFlags
<1>2. ASSUME NEW t \in Pushes, Callback(t) PROVE \E e \in Callbacks : Inserts(e)
  BY <1>2 DEF Callback, Callbacks, Inserts, Collections
<1>3. ASSUME NEW t \in Payments, Pay(t) \/ Confirmation(t)
      PROVE  UNCHANGED queueVars \/ \E e \in Callbacks : Inserts(e)
  BY <1>3 DEF Pay, Confirmation, Callbacks, Inserts, Collections
<1>4. ASSUME NEW p \in Pollers, Handle(p) \/ Bookkeeping(p)
      PROVE  \/ Queue!Bookkeeping(p) \/ Queue!abortPoll(p)
             \/ Queue!handlerReturns(p) \/ Queue!handlerThrows(p)
  BY <1>4 DEF Handle, processStkCallback, processC2bConfirmation, Bookkeeping
<1>5. DetectorLists \/ DetectorDies => UNCHANGED queueVars
  BY DEF DetectorLists, DetectorDies
<1> QED BY <1>1, <1>2, <1>3, <1>4, <1>5 DEF Next

-----------------------------------------------------------------------------
(* Type correctness, whatever faults there are *)

RowsType == Rows!TypeOK
QueueType == QueueProved!QInv

LEMMA RowsInstance == RowsProved!TypeOK <=> RowsType
  BY DEF RowsType, Rows!TypeOK, RowsProved!TypeOK, Rows!Transactions, RowsProved!Transactions,
         Rows!Statuses, RowsProved!Statuses, Rows!PairKinds, RowsProved!PairKinds

LEMMA QueueTypeStep ==
  ASSUME QueueType, Next
  PROVE  QueueType'
<1> USE CollectionAssumption DEF QueueType
<1>1. CASE UNCHANGED queueVars
  BY <1>1 DEF queueVars, QueueProved!QInv, QueueProved!TypeOK, QueueProved!Batched, QueueProved!Stored
<1>2. ASSUME NEW e \in Callbacks, Inserts(e)
      PROVE  QueueType'
  <2>1. QueueProved!ingest(e)
    BY <1>2 DEF Inserts, Queue!ingest, QueueProved!ingest, Queue!Stored, QueueProved!Stored,
                Queue!ToSet, QueueProved!ToSet
  <2> QED BY <2>1, QueueProved!IngestQInv
<1>3. ASSUME NEW p \in Pollers,
             \/ Queue!Bookkeeping(p) \/ Queue!abortPoll(p)
             \/ Queue!handlerReturns(p) \/ Queue!handlerThrows(p)
      PROVE  QueueType'
  <2>1. \/ QueueProved!Bookkeeping(p) \/ QueueProved!abortPoll(p)
        \/ QueueProved!handlerReturns(p) \/ QueueProved!handlerThrows(p)
    <3>1. Queue!pollUnprocessedEvents(p) => QueueProved!pollUnprocessedEvents(p)
      BY DEF Queue!pollUnprocessedEvents, QueueProved!pollUnprocessedEvents, Queue!InOrder,
             QueueProved!InOrder, Queue!Due, QueueProved!Due, Queue!Waiting,
             QueueProved!Waiting, Queue!Pending, QueueProved!Pending, Queue!Snap,
             QueueProved!Snap, Queue!Cardinality, QueueProved!Cardinality
    <3>2. /\ Queue!markProcessed(p) => QueueProved!markProcessed(p)
          /\ Queue!countAttempt(p) => QueueProved!countAttempt(p)
          /\ Queue!sendAlert(p) => QueueProved!sendAlert(p)
          /\ Queue!abortPoll(p) => QueueProved!abortPoll(p)
          /\ Queue!handlerReturns(p) => QueueProved!handlerReturns(p)
          /\ Queue!handlerThrows(p) => QueueProved!handlerThrows(p)
      BY DEF Queue!markProcessed, QueueProved!markProcessed, Queue!countAttempt,
             QueueProved!countAttempt, Queue!sendAlert, QueueProved!sendAlert,
             Queue!abortPoll, QueueProved!abortPoll, Queue!handlerReturns,
             QueueProved!handlerReturns, Queue!handlerThrows, QueueProved!handlerThrows,
             Queue!Advance, QueueProved!Advance, Queue!current, QueueProved!current
    <3> QED BY <1>3, <3>1, <3>2 DEF Queue!Bookkeeping, QueueProved!Bookkeeping
  <2> QED BY <2>1, QueueProved!PollerQInv
<1> QED BY <1>1, <1>2, <1>3, NextQueues

\* What a settling call does to its row: it settles it, fills in its receipt, or
\* nothing.
LEMMA SettleEffect ==
  ASSUME RowsType, NEW t \in Collections, NEW r, Rows!transitionToSettled(t, r)
  PROVE  \/ /\ status[t] = "PROCESSING"
            /\ status' = [status EXCEPT ![t] = "SETTLED"]
            /\ receipt' = IF r = NoReceipt THEN receipt ELSE [receipt EXCEPT ![t] = r]
            /\ posted' = [posted EXCEPT ![t]["collection"] = @ + 1]
            /\ recon' = recon \cup {t}
            /\ reconciled' = reconciled \cup {t}
            /\ drift' = drift
            /\ deliveries' = IF t \in Subscribed
                             THEN [deliveries EXCEPT ![t] = @ + 1]
                             ELSE deliveries
         \/ /\ status[t] = "SETTLED"
            /\ receipt' = [receipt EXCEPT ![t] = r]
            /\ UNCHANGED <<status, posted, recon, drift, reconciled, deliveries>>
         \/ UNCHANGED rowVars
<1>1. status[t] \in Rows!Statuses
  BY DEF RowsType, Rows!TypeOK, Rows!Transactions
<1>2. Rows!assertTransitionAllowed(t, "SETTLED") => status[t] = "PROCESSING"
  BY <1>1 DEF Rows!assertTransitionAllowed, Rows!ALLOWED_TRANSITIONS, Rows!Statuses
<1>3. \/ Rows!MaySettle(t, r) /\ Rows!SetStatus(t, "SETTLED") /\ Rows!SetReceipt(t, r)
         /\ Rows!Post(t, "collection") /\ Rows!CreateReconciled(t)
         /\ Rows!enqueueWebhookDelivery(t)
      \/ Rows!MayBackfill(t, r) /\ Rows!SetReceipt(t, r)
         /\ UNCHANGED <<status, posted, recon, drift, reconciled, deliveries>>
      \/ UNCHANGED rowVars
  BY DEF Rows!transitionToSettled, Rows!SettleRow, Rows!rowVars, rowVars
<1> QED
  BY <1>2, <1>3 DEF Rows!MaySettle, Rows!SetStatus, Rows!SetReceipt, Rows!Post,
       Rows!CreateReconciled, Rows!enqueueWebhookDelivery, Rows!MayBackfill

\* What a failing call does: it is made on a row that has no outcome yet.
LEMMA FailEffect ==
  ASSUME RowsType, NEW t \in Collections, Rows!transitionToFailed(t)
  PROVE  /\ status[t] \in {"PENDING", "PROCESSING"}
         /\ status' = [status EXCEPT ![t] = "FAILED"]
         /\ deliveries' = IF t \in Subscribed
                          THEN [deliveries EXCEPT ![t] = @ + 1]
                          ELSE deliveries
         /\ UNCHANGED <<receipt, posted, recon, drift, reconciled>>
<1>1. status[t] \in Rows!Statuses
  BY DEF RowsType, Rows!TypeOK, Rows!Transactions
<1>2. Rows!assertTransitionAllowed(t, "FAILED") => status[t] \in {"PENDING", "PROCESSING"}
  BY <1>1 DEF Rows!assertTransitionAllowed, Rows!ALLOWED_TRANSITIONS, Rows!Statuses
<1> QED
  BY <1>2 DEF Rows!transitionToFailed, Rows!SetStatus, Rows!enqueueWebhookDelivery

LEMMA SettleType ==
  ASSUME RowsType, NEW t \in Collections, NEW r \in Receipts \cup {NoReceipt},
         Rows!transitionToSettled(t, r)
  PROVE  RowsType'
<1> USE DEF RowsType, Rows!TypeOK, Rows!Transactions, Rows!Statuses, Rows!PairKinds
<1>1. CASE UNCHANGED rowVars
  BY <1>1 DEF rowVars
<1>2. CASE /\ status' = [status EXCEPT ![t] = "SETTLED"]
           /\ receipt' = IF r = NoReceipt THEN receipt ELSE [receipt EXCEPT ![t] = r]
           /\ posted' = [posted EXCEPT ![t]["collection"] = @ + 1]
           /\ recon' = recon \cup {t}
           /\ reconciled' = reconciled \cup {t}
           /\ drift' = drift
           /\ deliveries' = IF t \in Subscribed
                            THEN [deliveries EXCEPT ![t] = @ + 1]
                            ELSE deliveries
  BY <1>2
<1>3. CASE receipt' = [receipt EXCEPT ![t] = r]
           /\ UNCHANGED <<status, posted, recon, drift, reconciled, deliveries>>
  BY <1>3
<1> QED BY <1>1, <1>2, <1>3, SettleEffect

LEMMA FailType ==
  ASSUME RowsType, NEW t \in Collections, Rows!transitionToFailed(t)
  PROVE  RowsType'
<1>1. /\ status' = [status EXCEPT ![t] = "FAILED"]
      /\ deliveries' = IF t \in Subscribed
                       THEN [deliveries EXCEPT ![t] = @ + 1]
                       ELSE deliveries
      /\ UNCHANGED <<receipt, posted, recon, drift, reconciled>>
  BY FailEffect
<1> QED BY <1>1 DEF RowsType, Rows!TypeOK, Rows!Transactions, Rows!Statuses, Rows!PairKinds

LEMMA RowsTypeStep ==
  ASSUME RowsType, Writes
  PROVE  RowsType'
<1> USE DEF RowsType, Rows!TypeOK, Rows!Transactions, Rows!Statuses, Rows!PairKinds,
            Rows!SetStatus, Rows!Post, Collections
<1>1. ASSUME NEW t \in Pushes, WritesPush(t) PROVE RowsType'
  <2>1. CASE Rows!createPending(t)
    BY <2>1 DEF Rows!createPending
  <2>2. CASE Rows!markProcessing(t)
    BY <2>2 DEF Rows!markProcessing
  <2>3. CASE Rows!failInitiation(t)
    BY <2>3 DEF Rows!failInitiation
  <2>4. CASE Rows!transitionToSettled(t, ReceiptOf[t]) \/ Rows!transitionToSettled(t, NoReceipt)
    <3>1. ReceiptOf[t] \in Receipts
      BY CollectionAssumption
    <3> QED BY <2>4, <3>1, SettleType
  <2>5. CASE Rows!transitionToFailed(t)
    BY <2>5, FailType
  <2>6. CASE Rows!markDrift(t)
    BY <2>6 DEF Rows!markDrift
  <2> QED BY <1>1, <2>1, <2>2, <2>3, <2>4, <2>5, <2>6 DEF WritesPush
<1>2. ASSUME NEW t \in Payments, WritesPayment(t) PROVE RowsType'
  <2>1. ReceiptOf[t] \in Receipts
    BY CollectionAssumption
  <2> QED BY <1>2, <2>1 DEF WritesPayment, Rows!recordInboundSettlement, Rows!CreateReconciled
<1> QED BY <1>1, <1>2 DEF Writes

\* Where initiate is, what the customers did, and the drift detection's own state.
OwnType ==
  /\ stk \in [Pushes -> {"idle", "created", "accepted", "catching", "done"}]
  /\ checkout \subseteq Pushes
  /\ saf \in [Collections -> {"unknown", "prompted", "paid", "declined"}]
  /\ listed \subseteq Pushes
  /\ verdict \in [Pushes -> {"none", "paid", "declined", "flag"}]

LEMMA AnswersAreTrue ==
  ASSUME NEW t \in Pushes, NEW answer \in Answers(t)
  PROVE  answer = "none" \/ (answer = saf[t] /\ answer \in {"paid", "declined"})
<1>1. CASE t \in checkout \ TillPushes /\ saf[t] \in {"paid", "declined"}
  <2>1. Answers(t) = {"none"} \cup {saf[t]}
    BY <1>1, Zenon DEF Answers
  <2> QED BY <1>1, <2>1
<1>2. CASE ~ (t \in checkout \ TillPushes /\ saf[t] \in {"paid", "declined"})
  <2>1. Answers(t) = {"none"} \cup {}
    BY <1>2, Zenon DEF Answers
  <2> QED BY <2>1
<1> QED BY <1>1, <1>2

LEMMA OwnTypeStep == ASSUME OwnType, Next PROVE OwnType'
<1> USE DEF OwnType, Collections
<1>1. ASSUME NEW t \in Pushes, Initiate(t) PROVE OwnType'
  BY <1>1 DEF Initiate, Create, Accepted, ResponseLost, Rejected, MarkProcessing,
              MarkProcessingFails, Fail, InitiateDies, GoTo
<1>2. ASSUME NEW t \in Pushes, Decide(t) \/ Callback(t) PROVE OwnType'
  BY <1>2 DEF Decide, Callback, ownVars
<1>3. ASSUME NEW t \in Pushes, Detect(t) PROVE OwnType'
  BY <1>3, AnswersAreTrue DEF Detect, DetectorAsks, DetectorApplies, DetectorFlags
<1>4. ASSUME NEW t \in Payments, Pay(t) \/ Confirmation(t) PROVE OwnType'
  BY <1>4 DEF Pay, Confirmation, ownVars
<1>5. ASSUME NEW p \in Pollers, Handle(p) \/ Bookkeeping(p) PROVE OwnType'
  BY <1>5 DEF Handle, processStkCallback, processC2bConfirmation, Bookkeeping, ownVars
<1>6. DetectorLists \/ DetectorDies => OwnType'
  BY DEF DetectorLists, DetectorDies
<1> QED BY <1>1, <1>2, <1>3, <1>4, <1>5, <1>6 DEF Next

Types == RowsType /\ QueueType /\ OwnType

LEMMA InitTypes == Init => Types
<1> SUFFICES ASSUME Init PROVE Types
  OBVIOUS
<1>1. RowsType
  BY DEF Init, Rows!Init, RowsType, Rows!TypeOK, Rows!Transactions, Rows!Statuses, Rows!PairKinds
<1>2. QueueProved!Init
  BY DEF Init, Queue!Init, QueueProved!Init
<1>3. QueueType
  BY <1>2, CollectionAssumption, QueueProved!InitQInv DEF QueueType
<1> QED BY <1>1, <1>3 DEF Types, Init, OwnType

LEMMA NextTypes == Types /\ [Next]_vars => Types'
<1> SUFFICES ASSUME Types, [Next]_vars PROVE Types'
  OBVIOUS
<1>1. CASE UNCHANGED vars
  BY <1>1 DEF vars, rowVars, queueVars, ownVars, Types, OwnType, RowsType, Rows!TypeOK,
       QueueType, QueueProved!QInv, QueueProved!TypeOK, QueueProved!Batched, QueueProved!Stored
<1>2. CASE Next
  <2>1. RowsType'
    <3>1. CASE UNCHANGED rowVars
      BY <3>1 DEF rowVars, Types, RowsType, Rows!TypeOK
    <3> QED BY <1>2, <3>1, NextWrites, RowsTypeStep DEF Types
  <2> QED BY <1>2, <2>1, QueueTypeStep, OwnTypeStep DEF Types
<1> QED BY <1>1, <1>2

\* Rows, queue and the actors' own state stay in their ranges, whichever of
\* the faults happen.
THEOREM TypeCorrect == Spec => []TypeOK
<1>1. Types => TypeOK
  BY DEF Types, RowsType, QueueType, OwnType, TypeOK, QueueProved!QInv,
         QueueProved!TypeOK, Queue!TypeOK, QueueProved!Snapshot, Queue!Snapshot,
         QueueProved!Stages, Queue!Stages
<1> QED BY <1>1, InitTypes, NextTypes, PTL DEF Spec

-----------------------------------------------------------------------------
(* The contract of the rows, whatever faults there are *)

\* While initiate runs nobody else has the push in hand, so the row is where
\* initiate left it.
Pushing(t) ==
  /\ stk[t] = "idle" <=> status[t] = "NONE"
  /\ stk[t] \in {"created", "accepted", "catching"} => status[t] = "PENDING"
  /\ stk[t] # "done" => t \notin checkout /\ t \notin listed /\ verdict[t] = "none"

PushInv == Types /\ \A t \in Pushes : Pushing(t)

\* an outcome is written on a row that exists
LEMMA OutcomeEffect ==
  ASSUME RowsType, NEW t \in Collections, NEW r,
         Rows!transitionToSettled(t, r) \/ Rows!transitionToFailed(t)
  PROVE  \/ UNCHANGED status
         \/ /\ status[t] # "NONE"
            /\ status' = [status EXCEPT ![t] = "SETTLED"]
            /\ Rows!transitionToSettled(t, r)
         \/ /\ status[t] # "NONE"
            /\ status' = [status EXCEPT ![t] = "FAILED"]
            /\ Rows!transitionToFailed(t)
  BY SettleEffect, FailEffect DEF rowVars

LEMMA PushingStep ==
  ASSUME PushInv, Next
  PROVE  \A t \in Pushes : Pushing(t)'
<1> USE DEF PushInv, Types, OwnType, RowsType, Rows!TypeOK, Rows!Transactions, Pushing, Collections
<1>1. ASSUME NEW t \in Pushes, Initiate(t) PROVE \A u \in Pushes : Pushing(u)'
  BY <1>1 DEF Initiate, Create, Accepted, ResponseLost, Rejected, MarkProcessing,
              MarkProcessingFails, Fail, InitiateDies, GoTo, rowVars, Rows!createPending,
              Rows!markProcessing, Rows!failInitiation, Rows!SetStatus
<1>2. ASSUME NEW t \in Pushes, Decide(t) \/ Callback(t) PROVE \A u \in Pushes : Pushing(u)'
  BY <1>2 DEF Decide, Callback, rowVars, ownVars
<1>3. ASSUME NEW t \in Pushes, Detect(t) PROVE \A u \in Pushes : Pushing(u)'
  <2>1. CASE DetectorAsks(t)
    BY <2>1, AnswersAreTrue DEF DetectorAsks, rowVars
  <2>2. CASE DetectorApplies(t)
    <3>1. stk[t] = "done" /\ UNCHANGED <<stk, checkout, listed>>
          /\ \E v : verdict' = [verdict EXCEPT ![t] = v]
      BY <2>2 DEF DetectorApplies
    <3>2. \/ UNCHANGED status
          \/ status[t] # "NONE" /\ \E x : x # "NONE" /\ status' = [status EXCEPT ![t] = x]
      BY <2>2, OutcomeEffect DEF DetectorApplies, rowVars
    <3> QED BY <3>1, <3>2
  <2>3. CASE DetectorFlags(t)
    BY <2>3 DEF DetectorFlags, Rows!markDrift
  <2> QED BY <1>3, <2>1, <2>2, <2>3 DEF Detect
<1>4. ASSUME NEW t \in Payments, Pay(t) \/ Confirmation(t)
      PROVE  \A u \in Pushes : Pushing(u)'
  BY <1>4 DEF Pay, Confirmation, rowVars, ownVars
<1>5. ASSUME NEW p \in Pollers, Handle(p) PROVE \A u \in Pushes : Pushing(u)'
  <2>1. UNCHANGED ownVars
    BY <1>5 DEF Handle, processStkCallback, processC2bConfirmation
  <2>2. CASE UNCHANGED rowVars
    BY <2>1, <2>2 DEF rowVars, ownVars
  <2>3. ASSUME NEW t \in Pushes, processStkCallback(p, t), ~ UNCHANGED rowVars
        PROVE  \A u \in Pushes : Pushing(u)'
    <3>1. stk[t] = "done"
      BY <2>3 DEF processStkCallback
    <3>2. \/ UNCHANGED status
          \/ status[t] # "NONE" /\ \E x : x # "NONE" /\ status' = [status EXCEPT ![t] = x]
      BY <2>3, OutcomeEffect DEF processStkCallback
    <3> QED BY <2>1, <3>1, <3>2 DEF ownVars
  <2>4. ASSUME NEW t \in Payments, processC2bConfirmation(p, t), ~ UNCHANGED rowVars
        PROVE  \A u \in Pushes : Pushing(u)'
    <3>1. status' = [status EXCEPT ![t] = "SETTLED"]
      BY <2>4 DEF processC2bConfirmation, Rows!recordInboundSettlement, Rows!SetStatus
    <3> QED BY <2>1, <3>1, CollectionAssumption DEF ownVars
  <2> QED BY <1>5, <2>2, <2>3, <2>4 DEF Handle
<1>6. ASSUME NEW p \in Pollers, Bookkeeping(p) PROVE \A u \in Pushes : Pushing(u)'
  BY <1>6 DEF Bookkeeping, rowVars, ownVars
<1>7. DetectorLists => \A u \in Pushes : Pushing(u)'
  BY DEF DetectorLists, rowVars
<1>8. DetectorDies => \A u \in Pushes : Pushing(u)'
  BY DEF DetectorDies, rowVars
<1> QED BY <1>1, <1>2, <1>3, <1>4, <1>5, <1>6, <1>7, <1>8 DEF Next

LEMMA WritesKeepContract ==
  ASSUME PushInv, Writes
  PROVE  Rows!Next
<1> USE DEF Rows!Next, Rows!Transactions, Collections
<1>1. ASSUME NEW t \in Pushes, WritesPush(t) PROVE Rows!Next
  <2>1. CASE stk[t] = "idle" /\ Rows!createPending(t)
    BY <2>1 DEF Rows!Initiation
  <2>2. CASE stk[t] = "accepted" /\ Rows!markProcessing(t)
    BY <2>2 DEF PushInv, Pushing, Rows!Initiation
  <2>3. CASE stk[t] = "catching" /\ Rows!failInitiation(t)
    BY <2>3 DEF PushInv, Pushing, Rows!Initiation
  <2>4. CASE Rows!transitionToSettled(t, ReceiptOf[t]) \/ Rows!transitionToSettled(t, NoReceipt)
    BY <2>4, CollectionAssumption DEF Rows!Outcome
  <2>5. CASE Rows!transitionToFailed(t)
    BY <2>5 DEF Rows!Outcome
  <2>6. CASE Rows!markDrift(t)
    BY <2>6 DEF Rows!Reconciliation
  <2> QED BY <1>1, <2>1, <2>2, <2>3, <2>4, <2>5, <2>6 DEF WritesPush
<1>2. ASSUME NEW t \in Payments, WritesPayment(t) PROVE Rows!Next
  BY <1>2, CollectionAssumption DEF WritesPayment, Rows!Outcome
<1> QED BY <1>1, <1>2 DEF Writes

LEMMA InitPush == Init => PushInv /\ Rows!Init
  BY InitTypes DEF Init, PushInv, Pushing, Rows!Init, Rows!Transactions, Collections

LEMMA NextPush == PushInv /\ [Next]_vars => PushInv' /\ [Rows!Next]_rowVars
<1> SUFFICES ASSUME PushInv, [Next]_vars PROVE PushInv' /\ [Rows!Next]_rowVars
  OBVIOUS
<1>1. CASE UNCHANGED vars
  BY <1>1, NextTypes DEF vars, rowVars, ownVars, PushInv, Pushing
<1>2. CASE Next
  BY <1>2, NextTypes, PushingStep, NextWrites, WritesKeepContract DEF PushInv
<1> QED BY <1>1, <1>2

\* Although step 3 and the catch block of initiate look at no status, every
\* write of a collection's row is one the contract allows: an early callback
\* is dropped, because its checkoutRequestId is on no row yet.
THEOREM CollectionKeepsTheContract == Spec => Rows!Spec
<1>1. PushInv /\ [Next]_vars => PushInv' /\ [Rows!Next]_Rows!rowVars
  BY NextPush DEF rowVars, Rows!rowVars
<1> QED BY <1>1, InitPush, PTL DEF Spec, Rows!Spec

-----------------------------------------------------------------------------
(* The rows keep the promises of TransactionStateMachine *)

LEMMA NextInstance == [Rows!Next]_rowVars <=> [RowsProved!Next]_RowsProved!rowVars
  BY DEF Rows!Transactions, RowsProved!Transactions, Rows!Statuses, RowsProved!Statuses,
         Rows!PairKinds, RowsProved!PairKinds, Rows!Next, RowsProved!Next, Rows!Initiation,
         RowsProved!Initiation, Rows!Outcome, RowsProved!Outcome, Rows!Reconciliation,
         RowsProved!Reconciliation, Rows!reserve, RowsProved!reserve, Rows!createPending,
         RowsProved!createPending, Rows!markProcessing, RowsProved!markProcessing,
         Rows!releaseReservation, RowsProved!releaseReservation, Rows!failInitiation,
         RowsProved!failInitiation, Rows!transitionToSettled, RowsProved!transitionToSettled,
         Rows!transitionPayoutToSettled, RowsProved!transitionPayoutToSettled,
         Rows!recordInboundSettlement, RowsProved!recordInboundSettlement,
         Rows!transitionToFailed, RowsProved!transitionToFailed, Rows!transitionPayoutToFailed,
         RowsProved!transitionPayoutToFailed, Rows!upsertDrift, RowsProved!upsertDrift,
         Rows!markDrift, RowsProved!markDrift, Rows!closeRecord, RowsProved!closeRecord,
         Rows!SettleRow, RowsProved!SettleRow, Rows!SetStatus, RowsProved!SetStatus, Rows!Post,
         RowsProved!Post, Rows!SetReceipt, RowsProved!SetReceipt, Rows!enqueueWebhookDelivery,
         RowsProved!enqueueWebhookDelivery, Rows!CreateReconciled, RowsProved!CreateReconciled,
         Rows!MaySettle, RowsProved!MaySettle, Rows!MayBackfill, RowsProved!MayBackfill,
         Rows!IsDuplicate, RowsProved!IsDuplicate, Rows!ReceiptFree, RowsProved!ReceiptFree,
         Rows!assertTransitionAllowed, RowsProved!assertTransitionAllowed,
         Rows!ALLOWED_TRANSITIONS, RowsProved!ALLOWED_TRANSITIONS, Rows!rowVars,
         RowsProved!rowVars, rowVars

LEMMA ContractInstance == Rows!Spec => RowsProved!Spec
<1>1. Rows!Init <=> RowsProved!Init
  BY DEF Rows!Init, RowsProved!Init, Rows!Transactions, RowsProved!Transactions,
         Rows!PairKinds, RowsProved!PairKinds
<1>2. [Rows!Next]_Rows!rowVars <=> [RowsProved!Next]_RowsProved!rowVars
  BY NextInstance DEF Rows!rowVars, rowVars
<1> QED BY <1>1, <1>2, PTL DEF Rows!Spec, RowsProved!Spec

\* What that is worth, under every fault: the ledger agrees with the status,
\* receipts are evidence, a tenant is notified at most once, outcomes are final.
THEOREM CollectionRowsKeepPromises ==
  Spec => /\ [](Rows!LedgerAgreesWithStatus /\ Rows!ReceiptIsEvidence /\ Rows!NotifiedOnce)
          /\ Rows!OutcomeIsFinal
<1> USE DEF Rows!Transactions, RowsProved!Transactions, Rows!Count, RowsProved!Count
<1>1. /\ {} \cap Collections = {} /\ NoReceipt \notin Receipts
      /\ Subscribed \subseteq RowsProved!Transactions
  BY CollectionAssumption
<1>2. RowsProved!LedgerAgreesWithStatus => Rows!LedgerAgreesWithStatus
  BY DEF RowsProved!LedgerAgreesWithStatus, RowsProved!PayoutLedgerAgrees,
         RowsProved!CollectionLedgerAgrees, Rows!LedgerAgreesWithStatus,
         Rows!PayoutLedgerAgrees, Rows!CollectionLedgerAgrees, RowsProved!PairKinds,
         Rows!PairKinds
<1>3. RowsProved!ReceiptIsEvidence => Rows!ReceiptIsEvidence
  BY DEF RowsProved!ReceiptIsEvidence, Rows!ReceiptIsEvidence
<1>4. RowsProved!NotifiedOnce => Rows!NotifiedOnce
  BY DEF RowsProved!NotifiedOnce, Rows!NotifiedOnce
<1>5. RowsProved!Spec => [](RowsProved!LedgerAgreesWithStatus)
  BY <1>1, RowsProved!LedgerAgrees
<1>6. RowsProved!Spec => [](RowsProved!ReceiptIsEvidence)
  BY <1>1, RowsProved!ReceiptsAreEvidence
<1>7. RowsProved!Spec => [](RowsProved!NotifiedOnce)
  BY <1>1, RowsProved!TenantIsNotifiedOnce
<1>8. RowsProved!Spec => RowsProved!OutcomeIsFinal
  BY <1>1, RowsProved!OutcomesAreFinal
<1>9. RowsProved!OutcomeIsFinal => Rows!OutcomeIsFinal
  BY DEF RowsProved!OutcomeIsFinal, Rows!OutcomeIsFinal, RowsProved!rowVars, Rows!rowVars
<1> QED BY CollectionKeepsTheContract, ContractInstance, <1>2, <1>3, <1>4, <1>5, <1>6, <1>7,
           <1>8, <1>9, PTL

-----------------------------------------------------------------------------
(* What the program knows of what the customer did *)

Confirmed(t) == Queue!Stored(<<"daraja_c2b_confirmation", t>>)

\* initiate asks once, and the detector applies what Safaricom answered
PushTruthful(t) ==
  /\ stk[t] \in {"idle", "created"} => saf[t] = "unknown"
  /\ verdict[t] \in {"paid", "declined"} => saf[t] = verdict[t]

PaymentTruthful(t) ==
  /\ Confirmed(t) => saf[t] = "paid"
  /\ status[t] \in {"NONE", "SETTLED"}

RowTruthful(t) ==
  /\ status[t] = "SETTLED" => saf[t] = "paid"
  /\ t \in checkout /\ status[t] = "FAILED" => saf[t] = "declined"
  /\ receipt[t] \in {NoReceipt, ReceiptOf[t]}

Truthful ==
  /\ \A t \in Pushes : PushTruthful(t)
  /\ \A t \in Payments : PaymentTruthful(t)
  /\ \A t \in Collections : RowTruthful(t)

\* a customer decides once
LEMMA DecisionStands ==
  ASSUME PushInv, Truthful, Next
  PROVE  \A t \in Collections : saf[t] \in {"paid", "declined"} => saf'[t] = saf[t]
<1>1. ASSUME NEW t \in Pushes, Accepted(t) \/ ResponseLost(t) \/ Decide(t)
      PROVE  \A u \in Collections : saf[u] \in {"paid", "declined"} => saf'[u] = saf[u]
  BY <1>1 DEF Accepted, ResponseLost, Decide, PushInv, Types, OwnType, Truthful, PushTruthful,
              Collections
<1>2. ASSUME NEW t \in Payments, Pay(t)
      PROVE  \A u \in Collections : saf[u] \in {"paid", "declined"} => saf'[u] = saf[u]
  BY <1>2 DEF Pay, PushInv, Types, OwnType, Collections
<1> QED BY <1>1, <1>2, NextPays

LEMMA HandledIsStored ==
  ASSUME Types, NEW p \in Pollers, NEW source, NEW t, Handling(p, source, t)
  PROVE  Queue!Stored(<<source, t>>)
<1>1. QueueProved!Stored(QueueProved!current(p))
  BY CollectionAssumption, QueueProved!CurrentIsFirst DEF Types, QueueType, Handling
<1> QED BY <1>1 DEF Handling, Queue!current, QueueProved!current, Queue!Stored, QueueProved!Stored,
              Queue!ToSet, QueueProved!ToSet

\* what is stored was inserted
LEMMA StoredStep ==
  ASSUME Types, Next, NEW e, ~ Queue!Stored(e), Queue!Stored(e)'
  PROVE  Inserts(e)
<1> USE DEF Queue!Stored, Queue!ToSet
<1>1. CASE UNCHANGED queueVars
  BY <1>1 DEF queueVars
<1>2. ASSUME NEW c \in Callbacks, Inserts(c)
      PROVE  e = c
  <2>1. received' = Append(received, c) /\ received \in Seq(Callbacks)
    BY <1>2 DEF Inserts, Queue!ingest, Types, QueueType, QueueProved!QInv, QueueProved!TypeOK
  <2>2. /\ received' \in Seq(Callbacks)
        /\ Len(received') = Len(received) + 1
        /\ \A i \in 1 .. Len(received) : received'[i] = received[i]
        /\ received'[Len(received) + 1] = c
    BY <2>1, AppendProperties
  <2>3. DOMAIN received = 1 .. Len(received) /\ DOMAIN received' = 1 .. Len(received')
        /\ Len(received) \in Nat
    BY <2>1, <2>2, LenProperties
  <2>4. PICK i \in DOMAIN received' : received'[i] = e
    OBVIOUS
  <2>5. i \notin DOMAIN received \/ received[i] # e
    OBVIOUS
  <2>6. i = Len(received) + 1
    BY <2>2, <2>3, <2>4, <2>5
  <2> QED BY <2>2, <2>4, <2>6
<1>3. ASSUME NEW p \in Pollers,
             \/ Queue!Bookkeeping(p) \/ Queue!abortPoll(p)
             \/ Queue!handlerReturns(p) \/ Queue!handlerThrows(p)
      PROVE  UNCHANGED received
  BY <1>3 DEF Queue!Bookkeeping, Queue!pollUnprocessedEvents, Queue!markProcessed,
       Queue!countAttempt, Queue!sendAlert, Queue!abortPoll, Queue!handlerReturns,
       Queue!handlerThrows
<1> QED BY <1>1, <1>2, <1>3, NextQueues

\* A push that has been asked about was asked about by initiate, and a verdict
\* is an answer of Safaricom's.
LEMMA PushTruthStep ==
  ASSUME PushInv, Truthful, Next
  PROVE  \A u \in Pushes : PushTruthful(u)'
<1> USE DEF PushTruthful
<1>1. \A u \in Pushes : PushTruthful(u)
  BY DEF Truthful
<1>2. ASSUME NEW t \in Pushes, Initiate(t) PROVE \A u \in Pushes : PushTruthful(u)'
  BY <1>1, <1>2 DEF Initiate, Create, Accepted, ResponseLost, Rejected, MarkProcessing,
       MarkProcessingFails, Fail, InitiateDies, GoTo, PushInv, Types, OwnType, Pushing,
       Collections
<1>3. ASSUME NEW t \in Pushes, Decide(t) \/ Callback(t)
      PROVE  \A u \in Pushes : PushTruthful(u)'
  BY <1>1, <1>3 DEF Decide, Callback, ownVars, PushInv, Types, OwnType, Collections
<1>4. ASSUME NEW t \in Pushes, Detect(t) PROVE \A u \in Pushes : PushTruthful(u)'
  BY <1>1, <1>4, AnswersAreTrue DEF Detect, DetectorAsks, DetectorApplies, DetectorFlags,
       PushInv, Types, OwnType
<1>5. ASSUME NEW t \in Payments, Pay(t) \/ Confirmation(t)
      PROVE  \A u \in Pushes : PushTruthful(u)'
  BY <1>1, <1>5, CollectionAssumption DEF Pay, Confirmation, ownVars, PushInv, Types, OwnType,
       Collections
<1>6. ASSUME NEW p \in Pollers, Handle(p) \/ Bookkeeping(p)
      PROVE  \A u \in Pushes : PushTruthful(u)'
  BY <1>1, <1>6 DEF Handle, processStkCallback, processC2bConfirmation, Bookkeeping, ownVars
<1>7. DetectorLists \/ DetectorDies => \A u \in Pushes : PushTruthful(u)'
  BY <1>1 DEF DetectorLists, DetectorDies
<1> QED BY <1>2, <1>3, <1>4, <1>5, <1>6, <1>7 DEF Next

\* A step that writes one row writes there what the customer did.
LEMMA WriteIsTrue ==
  ASSUME PushInv, Truthful, Writes
  PROVE  \E t \in Collections :
           /\ \A u \in Collections \ {t} : status'[u] = status[u] /\ receipt'[u] = receipt[u]
           /\ receipt'[t] \in {NoReceipt, ReceiptOf[t]}
           /\ \/ UNCHANGED status
              \/ status'[t] = "SETTLED" /\ saf[t] = "paid"
              \/ status'[t] = "FAILED" /\ t \in Pushes /\ saf[t] = "declined"
              \/ /\ t \in Pushes /\ stk[t] # "done"
                 /\ status'[t] \in {"PENDING", "PROCESSING", "FAILED"}
                 /\ status'[t] = "FAILED" => stk[t] = "catching"
<1> USE DEF PushInv, Types, OwnType, RowsType, Rows!TypeOK, Rows!Transactions, Collections
<1>1. ASSUME NEW t \in Pushes, WritesPush(t) PROVE
           /\ \A u \in Collections \ {t} : status'[u] = status[u] /\ receipt'[u] = receipt[u]
           /\ receipt'[t] \in {NoReceipt, ReceiptOf[t]}
           /\ \/ UNCHANGED status
              \/ status'[t] = "SETTLED" /\ saf[t] = "paid"
              \/ status'[t] = "FAILED" /\ t \in Pushes /\ saf[t] = "declined"
              \/ /\ t \in Pushes /\ stk[t] # "done"
                 /\ status'[t] \in {"PENDING", "PROCESSING", "FAILED"}
                 /\ status'[t] = "FAILED" => stk[t] = "catching"
  <2>0. receipt[t] \in {NoReceipt, ReceiptOf[t]}
    BY DEF Truthful, RowTruthful
  <2>1. CASE stk[t] = "idle" /\ Rows!createPending(t)
    BY <2>0, <2>1 DEF Rows!createPending, Rows!SetStatus
  <2>2. CASE stk[t] = "accepted" /\ Rows!markProcessing(t)
    BY <2>0, <2>2 DEF Rows!markProcessing, Rows!SetStatus
  <2>3. CASE stk[t] = "catching" /\ Rows!failInitiation(t)
    BY <2>0, <2>3 DEF Rows!failInitiation, Rows!SetStatus
  <2>4. ASSUME NEW r \in {NoReceipt, ReceiptOf[t]}, Rows!transitionToSettled(t, r),
               saf[t] = "paid"
        PROVE  /\ \A u \in Collections \ {t} : status'[u] = status[u] /\ receipt'[u] = receipt[u]
               /\ receipt'[t] \in {NoReceipt, ReceiptOf[t]}
               /\ UNCHANGED status \/ status'[t] = "SETTLED"
    <3>1. CASE UNCHANGED rowVars
      BY <2>0, <3>1 DEF rowVars
    <3>2. CASE /\ status' = [status EXCEPT ![t] = "SETTLED"]
               /\ receipt' = IF r = NoReceipt THEN receipt ELSE [receipt EXCEPT ![t] = r]
      BY <2>0, <3>2
    <3>3. CASE receipt' = [receipt EXCEPT ![t] = r] /\ UNCHANGED status
      BY <3>3
    <3> QED BY <2>4, <3>1, <3>2, <3>3, SettleEffect
  <2>5. CASE saf[t] = "declined" /\ Rows!transitionToFailed(t)
    <3>1. status' = [status EXCEPT ![t] = "FAILED"] /\ UNCHANGED receipt
      BY <2>5, FailEffect
    <3> QED BY <2>0, <2>5, <3>1
  <2>6. CASE Rows!markDrift(t)
    BY <2>0, <2>6 DEF Rows!markDrift
  <2>7. verdict[t] \in {"paid", "declined"} => saf[t] = verdict[t]
    BY DEF Truthful, PushTruthful
  <2> QED BY <1>1, <2>1, <2>2, <2>3, <2>4, <2>5, <2>6, <2>7 DEF WritesPush
<1>2. ASSUME NEW t \in Payments, WritesPayment(t) PROVE
           /\ \A u \in Collections \ {t} : status'[u] = status[u] /\ receipt'[u] = receipt[u]
           /\ receipt'[t] \in {NoReceipt, ReceiptOf[t]}
           /\ status'[t] = "SETTLED" /\ saf[t] = "paid"
  <2>1. saf[t] = "paid"
    BY <1>2, HandledIsStored DEF WritesPayment, ConfirmationInHand, Truthful, PaymentTruthful,
         Confirmed
  <2> QED BY <1>2, <2>1 DEF WritesPayment, Rows!recordInboundSettlement, Rows!SetStatus
<1> QED BY <1>1, <1>2 DEF Writes

LEMMA CheckoutGrows ==
  ASSUME PushInv, Next, NEW u \in Pushes, u \in checkout', u \notin checkout
  PROVE  status'[u] = "PROCESSING"
<1>1. ASSUME NEW t \in Pushes, Initiate(t) PROVE UNCHANGED checkout \/ MarkProcessing(t)
  BY <1>1 DEF Initiate, Create, Accepted, ResponseLost, Rejected, MarkProcessingFails, Fail,
              InitiateDies
<1>2. ASSUME NEW t \in Pushes, Decide(t) \/ Callback(t) \/ Detect(t) PROVE UNCHANGED checkout
  BY <1>2 DEF Decide, Callback, Detect, DetectorAsks, DetectorApplies, DetectorFlags, ownVars
<1>3. ASSUME NEW t \in Payments, Pay(t) \/ Confirmation(t) PROVE UNCHANGED checkout
  BY <1>3 DEF Pay, Confirmation, ownVars
<1>4. ASSUME NEW p \in Pollers, Handle(p) \/ Bookkeeping(p) PROVE UNCHANGED checkout
  BY <1>4 DEF Handle, processStkCallback, processC2bConfirmation, Bookkeeping, ownVars
<1>5. DetectorLists \/ DetectorDies => UNCHANGED checkout
  BY DEF DetectorLists, DetectorDies
<1>6. PICK t \in Pushes : MarkProcessing(t)
  BY <1>1, <1>2, <1>3, <1>4, <1>5 DEF Next
<1> QED BY <1>6 DEF MarkProcessing, Rows!markProcessing, Rows!SetStatus, PushInv, Types,
             RowsType, Rows!TypeOK, Rows!Transactions, Collections

LEMMA TruthStep ==
  ASSUME PushInv, Truthful, Next
  PROVE  Truthful'
<1> USE CollectionAssumption DEF Collections
<1>1. \A u \in Pushes : PushTruthful(u)'
  BY PushTruthStep
<1>2. ASSUME NEW u \in Collections PROVE RowTruthful(u)'
  <2>1. RowTruthful(u) /\ (saf[u] \in {"paid", "declined"} => saf'[u] = saf[u])
    BY DecisionStands DEF Truthful
  <2>2. checkout \subseteq Pushes
    BY DEF PushInv, Types, OwnType
  <2>3. checkout' \subseteq Pushes
    BY NextTypes DEF PushInv, Types, OwnType
  <2>4. u \in checkout' => u \in checkout \/ status'[u] = "PROCESSING"
    BY <2>3, CheckoutGrows
  <2>5. CASE status'[u] = status[u] /\ receipt'[u] = receipt[u]
    BY <2>1, <2>4, <2>5 DEF RowTruthful
  <2>6. CASE Writes
    <3>1. PICK t \in Collections :
           /\ \A v \in Collections \ {t} : status'[v] = status[v] /\ receipt'[v] = receipt[v]
           /\ receipt'[t] \in {NoReceipt, ReceiptOf[t]}
           /\ \/ UNCHANGED status
              \/ status'[t] = "SETTLED" /\ saf[t] = "paid"
              \/ status'[t] = "FAILED" /\ t \in Pushes /\ saf[t] = "declined"
              \/ /\ t \in Pushes /\ stk[t] # "done"
                 /\ status'[t] \in {"PENDING", "PROCESSING", "FAILED"}
                 /\ status'[t] = "FAILED" => stk[t] = "catching"
      BY <2>6, WriteIsTrue
    <3>2. CASE t = u
      <4>1. t \in Pushes /\ stk[t] # "done" => t \notin checkout
        BY DEF PushInv, Pushing
      <4> QED BY <2>1, <2>4, <3>1, <3>2, <4>1 DEF RowTruthful
    <3> QED BY <2>5, <3>1, <3>2
  <2> QED BY <2>5, <2>6, NextWrites DEF rowVars
<1>3. ASSUME NEW u \in Payments PROVE PaymentTruthful(u)'
  <2>1. PaymentTruthful(u)
    BY DEF Truthful
  <2>2. Confirmed(u)' => saf'[u] = "paid"
    <3>1. CASE Confirmed(u)
      BY <2>1, <3>1, DecisionStands DEF PaymentTruthful
    <3>2. CASE ~ Confirmed(u) /\ Confirmed(u)'
      BY <3>2, StoredStep DEF Confirmed, PushInv, Inserts, ownVars
    <3> QED BY <3>1, <3>2
  <2>3. status'[u] \in {"NONE", "SETTLED"}
    BY <2>1, NextWrites, WriteIsTrue DEF PaymentTruthful, rowVars
  <2> QED BY <2>2, <2>3 DEF PaymentTruthful
<1> QED BY <1>1, <1>2, <1>3 DEF Truthful

\* The contract keeps the ledger in agreement, one step at a time.
LEMMA LedgerStep ==
  ASSUME RowsType, Rows!LedgerAgreesWithStatus, [Rows!Next]_rowVars
  PROVE  Rows!LedgerAgreesWithStatus'
<1> USE DEF Rows!Transactions, RowsProved!Transactions, Rows!Count, RowsProved!Count,
            Rows!PairKinds, RowsProved!PairKinds
<1>1. {} \cap Collections = {} /\ NoReceipt \notin Receipts /\ Subscribed \subseteq Collections
  BY CollectionAssumption
<1>2. RowsProved!LedgerAgreesWithStatus <=> Rows!LedgerAgreesWithStatus
  BY DEF RowsProved!LedgerAgreesWithStatus, RowsProved!PayoutLedgerAgrees,
         RowsProved!CollectionLedgerAgrees, Rows!LedgerAgreesWithStatus,
         Rows!PayoutLedgerAgrees, Rows!CollectionLedgerAgrees
<1>3. RowsProved!LedgerAgreesWithStatus' <=> Rows!LedgerAgreesWithStatus'
  BY DEF RowsProved!LedgerAgreesWithStatus, RowsProved!PayoutLedgerAgrees,
         RowsProved!CollectionLedgerAgrees, Rows!LedgerAgreesWithStatus,
         Rows!PayoutLedgerAgrees, Rows!CollectionLedgerAgrees
<1> QED BY <1>1, <1>2, <1>3, RowsInstance, NextInstance, RowsProved!NextLedger

TruthInv == PushInv /\ Truthful /\ Rows!LedgerAgreesWithStatus

LEMMA InitTruth == Init => TruthInv
<1> SUFFICES ASSUME Init PROVE TruthInv
  OBVIOUS
<1>1. Truthful
  BY DEF Init, Truthful, PushTruthful, PaymentTruthful, RowTruthful, Confirmed, Collections,
         Rows!Init, Rows!Transactions, Queue!Init, Queue!Stored, Queue!ToSet
<1>2. Rows!LedgerAgreesWithStatus
  BY DEF Init, Rows!Init, Rows!LedgerAgreesWithStatus, Rows!PayoutLedgerAgrees,
         Rows!CollectionLedgerAgrees, Rows!Count, Rows!Transactions, Rows!PairKinds
<1> QED BY <1>1, <1>2, InitPush DEF TruthInv

LEMMA NextTruth == TruthInv /\ [Next]_vars => TruthInv'
<1> SUFFICES ASSUME TruthInv, [Next]_vars PROVE TruthInv'
  OBVIOUS
<1>1. PushInv' /\ [Rows!Next]_rowVars
  BY NextPush DEF TruthInv
<1>2. Rows!LedgerAgreesWithStatus'
  BY <1>1, LedgerStep DEF TruthInv, PushInv, Types
<1>3. CASE UNCHANGED vars
  BY <1>1, <1>2, <1>3 DEF vars, rowVars, queueVars, ownVars, TruthInv, Truthful, PushTruthful,
       PaymentTruthful, RowTruthful, Confirmed, Queue!Stored
<1>4. CASE Next
  BY <1>1, <1>2, <1>4, TruthStep DEF TruthInv
<1> QED BY <1>3, <1>4

\* The callback, its replays, the drift detector and a confirmation may all
\* report a payment, in any order, and each may die half way: it is credited once
\* at most, only if the customer made it, and with its own receipt or none.
THEOREM PaymentIsCreditedOnce == Spec => []CreditedOnceIfPaid
<1>1. TruthInv => CreditedOnceIfPaid
  BY DEF TruthInv, Truthful, RowTruthful, CreditedOnceIfPaid, Rows!LedgerAgreesWithStatus,
         Rows!CollectionLedgerAgrees, Rows!Count
<1> QED BY <1>1, InitTruth, NextTruth, PTL DEF Spec

\* No unknown answer is taken for a no: a row that a callback or the detector
\* can write to never says FAILED of a payment the customer made.
THEOREM PaidCollectionIsNotFailed == Spec => []PaidIsNotFailed
<1>1. TruthInv => PaidIsNotFailed
  BY DEF TruthInv, Truthful, RowTruthful, PaymentTruthful, PaidIsNotFailed, Collections,
         PushInv, Types, OwnType
<1> QED BY <1>1, InitTruth, NextTruth, PTL DEF Spec

-----------------------------------------------------------------------------
(* PayoutEscalation: the drift detector, await by await *)

\* The places a run can be at are told apart by their first component.
LEMMA PlacesDiffer ==
  /\ \A s \in {"query", "ask", "flag", "alert", "store"} : \A x :
       <<s, x>> # Idle /\ <<s, x>> # Loop
  /\ Idle # Loop
  /\ \A r, s, x, y : <<r, x>> = <<s, y>> => r = s /\ x = y
<1>1. ASSUME NEW s \in {"query", "ask", "flag", "alert", "store"}, NEW x
      PROVE  <<s, x>>[1] # Idle[1] /\ <<s, x>>[1] # Loop[1]
  BY DEF Idle, Loop
<1>2. Idle[1] # Loop[1]
  BY DEF Idle, Loop
<1> QED BY <1>1, <1>2

\* a query is stored after Safaricom accepted it
DetectorType ==
  /\ DetectorTypeOK
  /\ \A d \in Runs, k \in Queries : at[d] = <<"store", k>> => k \in asked

LEMMA DetectorInitType == DetectorInit => DetectorType
  BY PlacesDiffer DEF DetectorInit, DetectorType, DetectorTypeOK, Places, Queries

LEMMA DetectorMoves ==
  ASSUME DetectorType, NEW d \in Runs, NEW place \in Places, Goto(d, place)
  PROVE  at' \in [Runs -> Places] /\ at'[d] = place
         /\ \A c \in Runs \ {d} : at'[c] = at[c]
  BY DEF DetectorType, DetectorTypeOK, Goto

LEMMA PlaceType ==
  /\ Idle \in Places /\ Loop \in Places
  /\ \A s \in Steps, t \in Payouts : <<s, t>> \in Places
  /\ \A k \in Queries : <<"store", k>> \in Places /\ k[1] \in Payouts
  /\ \A t \in Payouts, n \in 1 .. MaxQueries : <<t, n>> \in Queries
  BY DEF Places, Queries

LEMMA DetectorNextType ==
  ASSUME DetectorType, [DetectorNext]_detectorVars
  PROVE  DetectorType'
<1> USE DEF DetectorType, DetectorTypeOK, notices, queries
<1>1. CASE UNCHANGED detectorVars
  BY <1>1 DEF detectorVars
<1>2. ASSUME NEW t \in Payouts, GetsStuck(t) \/ GetsOutcome(t)
      PROVE  DetectorType'
  BY <1>2 DEF GetsStuck, GetsOutcome
<1>3. ASSUME NEW d \in Runs, NEW t \in Payouts, Escalate(d, t)
      PROVE  DetectorType'
  <2> USE PlaceType, PlacesDiffer, DetectorMoves DEF Steps
  <2>1. CASE checkFlag(d, t) \/ attemptStatusQuery(d, t)
    BY <2>1 DEF checkFlag, attemptStatusQuery
  <2>2. CASE queryPayoutStatus(d, t)
    <3>1. ASSUME NEW n \in 1 .. MaxQueries, asked' = asked \cup {<<t, n>>},
                 Goto(d, <<"store", <<t, n>>>>)
          PROVE  DetectorType'
      <4>1. <<"store", <<t, n>>>> \in Places /\ <<t, n>> \in Queries
        BY PlaceType
      <4>2. /\ at' \in [Runs -> Places] /\ at'[d] = <<"store", <<t, n>>>>
            /\ \A c \in Runs \ {d} : at'[c] = at[c]
        BY <3>1, <4>1, DetectorMoves
      <4>3. \A c \in Runs, k \in Queries : at'[c] = <<"store", k>> => k \in asked'
        BY <3>1, <4>2, PlacesDiffer
      <4> QED BY <2>2, <3>1, <4>1, <4>2, <4>3 DEF queryPayoutStatus
    <3>2. CASE Goto(d, <<"flag", t>>) /\ UNCHANGED asked
      BY <2>2, <3>2 DEF queryPayoutStatus
    <3> QED BY <2>2, <3>1, <3>2 DEF queryPayoutStatus
  <2>3. CASE flagDrift(d, t)
    BY <2>3 DEF flagDrift
  <2>4. CASE sendAlert(d, t)
    <3>1. alerts' \in [Payouts -> Nat]
      BY <2>4 DEF sendAlert
    <3> QED BY <2>4, <3>1 DEF sendAlert
  <2> QED BY <1>3, <2>1, <2>2, <2>3, <2>4 DEF Escalate
<1>4. ASSUME NEW d \in Runs, NEW k \in Queries, storeQuery(d, k)
      PROVE  DetectorType'
  BY <1>4, PlaceType, PlacesDiffer, DetectorMoves DEF storeQuery, Steps
<1>5. ASSUME NEW d \in Runs,
             detectStuckPayouts(d) \/ endOfLoop(d) \/ RunDies(d)
      PROVE  DetectorType'
  <2>1. todo' \in [Runs -> SUBSET Payouts] /\ lost' \subseteq Payouts
    BY <1>5 DEF detectStuckPayouts, endOfLoop, RunDies
  <2>2. Goto(d, Loop) \/ Goto(d, Idle)
    BY <1>5 DEF detectStuckPayouts, endOfLoop, RunDies
  <2>3. /\ at' \in [Runs -> Places]
        /\ \A c \in Runs, k \in Queries : at'[c] = <<"store", k>> => at[c] = at'[c]
    BY <2>2, PlaceType, PlacesDiffer, DetectorMoves
  <2> QED BY <1>5, <2>1, <2>3
          DEF detectStuckPayouts, endOfLoop, RunDies
<1>6. ASSUME NEW k \in Queries, processTransactionStatus(k)
      PROVE  DetectorType'
  BY <1>6 DEF processTransactionStatus
<1> QED BY <1>1, <1>2, <1>3, <1>4, <1>5, <1>6 DEF DetectorNext, DetectorStep

\* A run that moves from a place before the alert owes nobody one.
LEMMA NoAlertOwed ==
  ASSUME DetectorType, FlaggedIsAlerted, NEW d \in Runs, NEW place \in Places,
         Goto(d, place), \A t \in Payouts : at[d] # <<"alert", t>>,
         UNCHANGED <<flagged, alerts, lost>>
  PROVE  FlaggedIsAlerted'
  BY DetectorMoves DEF DetectorType, DetectorTypeOK, FlaggedIsAlerted

LEMMA FlaggedStep ==
  ASSUME DetectorType, FlaggedIsAlerted, [DetectorNext]_detectorVars
  PROVE  FlaggedIsAlerted'
<1> USE DEF notices, queries
<1>1. CASE UNCHANGED <<at, flagged, alerts, lost>>
  BY <1>1 DEF FlaggedIsAlerted
<1>2. ASSUME NEW d \in Runs, NEW t \in Payouts, Escalate(d, t)
      PROVE  FlaggedIsAlerted'
  <2> USE PlaceType, PlacesDiffer, NoAlertOwed DEF Steps
  <2>1. CASE checkFlag(d, t)
    BY <1>1, <2>1 DEF checkFlag
  <2>2. CASE attemptStatusQuery(d, t)
    BY <2>2 DEF attemptStatusQuery
  <2>3. CASE queryPayoutStatus(d, t)
    <3>1. PICK place \in Places : Goto(d, place)
      BY <2>3 DEF queryPayoutStatus
    <3> QED BY <2>3, <3>1 DEF queryPayoutStatus
  <2>4. CASE flagDrift(d, t)
    <3>1. CASE flagged' = flagged \cup {t} /\ Goto(d, <<"alert", t>>)
      <4>1. at'[d] = <<"alert", t>> /\ \A c \in Runs \ {d} : at'[c] = at[c]
        BY <3>1, DetectorMoves
      <4>2. \A u \in Payouts : at[d] # <<"alert", u>>
        BY <2>4 DEF flagDrift
      <4>3. UNCHANGED <<alerts, lost>>
        BY <2>4 DEF flagDrift
      <4>4. ASSUME NEW u \in flagged' \ lost', u # t
            PROVE  alerts'[u] > 0 \/ \E c \in Runs : at'[c] = <<"alert", u>>
        <5>1. u \in Payouts /\ (alerts[u] > 0 \/ \E c \in Runs : at[c] = <<"alert", u>>)
          BY <3>1, <4>3, <4>4 DEF DetectorType, DetectorTypeOK, FlaggedIsAlerted
        <5> QED BY <4>1, <4>2, <4>3, <5>1
      <4> QED BY <4>1, <4>4 DEF FlaggedIsAlerted
    <3>2. CASE Goto(d, Loop) /\ UNCHANGED flagged
      BY <2>4, <3>2 DEF flagDrift
    <3> QED BY <2>4, <3>1, <3>2 DEF flagDrift
  <2>5. CASE sendAlert(d, t)
    <3>1. \A c \in Runs \ {d} : at'[c] = at[c]
      BY <2>5, DetectorMoves DEF sendAlert
    <3>2. alerts'[t] > 0 /\ \A u \in Payouts \ {t} : alerts'[u] = alerts[u]
      BY <2>5 DEF sendAlert, DetectorType, DetectorTypeOK
    <3>3. \A u \in Payouts \ {t} : at[d] # <<"alert", u>>
      BY <2>5 DEF sendAlert
    <3>4. UNCHANGED <<flagged, lost>>
      BY <2>5 DEF sendAlert
    <3>5. ASSUME NEW u \in flagged' \ lost', u # t
          PROVE  alerts'[u] > 0 \/ \E c \in Runs : at'[c] = <<"alert", u>>
      <4>1. u \in Payouts /\ (alerts[u] > 0 \/ \E c \in Runs : at[c] = <<"alert", u>>)
        BY <3>4, <3>5 DEF DetectorType, DetectorTypeOK, FlaggedIsAlerted
      <4> QED BY <3>1, <3>2, <3>3, <3>5, <4>1
    <3> QED BY <3>2, <3>5 DEF FlaggedIsAlerted
  <2> QED BY <1>2, <2>1, <2>2, <2>3, <2>4, <2>5 DEF Escalate
<1>3. ASSUME NEW d \in Runs, NEW k \in Queries, storeQuery(d, k)
      PROVE  FlaggedIsAlerted'
  BY <1>3, PlaceType, PlacesDiffer, NoAlertOwed DEF storeQuery, Steps
<1>4. ASSUME NEW d \in Runs, detectStuckPayouts(d) \/ endOfLoop(d)
      PROVE  FlaggedIsAlerted'
  BY <1>4, PlaceType, PlacesDiffer, NoAlertOwed DEF detectStuckPayouts, endOfLoop
<1>5. ASSUME NEW d \in Runs, RunDies(d)
      PROVE  FlaggedIsAlerted'
  <2>1. \A c \in Runs \ {d} : at'[c] = at[c]
    BY <1>5, PlaceType, DetectorMoves DEF RunDies
  <2> QED BY <1>5, <2>1
          DEF RunDies, DetectorType, DetectorTypeOK, FlaggedIsAlerted
<1>6. ASSUME NEW t \in Payouts, GetsStuck(t) \/ GetsOutcome(t)
      PROVE  FlaggedIsAlerted'
  BY <1>1, <1>6 DEF GetsStuck, GetsOutcome
<1>7. ASSUME NEW k \in Queries, processTransactionStatus(k)
      PROVE  FlaggedIsAlerted'
  BY <1>1, <1>7 DEF processTransactionStatus
<1>8. CASE UNCHANGED detectorVars
  BY <1>1, <1>8 DEF detectorVars
<1> QED BY <1>2, <1>3, <1>4, <1>5, <1>6, <1>7, <1>8 DEF DetectorNext, DetectorStep

\* Flags, alerts, queries and the places of the runs keep their types.
THEOREM DetectorTypeCorrect == DetectorSpec => []DetectorTypeOK
<1>1. DetectorType => DetectorTypeOK
  BY DEF DetectorType
<1> QED BY <1>1, DetectorInitType, DetectorNextType, PTL DEF DetectorSpec

\* However many runs of the detector overlap: a payout that is flagged, so that no
\* later run looks at it, was alerted or is about to be, unless its run died.
THEOREM FlaggedPayoutIsAlerted == DetectorSpec => []FlaggedIsAlerted
<1>1. DetectorInit => DetectorType /\ FlaggedIsAlerted
  BY DetectorInitType DEF DetectorInit, FlaggedIsAlerted
<1>2. DetectorType /\ FlaggedIsAlerted /\ [DetectorNext]_detectorVars
        => (DetectorType /\ FlaggedIsAlerted)'
  BY DetectorNextType, FlaggedStep
<1> QED BY <1>1, <1>2, PTL DEF DetectorSpec

\* What one run may rely on at each place when no other run is about.
SoundAt(place) ==
  /\ \A t \in Payouts :
       /\ place \in {<<"query", t>>, <<"ask", t>>, <<"flag", t>>} => t \notin flagged
       /\ place = <<"ask", t>> => InFlight(t) = {}
       /\ place = <<"alert", t>> => t \in flagged /\ alerts[t] = 0
  /\ \A k \in Queries :
       place = <<"store", k>> => k[1] \notin flagged /\ InFlight(k[1]) = {}

OneRun ==
  /\ DetectorType
  /\ \A t \in Payouts : alerts[t] <= 1 /\ (t \notin flagged => alerts[t] = 0)
  /\ \A d \in Runs : SoundAt(at[d])
  /\ OneQueryInFlight

LEMMA SoundPlaces ==
  /\ SoundAt(Idle) /\ SoundAt(Loop)
  /\ \A t \in Payouts : t \notin flagged => SoundAt(<<"query", t>>) /\ SoundAt(<<"flag", t>>)
  /\ \A t \in Payouts : t \notin flagged /\ InFlight(t) = {} => SoundAt(<<"ask", t>>)
  /\ \A t \in Payouts : t \in flagged /\ alerts[t] = 0 => SoundAt(<<"alert", t>>)
  /\ \A k \in Queries :
       k[1] \notin flagged /\ InFlight(k[1]) = {} => SoundAt(<<"store", k>>)
  BY PlacesDiffer DEF SoundAt

\* A step that writes neither flags, alerts nor queries is judged by its place.
LEMMA OneRunMoves ==
  ASSUME OneRun, DetectorType', NEW d \in Runs, \A c \in Runs : c = d,
         NEW place \in Places, Goto(d, place), SoundAt(place),
         UNCHANGED <<flagged, alerts, stored, resolved>>
  PROVE  OneRun'
<1>1. at'[d] = place
  BY DetectorMoves DEF OneRun
<1>2. SoundAt(at[d])'
  BY <1>1 DEF SoundAt, InFlight
<1> QED BY <1>2 DEF OneRun, OneQueryInFlight, InFlight

LEMMA OneRunStep ==
  ASSUME \A c, d \in Runs : c = d, OneRun, [DetectorNext]_detectorVars
  PROVE  OneRun'
<1> USE DEF notices, queries, Steps
<1>0. DetectorType'
  BY DetectorNextType DEF OneRun
<1>1. CASE UNCHANGED <<at, flagged, alerts, stored, resolved>>
  BY <1>0, <1>1 DEF OneRun, SoundAt, OneQueryInFlight, InFlight
<1>2. ASSUME NEW d \in Runs, NEW t \in Payouts, Escalate(d, t)
      PROVE  OneRun'
  <2>0. SoundAt(at[d])
    BY DEF OneRun
  <2>1. CASE checkFlag(d, t)
    BY <1>0, <1>1, <2>1, SoundPlaces, PlaceType, OneRunMoves DEF checkFlag
  <2>2. CASE attemptStatusQuery(d, t)
    <3>1. t \notin flagged
      BY <2>0, <2>2 DEF SoundAt, attemptStatusQuery
    <3> QED BY <1>0, <2>2, <3>1, SoundPlaces, PlaceType, OneRunMoves
            DEF attemptStatusQuery
  <2>3. CASE queryPayoutStatus(d, t)
    <3>1. t \notin flagged /\ InFlight(t) = {}
      BY <2>0, <2>3 DEF SoundAt, queryPayoutStatus
    <3>2. ASSUME NEW n \in 1 .. MaxQueries
          PROVE  /\ <<"store", <<t, n>>>> \in Places
                 /\ SoundAt(<<"store", <<t, n>>>>)
      <4>1. <<t, n>> \in Queries /\ <<t, n>>[1] = t
        BY PlaceType
      <4> QED BY <3>1, <4>1, SoundPlaces, PlaceType
    <3>3. <<"flag", t>> \in Places /\ SoundAt(<<"flag", t>>)
      BY <3>1, SoundPlaces, PlaceType
    <3> QED BY <1>0, <2>3, <3>2, <3>3, OneRunMoves DEF queryPayoutStatus
  <2>4. CASE flagDrift(d, t)
    <3>1. t \notin flagged /\ alerts[t] = 0
      BY <2>0, <2>4 DEF SoundAt, flagDrift, OneRun
    <3>2. CASE flagged' = flagged \cup {t} /\ Goto(d, <<"alert", t>>)
      <4>1. at'[d] = <<"alert", t>>
        BY <3>2, PlaceType, DetectorMoves DEF OneRun
      <4>2. UNCHANGED <<alerts, stored, resolved>>
        BY <2>4 DEF flagDrift
      <4>3. SoundAt(at[d])'
        BY <3>1, <3>2, <4>1, <4>2, PlacesDiffer DEF SoundAt
      <4> QED BY <1>0, <3>1, <3>2, <4>2, <4>3
              DEF OneRun, OneQueryInFlight, InFlight
    <3>3. CASE Goto(d, Loop) /\ UNCHANGED flagged
      BY <1>0, <2>4, <3>3, SoundPlaces, PlaceType, OneRunMoves DEF flagDrift
    <3> QED BY <2>4, <3>2, <3>3 DEF flagDrift
  <2>5. CASE sendAlert(d, t)
    <3>1. t \in flagged /\ alerts[t] = 0
      BY <2>0, <2>5 DEF SoundAt, sendAlert
    <3>2. alerts'[t] = 1 /\ \A u \in Payouts \ {t} : alerts'[u] = alerts[u]
      BY <2>5, <3>1 DEF sendAlert, OneRun, DetectorType, DetectorTypeOK
    <3>3. at'[d] = Loop
      BY <2>5, PlaceType, DetectorMoves DEF OneRun, sendAlert
    <3>4. SoundAt(at[d])'
      BY <3>3, PlacesDiffer DEF SoundAt
    <3> QED BY <1>0, <2>5, <3>1, <3>2, <3>4
            DEF OneRun, sendAlert, OneQueryInFlight, InFlight
  <2> QED BY <1>2, <2>1, <2>2, <2>3, <2>4, <2>5 DEF Escalate
<1>3. ASSUME NEW d \in Runs, NEW k \in Queries, storeQuery(d, k)
      PROVE  OneRun'
  <2>1. k[1] \in Payouts /\ k[1] \notin flagged /\ InFlight(k[1]) = {}
    BY <1>3, PlaceType DEF OneRun, SoundAt, storeQuery
  <2>2. <<"flag", k[1]>> \in Places /\ at'[d] = <<"flag", k[1]>>
    BY <1>3, <2>1, PlaceType, DetectorMoves DEF OneRun, storeQuery
  <2>3. SoundAt(at[d])'
    BY <1>3, <2>1, <2>2, PlacesDiffer DEF SoundAt, storeQuery
  <2>4. stored' \subseteq stored \cup {k} /\ UNCHANGED <<resolved, flagged, alerts>>
    BY <1>3 DEF storeQuery
  <2>5. OneQueryInFlight'
    BY <2>1, <2>4 DEF OneRun, OneQueryInFlight, InFlight
  <2> QED BY <1>0, <2>3, <2>4, <2>5 DEF OneRun
<1>4. ASSUME NEW d \in Runs,
             detectStuckPayouts(d) \/ endOfLoop(d) \/ RunDies(d)
      PROVE  OneRun'
  BY <1>0, <1>4, SoundPlaces, PlaceType, OneRunMoves
     DEF detectStuckPayouts, endOfLoop, RunDies
<1>5. ASSUME NEW t \in Payouts, GetsStuck(t) \/ GetsOutcome(t)
      PROVE  OneRun'
  BY <1>1, <1>5 DEF GetsStuck, GetsOutcome
<1>6. ASSUME NEW k \in Queries, processTransactionStatus(k)
      PROVE  OneRun'
  <2>1. resolved \subseteq resolved' /\ UNCHANGED <<at, flagged, alerts, stored>>
    BY <1>6 DEF processTransactionStatus
  <2>2. \A t \in Payouts : InFlight(t)' \subseteq InFlight(t)
    BY <2>1 DEF InFlight
  <2>3. \A d \in Runs : SoundAt(at[d])'
    BY <2>1, <2>2, PlaceType DEF OneRun, SoundAt
  <2> QED BY <1>0, <2>1, <2>2, <2>3 DEF OneRun, OneQueryInFlight
<1>7. CASE UNCHANGED detectorVars
  BY <1>1, <1>7 DEF detectorVars
<1> QED BY <1>2, <1>3, <1>4, <1>5, <1>6, <1>7 DEF DetectorNext, DetectorStep

LEMMA OneRunInit == DetectorInit => OneRun
<1> SUFFICES ASSUME DetectorInit PROVE OneRun
  OBVIOUS
<1>1. \A d \in Runs : at[d] = Idle
  BY DEF DetectorInit
<1> QED BY <1>1, DetectorInitType, SoundPlaces
        DEF OneRun, DetectorInit, OneQueryInFlight, InFlight

\* With one run at a time, a stuck payout is alerted once at most, over any
\* number of runs, crashes and failing calls.
THEOREM StuckPayoutIsAlertedOnce ==
  ASSUME \A c, d \in Runs : c = d
  PROVE  DetectorSpec => []AlertedAtMostOnce
<1>1. OneRun /\ [DetectorNext]_detectorVars => OneRun'
  BY OneRunStep
<1>2. OneRun => AlertedAtMostOnce
  BY DEF OneRun, AlertedAtMostOnce
<1> QED BY <1>1, <1>2, OneRunInit, PTL DEF DetectorSpec

\* And no second status query is stored for it while one is unanswered.
THEOREM OneStatusQueryInFlight ==
  ASSUME \A c, d \in Runs : c = d
  PROVE  DetectorSpec => []OneQueryInFlight
<1>1. OneRun /\ [DetectorNext]_detectorVars => OneRun'
  BY OneRunStep
<1>2. OneRun => OneQueryInFlight
  BY DEF OneRun
<1> QED BY <1>1, <1>2, OneRunInit, PTL DEF DetectorSpec

=============================================================================
