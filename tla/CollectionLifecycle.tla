------------------------- MODULE CollectionLifecycle -------------------------
(***************************************************************************)
(* Money coming in: an STK push from StkPushService.initiate to its        *)
(* outcome, and a direct Paybill or Till payment (C2B) from its            *)
(* confirmation.  The rows are those of TransactionStateMachine, the       *)
(* callbacks those of WebhookQueue, as in PayoutLifecycle.                 *)
(*                                                                         *)
(* A push differs from a payout in two ways.  The key its callback is      *)
(* matched by, checkoutRequestId, is known only from Daraja's response,    *)
(* so it is stored by step 3; and a stuck push is not escalated: the drift *)
(* detector asks Safaricom and applies the answer itself.                  *)
(***************************************************************************)
EXTENDS Naturals, Sequences, SequencesExt

CONSTANTS
  Pushes,        \* STK push transactions
  Payments,      \* C2B payments, each a transaction once it is recorded
  TillPushes,    \* pushes collected on a till rather than a paybill
  Receipts, NoReceipt, Subscribed, Pollers, MAX_ATTEMPTS, BATCH,
  ReceiptOf,     \* transaction -> its M-Pesa receipt (for C2B, the TransID)
  Faults         \* the faults that may happen, as in PayoutLifecycle; that a
                 \* callback never comes needs none: nothing makes it come

FaultKinds == {"crash", "early_callback", "ambiguous_accept"}

Collections == Pushes \cup Payments

ASSUME CollectionAssumption ==
  /\ Pushes \cap Payments = {}
  /\ TillPushes \subseteq Pushes
  /\ ReceiptOf \in [Collections -> Receipts]
  /\ \A t, u \in Collections : ReceiptOf[t] = ReceiptOf[u] => t = u
  /\ NoReceipt \notin Receipts
  /\ Subscribed \subseteq Collections
  /\ MAX_ATTEMPTS \in Nat \ {0}
  /\ BATCH \in Nat \ {0}
  /\ Faults \subseteq FaultKinds

VARIABLES
  status, receipt, posted, recon, drift, reconciled, deliveries,  \* Rows
  received, processed, attempts, alerted, batch, stage,           \* Queue
  stk,       \* push -> where StkPushService.initiate is
  checkout,  \* pushes whose row has its checkoutRequestId
  saf,       \* transaction -> what the customer did at Safaricom
  listed,    \* pushes the running drift detection read as stuck
  verdict    \* push -> the answer the detector is about to apply

Callbacks == ({"daraja_stk_callback"} \X Pushes) \cup ({"daraja_c2b_confirmation"} \X Payments)

Rows == INSTANCE TransactionStateMachine WITH Payouts <- {}
Queue == INSTANCE WebhookQueue WITH Events <- Callbacks

rowVars == <<status, receipt, posted, recon, drift, reconciled, deliveries>>
queueVars == <<received, processed, attempts, alerted, batch, stage>>
ownVars == <<stk, checkout, saf, listed, verdict>>
vars == <<rowVars, queueVars, ownVars>>

TypeOK ==
  /\ Rows!TypeOK
  /\ Queue!TypeOK
  /\ stk \in [Pushes -> {"idle", "created", "accepted", "catching", "done"}]
  /\ checkout \subseteq Pushes
  /\ saf \in [Collections -> {"unknown", "prompted", "paid", "declined"}]
  /\ listed \subseteq Pushes
  /\ verdict \in [Pushes -> {"none", "paid", "declined", "flag"}]

Init ==
  /\ Rows!Init
  /\ Queue!Init
  /\ stk = [t \in Pushes |-> "idle"]
  /\ checkout = {}
  /\ saf = [t \in Collections |-> "unknown"]
  /\ listed = {}
  /\ verdict = [t \in Pushes |-> "none"]

May(fault) == fault \in Faults

-----------------------------------------------------------------------------
(* StkPushService.initiate *)

GoTo(t, to) == stk' = [stk EXCEPT ![t] = to]

Create(t) ==
  /\ stk[t] = "idle"
  /\ Rows!createPending(t)
  /\ GoTo(t, "created")
  /\ UNCHANGED <<queueVars, checkout, saf, listed, verdict>>

Accepted(t) ==
  /\ stk[t] = "created"
  /\ saf' = [saf EXCEPT ![t] = "prompted"]
  /\ GoTo(t, "accepted")
  /\ UNCHANGED <<rowVars, queueVars, checkout, listed, verdict>>

\* the customer is prompted, but the response is lost
ResponseLost(t) ==
  /\ May("ambiguous_accept")
  /\ stk[t] = "created"
  /\ saf' = [saf EXCEPT ![t] = "prompted"]
  /\ GoTo(t, "catching")
  /\ UNCHANGED <<rowVars, queueVars, checkout, listed, verdict>>

Rejected(t) ==
  /\ stk[t] = "created"
  /\ GoTo(t, "catching")
  /\ UNCHANGED <<rowVars, queueVars, checkout, saf, listed, verdict>>

\* mutant: step 3 stores the status without the checkoutRequestId
MarkProcessing_NoCheckoutId(t) ==
  /\ stk[t] = "accepted"
  /\ Rows!markProcessing(t)
  /\ GoTo(t, "done")
  /\ UNCHANGED <<queueVars, checkout, saf, listed, verdict>>

\* step 3: status and checkoutRequestId in one UPDATE
MarkProcessing(t) ==
  /\ stk[t] = "accepted"
  /\ Rows!markProcessing(t)
  /\ checkout' = checkout \cup {t}
  /\ GoTo(t, "done")
  /\ UNCHANGED <<queueVars, saf, listed, verdict>>

MarkProcessingFails(t) ==
  /\ May("ambiguous_accept")
  /\ stk[t] = "accepted"
  /\ GoTo(t, "catching")
  /\ UNCHANGED <<rowVars, queueVars, checkout, saf, listed, verdict>>

\* the catch block
Fail(t) ==
  /\ stk[t] = "catching"
  /\ Rows!failInitiation(t)
  /\ GoTo(t, "done")
  /\ UNCHANGED <<queueVars, checkout, saf, listed, verdict>>

InitiateDies(t) ==
  /\ May("crash")
  /\ stk[t] \in {"created", "accepted", "catching"}
  /\ GoTo(t, "done")
  /\ UNCHANGED <<rowVars, queueVars, checkout, saf, listed, verdict>>

Initiate(t) ==
  \/ Create(t) \/ Accepted(t) \/ ResponseLost(t) \/ Rejected(t)
  \/ MarkProcessing(t) \/ MarkProcessingFails(t) \/ Fail(t) \/ InitiateDies(t)

-----------------------------------------------------------------------------
(* Safaricom and its customers *)

\* the PIN is entered, or the prompt is cancelled or times out
Decide(t) ==
  /\ saf[t] = "prompted"
  /\ \E v \in {"paid", "declined"} : saf' = [saf EXCEPT ![t] = v]
  /\ UNCHANGED <<rowVars, queueVars, stk, checkout, listed, verdict>>

\* a customer pays the shortcode directly
Pay(t) ==
  /\ saf[t] = "unknown"
  /\ saf' = [saf EXCEPT ![t] = "paid"]
  /\ UNCHANGED <<rowVars, queueVars, stk, checkout, listed, verdict>>

Callback(t) ==
  /\ saf[t] \in {"paid", "declined"}
  /\ stk[t] = "done" \/ May("early_callback")
  /\ Queue!ingest(<<"daraja_stk_callback", t>>)
  /\ UNCHANGED <<rowVars, ownVars>>

Confirmation(t) ==
  /\ saf[t] = "paid"
  /\ Queue!ingest(<<"daraja_c2b_confirmation", t>>)
  /\ UNCHANGED <<rowVars, ownVars>>

-----------------------------------------------------------------------------
(* WebhookPollerService *)

Handling(p, source, t) == stage[p] = "handle" /\ Queue!current(p) = <<source, t>>

\* mutant: any callback that is matched settles
processStkCallback_IgnoresCode(p, t) ==
  /\ Handling(p, "daraja_stk_callback", t)
  /\ \/ /\ t \in checkout
        /\ Rows!transitionToSettled(t, ReceiptOf[t])
        /\ Queue!handlerReturns(p)
     \/ /\ t \notin checkout
        /\ Queue!handlerReturns(p)
        /\ UNCHANGED rowVars
  /\ UNCHANGED ownVars

\* mutant: the receipt in CallbackMetadata is not passed on
processStkCallback_NoReceipt(p, t) ==
  /\ Handling(p, "daraja_stk_callback", t)
  /\ \/ saf[t] = "paid" /\ t \in checkout /\ Rows!transitionToSettled(t, NoReceipt)
     \/ saf[t] = "declined" /\ t \in checkout /\ Rows!transitionToFailed(t)
     \/ UNCHANGED rowVars
  /\ Queue!handlerReturns(p)
  /\ UNCHANGED ownVars

\* a callback whose CheckoutRequestID is on no row is recorded and dropped
processStkCallback(p, t) ==
  /\ Handling(p, "daraja_stk_callback", t)
  /\ \/ /\ t \notin checkout
        /\ Queue!handlerReturns(p)
        /\ UNCHANGED rowVars
     \/ /\ t \in checkout /\ saf[t] = "paid"
        /\ Rows!transitionToSettled(t, ReceiptOf[t])
        /\ Queue!handlerReturns(p)
     \/ /\ t \in checkout /\ saf[t] = "paid"
        /\ Rows!SettleThrows(t, ReceiptOf[t])
        /\ Queue!handlerThrows(p)
        /\ UNCHANGED rowVars
     \/ /\ t \in checkout /\ saf[t] = "declined"
        /\ Rows!transitionToFailed(t)
        /\ Queue!handlerReturns(p)
     \/ /\ t \in checkout /\ saf[t] = "declined"
        /\ Rows!FailThrows(t)
        /\ Queue!handlerThrows(p)
        /\ UNCHANGED rowVars
  /\ UNCHANGED ownVars

\* Exactly one active tenant has the shortcode, or the payment is recorded
\* nowhere.  A confirmation that is handled again (the poller died before
\* processedAt) creates a row whose receipt is taken: the insert fails.
processC2bConfirmation(p, t) ==
  /\ Handling(p, "daraja_c2b_confirmation", t)
  /\ \/ /\ Rows!recordInboundSettlement(t, ReceiptOf[t])
        /\ Queue!handlerReturns(p)
     \/ /\ status[t] = "SETTLED"
        /\ Queue!handlerThrows(p)
        /\ UNCHANGED rowVars
     \/ /\ Queue!handlerReturns(p)
        /\ UNCHANGED rowVars
  /\ UNCHANGED ownVars

Handle(p) ==
  \/ \E t \in Pushes : processStkCallback(p, t)
  \/ \E t \in Payments : processC2bConfirmation(p, t)

Bookkeeping(p) ==
  \/ Queue!Bookkeeping(p) /\ UNCHANGED <<rowVars, ownVars>>
  \/ May("crash") /\ Queue!abortPoll(p) /\ UNCHANGED <<rowVars, ownVars>>

-----------------------------------------------------------------------------
(* DriftDetectorService.detectStuckTransactions: read the stuck rows, then   *)
(* one after another ask, apply the answer, flag the record                  *)

DetectorLists ==
  /\ listed = {}
  /\ \A t \in Pushes : verdict[t] = "none"
  /\ listed' \in SUBSET {t \in Pushes : status[t] = "PROCESSING"} \ {{}}
  /\ UNCHANGED <<rowVars, queueVars, stk, checkout, saf, verdict>>

\* mutant: no verdict yet counts as a failure
Answers_UnknownIsNo(t) ==
  IF saf[t] = "paid" THEN {"none", "paid"} ELSE {"none", "declined"}

\* A row without a checkoutRequestId is passed over.  The row of a push has
\* channel STK_PUSH, so it is always asked about with the paybill's credentials:
\* for a push on a till the query fails.  resultCode is null while the prompt is
\* open, and the catch swallows a call that fails.
Answers(t) ==
  {"none"} \cup
  IF t \in checkout \ TillPushes /\ saf[t] \in {"paid", "declined"} THEN {saf[t]} ELSE {}

DetectorAsks(t) ==
  /\ t \in listed
  /\ \A u \in Pushes : verdict[u] = "none"
  /\ listed' = listed \ {t}
  /\ \E answer \in Answers(t) : verdict' = [verdict EXCEPT ![t] = answer]
  /\ UNCHANGED <<rowVars, queueVars, stk, checkout, saf>>

\* recordDriftAndReconcile: an illegal transition throws, and is logged
DetectorApplies(t) ==
  /\ \/ /\ verdict[t] = "paid"
        /\ Rows!transitionToSettled(t, NoReceipt)
        /\ verdict' = [verdict EXCEPT ![t] = "flag"]
     \/ /\ verdict[t] = "declined"
        /\ Rows!transitionToFailed(t)
        /\ verdict' = [verdict EXCEPT ![t] = "flag"]
     \/ /\ \/ verdict[t] = "paid" /\ Rows!SettleThrows(t, NoReceipt)
           \/ verdict[t] = "declined" /\ Rows!FailThrows(t)
        /\ verdict' = [verdict EXCEPT ![t] = "none"]
        /\ UNCHANGED rowVars
  /\ UNCHANGED <<queueVars, stk, checkout, saf, listed>>

DetectorFlags(t) ==
  /\ verdict[t] = "flag"
  /\ Rows!markDrift(t)
  /\ verdict' = [verdict EXCEPT ![t] = "none"]
  /\ UNCHANGED <<queueVars, stk, checkout, saf, listed>>

DetectorDies ==
  /\ May("crash")
  /\ listed' = {}
  /\ verdict' = [t \in Pushes |-> "none"]
  /\ UNCHANGED <<rowVars, queueVars, stk, checkout, saf>>

Detect(t) == DetectorAsks(t) \/ DetectorApplies(t) \/ DetectorFlags(t)

-----------------------------------------------------------------------------

Next ==
  \/ \E t \in Pushes : Initiate(t) \/ Decide(t) \/ Callback(t) \/ Detect(t)
  \/ \E t \in Payments : Pay(t) \/ Confirmation(t)
  \/ \E p \in Pollers : Handle(p) \/ Bookkeeping(p)
  \/ DetectorLists \/ DetectorDies

Spec == Init /\ [][Next]_vars

\* Polls go on as in WebhookQueue.  The detector runs again and again: a row
\* that stays stuck is read, and a query about it is some time answered.
FairSpec ==
  /\ Spec
  /\ \A p \in Pollers :
       /\ WF_vars(Queue!pollUnprocessedEvents(p) /\ UNCHANGED <<rowVars, ownVars>>)
       /\ SF_vars(Handle(p))
       /\ SF_vars(Queue!markProcessed(p) /\ UNCHANGED <<rowVars, ownVars>>)
       /\ SF_vars(Queue!countAttempt(p) /\ UNCHANGED <<rowVars, ownVars>>)
       /\ SF_vars(Queue!sendAlert(p) /\ UNCHANGED <<rowVars, ownVars>>)
  /\ \A t \in Pushes :
       /\ SF_vars(DetectorLists /\ t \in listed')
       /\ WF_vars(DetectorAsks(t))
       /\ SF_vars(DetectorAsks(t) /\ verdict'[t] # "none")
       /\ SF_vars(DetectorApplies(t))
       /\ SF_vars(DetectorFlags(t))

-----------------------------------------------------------------------------
(* Properties *)

(***************************************************************************)
(* A tenant is credited for a payment at most once and only for one the    *)
(* customer made, with that payment's receipt or none yet, although the    *)
(* callback, its replay and the drift detector may all report it.          *)
(***************************************************************************)
CreditedOnceIfPaid ==
  \A t \in Collections :
    /\ posted[t]["collection"] <= 1
    /\ posted[t]["collection"] = 1 => saf[t] = "paid"
    /\ receipt[t] \in {NoReceipt, ReceiptOf[t]}

(***************************************************************************)
(* "An unknown answer must never be recorded as a no" (drift-detector): no *)
(* row that callback or detector can write to (it has a checkoutRequestId, *)
(* or is a direct payment) says FAILED when the customer has paid.         *)
(***************************************************************************)
PaidIsNotFailed ==
  \A t \in checkout \cup Payments : saf[t] = "paid" => status[t] # "FAILED"

(***************************************************************************)
(* A push that was paid settles even if its callback is lost or came too   *)
(* early to be matched: the drift detector "fixes it itself" (runbook,     *)
(* section 3).                                                             *)
(***************************************************************************)
PaidIsCredited ==
  \A t \in Pushes : (saf[t] = "paid" /\ status[t] = "PROCESSING") ~> (status[t] = "SETTLED")

(***************************************************************************)
(* The receipt of a paid push that the detector settled without one is     *)
(* filled in by the callback, if that arrives after step 3 has committed   *)
(* (it is in no poller's hands yet).                                       *)
(***************************************************************************)
CallbackBringsReceipt ==
  \A t \in Pushes : LET callback == <<"daraja_stk_callback", t>> IN
    (/\ Queue!Stored(callback) /\ callback \notin processed
     /\ \A p \in Pollers : callback \notin {batch[p][i].key : i \in DOMAIN batch[p]}
     /\ saf[t] = "paid"
     /\ t \in checkout)
      ~> (receipt[t] = ReceiptOf[t])

=============================================================================
