--------------------------- MODULE PayoutLifecycle ---------------------------
(***************************************************************************)
(* A payout from B2cService.initiate to its outcome, with everyone who     *)
(* touches its row: the request that initiates it, Safaricom, the callback *)
(* queue and its pollers, the drift detector, and the operator who         *)
(* resolves a stuck payout by hand.                                        *)
(*                                                                         *)
(* Rows are those of TransactionStateMachine and callbacks those of        *)
(* WebhookQueue; the two are instantiated over the variables of this       *)
(* module, and a handler is the conjunction of one action of each.         *)
(*                                                                         *)
(* Faults names what may go wrong, so that each run says under which       *)
(* faults its properties hold:                                             *)
(*   crash            a request, poll or resolution dies between two steps *)
(*   db_error         a handler's database work fails and rolls back       *)
(*   early_result     a callback is ingested before step 3 of initiate     *)
(*   ambiguous_accept Safaricom queues the payout, yet step 2 or 3 throws  *)
(*   stuck            results are late enough for the drift detector       *)
(***************************************************************************)
EXTENDS Naturals, Sequences, SequencesExt

CONSTANTS
  Payouts, Receipts, NoReceipt, Subscribed,  \* as in TransactionStateMachine
  Pollers, MAX_ATTEMPTS, BATCH,              \* as in WebhookQueue
  ReceiptOf,   \* payout -> the receipt Safaricom's portal shows for it
  Reported,    \* payouts whose result callback carries that receipt
  Faults       \* the faults that may happen

FaultKinds == {"crash", "db_error", "early_result", "ambiguous_accept", "stuck"}

ASSUME PayoutAssumption ==
  /\ ReceiptOf \in [Payouts -> Receipts]
  /\ \A t, u \in Payouts : ReceiptOf[t] = ReceiptOf[u] => t = u
  /\ Reported \subseteq Payouts
  /\ NoReceipt \notin Receipts
  /\ Subscribed \subseteq Payouts
  /\ MAX_ATTEMPTS \in Nat \ {0}
  /\ BATCH \in Nat \ {0}
  /\ Faults \subseteq FaultKinds

VARIABLES
  status, receipt, posted, recon, drift, reconciled, deliveries,  \* Rows
  received, processed, attempts, alerted, batch, stage,           \* Queue
  b2c,     \* payout -> where B2cService.initiate is
  saf,     \* payout -> what Safaricom has done with it
  listed,  \* payouts the running drift detection read as stuck
  desk     \* payout -> where PayoutResolutionService.resolve is

\* (source, naturalKey); the natural key of both is originatorConversationId
Callbacks == {"daraja_b2c_result", "daraja_b2c_timeout"} \X Payouts

Rows == INSTANCE TransactionStateMachine WITH Collections <- {}
Queue == INSTANCE WebhookQueue WITH Events <- Callbacks

rowVars == <<status, receipt, posted, recon, drift, reconciled, deliveries>>
queueVars == <<received, processed, attempts, alerted, batch, stage>>
ownVars == <<b2c, saf, listed, desk>>
vars == <<rowVars, queueVars, ownVars>>

TypeOK ==
  /\ Rows!TypeOK
  /\ Queue!TypeOK
  /\ b2c \in [Payouts -> {"idle", "reserved", "accepted", "catching", "done"}]
  /\ saf \in [Payouts -> {"unknown", "queued", "paid", "refused"}]
  /\ listed \subseteq Payouts
  /\ desk \in [Payouts -> {"idle", "decided", "applied"}]

Init ==
  /\ Rows!Init
  /\ Queue!Init
  /\ b2c = [t \in Payouts |-> "idle"]
  /\ saf = [t \in Payouts |-> "unknown"]
  /\ listed = {}
  /\ desk = [t \in Payouts |-> "idle"]

May(fault) == fault \in Faults

-----------------------------------------------------------------------------
(* B2cService.initiate *)

GoTo(t, to) == b2c' = [b2c EXCEPT ![t] = to]

\* step 1
Reserve(t) ==
  /\ b2c[t] = "idle"
  /\ Rows!reserve(t)
  /\ GoTo(t, "reserved")
  /\ UNCHANGED <<queueVars, saf, listed, desk>>

\* step 2: the request is queued at Safaricom and the response comes back ...
Accepted(t) ==
  /\ b2c[t] = "reserved"
  /\ saf' = [saf EXCEPT ![t] = "queued"]
  /\ GoTo(t, "accepted")
  /\ UNCHANGED <<rowVars, queueVars, listed, desk>>

\* ... or is lost
ResponseLost(t) ==
  /\ May("ambiguous_accept")
  /\ b2c[t] = "reserved"
  /\ saf' = [saf EXCEPT ![t] = "queued"]
  /\ GoTo(t, "catching")
  /\ UNCHANGED <<rowVars, queueVars, listed, desk>>

\* the credentials are missing, or Daraja rejects the request
Rejected(t) ==
  /\ b2c[t] = "reserved"
  /\ GoTo(t, "catching")
  /\ UNCHANGED <<rowVars, queueVars, saf, listed, desk>>

\* mutant: the audit entry after step 3 may throw into the same catch block
MarkProcessing_ThenThrows(t) ==
  /\ b2c[t] = "accepted"
  /\ Rows!markProcessing(t)
  /\ GoTo(t, "done") \/ GoTo(t, "catching")
  /\ UNCHANGED <<queueVars, saf, listed, desk>>

\* step 3, whatever the status is by now
MarkProcessing(t) ==
  /\ b2c[t] = "accepted"
  /\ Rows!markProcessing(t)
  /\ GoTo(t, "done")
  /\ UNCHANGED <<queueVars, saf, listed, desk>>

\* the UPDATE of step 3 fails: the catch block is the same
MarkProcessingFails(t) ==
  /\ May("ambiguous_accept")
  /\ b2c[t] = "accepted"
  /\ GoTo(t, "catching")
  /\ UNCHANGED <<rowVars, queueVars, saf, listed, desk>>

\* the catch block, whatever the status is by now
Release(t) ==
  /\ b2c[t] = "catching"
  /\ Rows!releaseReservation(t)
  /\ GoTo(t, "done")
  /\ UNCHANGED <<queueVars, saf, listed, desk>>

InitiateDies(t) ==
  /\ May("crash")
  /\ b2c[t] \in {"reserved", "accepted", "catching"}
  /\ GoTo(t, "done")
  /\ UNCHANGED <<rowVars, queueVars, saf, listed, desk>>

Initiate(t) ==
  \/ Reserve(t) \/ Accepted(t) \/ ResponseLost(t) \/ Rejected(t)
  \/ MarkProcessing(t) \/ MarkProcessingFails(t) \/ Release(t) \/ InitiateDies(t)

-----------------------------------------------------------------------------
(* Safaricom *)

Decide(t) ==
  /\ saf[t] = "queued"
  /\ \E verdict \in {"paid", "refused"} : saf' = [saf EXCEPT ![t] = verdict]
  /\ UNCHANGED <<rowVars, queueVars, b2c, listed, desk>>

Calls(source, t) ==
  /\ b2c[t] = "done" \/ May("early_result")
  /\ Queue!ingest(<<source, t>>)
  /\ UNCHANGED <<rowVars, ownVars>>

ResultCallback(t) == saf[t] \in {"paid", "refused"} /\ Calls("daraja_b2c_result", t)

TimeoutCallback(t) == saf[t] = "queued" /\ Calls("daraja_b2c_timeout", t)

Safaricom(t) == Decide(t) \/ ResultCallback(t) \/ TimeoutCallback(t)

-----------------------------------------------------------------------------
(* WebhookPollerService.  A row exists before its callback can, so the       *)
(* branches for an unknown originatorConversationId are not reached.         *)

Handling(p, source, t) == stage[p] = "handle" /\ Queue!current(p) = <<source, t>>

Reports(t) == IF t \in Reported THEN ReceiptOf[t] ELSE NoReceipt

\* mutant: a result without a receipt is taken for a duplicate
processB2cResult_NeedsReceipt(p, t) ==
  /\ Handling(p, "daraja_b2c_result", t)
  /\ IF saf[t] = "paid" /\ ~ Rows!SettleThrows(t, Reports(t))
     THEN Rows!transitionPayoutToSettled(t, Reports(t))
     ELSE UNCHANGED rowVars
  /\ Queue!handlerReturns(p)
  /\ UNCHANGED ownVars

\* mutant: a refused payout is not released, a paid one is
processB2cResult_Swapped(p, t) ==
  /\ Handling(p, "daraja_b2c_result", t)
  /\ \/ /\ saf[t] = "refused"
        /\ Rows!transitionPayoutToSettled(t, Reports(t))
        /\ Queue!handlerReturns(p)
     \/ /\ saf[t] = "paid"
        /\ Rows!transitionPayoutToFailed(t)
        /\ Queue!handlerReturns(p)
  /\ UNCHANGED ownVars

processB2cResult(p, t) ==
  /\ Handling(p, "daraja_b2c_result", t)
  /\ \/ /\ saf[t] = "paid"
        /\ Rows!transitionPayoutToSettled(t, Reports(t))
        /\ Queue!handlerReturns(p)
     \/ /\ saf[t] = "paid"
        /\ Rows!SettleThrows(t, Reports(t))
        /\ Queue!handlerThrows(p)
        /\ UNCHANGED rowVars
     \/ /\ saf[t] = "refused"
        /\ Rows!transitionPayoutToFailed(t)
        /\ Queue!handlerReturns(p)
     \/ /\ saf[t] = "refused"
        /\ Rows!FailThrows(t)
        /\ Queue!handlerThrows(p)
        /\ UNCHANGED rowVars
  /\ UNCHANGED ownVars

\* mutant: a queue timeout fails the payout
processB2cTimeout_Fails(p, t) ==
  /\ Handling(p, "daraja_b2c_timeout", t)
  /\ IF Rows!FailThrows(t) THEN UNCHANGED rowVars ELSE Rows!transitionPayoutToFailed(t)
  /\ Queue!handlerReturns(p)
  /\ UNCHANGED ownVars

\* a queue timeout is recorded and alerted: the row and its reservation stay
processB2cTimeout(p, t) ==
  /\ Handling(p, "daraja_b2c_timeout", t)
  /\ Queue!handlerReturns(p)
  /\ UNCHANGED <<rowVars, ownVars>>

Handle(p) == \E t \in Payouts : processB2cResult(p, t) \/ processB2cTimeout(p, t)

\* the state machine's transaction, or the lookup before it, fails and rolls back
HandlerDbError(p) ==
  /\ May("db_error")
  /\ Queue!handlerThrows(p)
  /\ UNCHANGED <<rowVars, ownVars>>

Bookkeeping(p) ==
  \/ Queue!Bookkeeping(p) /\ UNCHANGED <<rowVars, ownVars>>
  \/ May("crash") /\ Queue!abortPoll(p) /\ UNCHANGED <<rowVars, ownVars>>

-----------------------------------------------------------------------------
(* DriftDetectorService.detectStuckPayouts: the query for stuck rows, then   *)
(* one row after another, each escalated whatever its status is by then      *)

DetectorLists ==
  /\ May("stuck")
  /\ listed = {}
  /\ listed' \in SUBSET {t \in Payouts : status[t] = "PROCESSING"} \ {{}}
  /\ UNCHANGED <<rowVars, queueVars, b2c, saf, desk>>

DetectorEscalates(t) ==
  /\ t \in listed
  /\ listed' = listed \ {t}
  /\ IF t \in drift THEN UNCHANGED rowVars ELSE Rows!upsertDrift(t)
  /\ UNCHANGED <<queueVars, b2c, saf, desk>>

-----------------------------------------------------------------------------
(* PayoutResolutionService.resolve, called by an operator who has found the  *)
(* payout in Safaricom's portal: the status check, the transition, the close *)

DeskGoes(t, to) == desk' = [desk EXCEPT ![t] = to]

OperatorDecides(t) ==
  /\ desk[t] = "idle"
  /\ status[t] = "PROCESSING"
  /\ saf[t] \in {"paid", "refused"}
  /\ DeskGoes(t, "decided")
  /\ UNCHANGED <<rowVars, queueVars, b2c, saf, listed>>

OperatorSettles(t) ==
  /\ desk[t] = "decided"
  /\ saf[t] = "paid"
  /\ \/ Rows!transitionPayoutToSettled(t, ReceiptOf[t]) /\ DeskGoes(t, "applied")
     \/ /\ Rows!SettleThrows(t, ReceiptOf[t])
        /\ DeskGoes(t, "idle")
        /\ UNCHANGED rowVars
  /\ UNCHANGED <<queueVars, b2c, saf, listed>>

\* mutant: FAILED is a guess, made without a look at the portal
OperatorFails_Guesses(t) ==
  /\ desk[t] = "decided"
  /\ Rows!transitionPayoutToFailed(t)
  /\ DeskGoes(t, "applied")
  /\ UNCHANGED <<queueVars, b2c, saf, listed>>

\* mutant: the record is closed without the transition
OperatorFails_ClosesOnly(t) ==
  /\ desk[t] = "decided"
  /\ saf[t] = "refused"
  /\ DeskGoes(t, "applied")
  /\ UNCHANGED <<rowVars, queueVars, b2c, saf, listed>>

OperatorFails(t) ==
  /\ desk[t] = "decided"
  /\ saf[t] = "refused"
  /\ \/ Rows!transitionPayoutToFailed(t) /\ DeskGoes(t, "applied")
     \/ Rows!FailThrows(t) /\ DeskGoes(t, "idle") /\ UNCHANGED rowVars
  /\ UNCHANGED <<queueVars, b2c, saf, listed>>

OperatorCloses(t) ==
  /\ desk[t] = "applied"
  /\ Rows!closeRecord(t)
  /\ DeskGoes(t, "idle")
  /\ UNCHANGED <<queueVars, b2c, saf, listed>>

ResolutionDies(t) ==
  /\ May("crash")
  /\ desk[t] # "idle"
  /\ DeskGoes(t, "idle")
  /\ UNCHANGED <<rowVars, queueVars, b2c, saf, listed>>

Resolve(t) ==
  \/ OperatorDecides(t) \/ OperatorSettles(t) \/ OperatorFails(t)
  \/ OperatorCloses(t) \/ ResolutionDies(t)

-----------------------------------------------------------------------------

Next ==
  \/ \E t \in Payouts : Initiate(t) \/ Safaricom(t) \/ DetectorEscalates(t) \/ Resolve(t)
  \/ \E p \in Pollers : Handle(p) \/ HandlerDbError(p) \/ Bookkeeping(p)
  \/ DetectorLists

Spec == Init /\ [][Next]_vars

\* Polls go on as in WebhookQueue; a resolution that was begun is carried
\* through, and an operator who is told of a payout looks at it.
FairSpec ==
  /\ Spec
  /\ \A p \in Pollers :
       /\ WF_vars(Queue!pollUnprocessedEvents(p) /\ UNCHANGED <<rowVars, ownVars>>)
       /\ SF_vars(Handle(p))
       /\ SF_vars(Queue!markProcessed(p) /\ UNCHANGED <<rowVars, ownVars>>)
       /\ SF_vars(Queue!countAttempt(p) /\ UNCHANGED <<rowVars, ownVars>>)
       /\ SF_vars(Queue!sendAlert(p) /\ UNCHANGED <<rowVars, ownVars>>)
  /\ \A t \in Payouts :
       /\ WF_vars(t \in drift /\ OperatorDecides(t))
       /\ SF_vars(OperatorSettles(t) \/ OperatorFails(t))
       /\ SF_vars(OperatorCloses(t))

-----------------------------------------------------------------------------
(* What it implements *)

\* Where the ledger says the shillings are: the pairs posted for the payout.
\* Any other combination of pairs spends them twice, and is no place at all.
Place(t) ==
  LET pairs == <<posted[t]["reservation"], posted[t]["settlement"], posted[t]["release"]>>
  IN  IF pairs = <<0, 0, 0>> THEN "balance"
      ELSE IF pairs = <<1, 0, 0>> THEN "reserve"
      ELSE IF pairs = <<1, 1, 0>> THEN "paid"
      ELSE IF pairs = <<1, 0, 1>> THEN "returned"
      ELSE "nowhere"

Escrow == INSTANCE PayoutEscrow WITH
  money <- [t \in Payouts |-> Place(t)],
  verdict <- [t \in Payouts |-> IF saf[t] \in {"paid", "refused"} THEN saf[t] ELSE "open"]

(***************************************************************************)
(* The ledger keeps the promise of PayoutEscrow: the shillings of a payout *)
(* leave the reserve once, and go back to the balance only when Safaricom  *)
(* has not paid and cannot pay any more.                                   *)
(***************************************************************************)
ImplementsEscrow == Escrow!Spec

(***************************************************************************)
(* The two initiating writes that do not look at the status (step 3 and    *)
(* the release) meet only PENDING rows, so every step on a row is one the  *)
(* contract of TransactionStateMachine allows.                             *)
(***************************************************************************)
KeepsTheContract == Rows!Spec

(***************************************************************************)
(* A status moves only along ALLOWED_TRANSITIONS and is not silently       *)
(* overwritten, as the comment on that table has it.  Step 3 does so when  *)
(* a refusal was applied before it: FAILED becomes PROCESSING.             *)
(***************************************************************************)
StatusMovesAsAllowed ==
  [][\A t \in Payouts :
       status[t] # "NONE" /\ status'[t] # status[t]
         => status'[t] \in Rows!ALLOWED_TRANSITIONS[status[t]]]_vars

(***************************************************************************)
(* A reservation is held while its payout is in Safaricom's queue, through *)
(* queue timeouts, escalation, crashes, impatient operators and results    *)
(* that come early.                                                        *)
(***************************************************************************)
HeldWhileQueued ==
  \A t \in Payouts : saf[t] = "queued" => Place(t) = "reserve"

(***************************************************************************)
(* Even when every fault happens and two pollers run, a payout is settled  *)
(* at most once, only if Safaricom paid it, and its tenant is then told so.*)
(***************************************************************************)
SettledOnceIfPaid ==
  \A t \in Payouts : posted[t]["settlement"] > 0 =>
    /\ posted[t]["settlement"] = 1
    /\ saf[t] = "paid"
    /\ t \in Subscribed => deliveries[t] > 0

(***************************************************************************)
(* Under the same faults a reservation is given back only by who knows     *)
(* that Safaricom refused the payout, or by the catch block of its request:*)
(* never on a queue timeout, an escalation or a result that is not its own.*)
(***************************************************************************)
ReleaseIsEarned ==
  [][\A t \in Payouts : posted'[t]["release"] > posted[t]["release"] =>
       saf[t] = "refused" \/ b2c[t] = "catching"]_vars

(***************************************************************************)
(* No paid payout is released: the rule of the comments on step 3, on      *)
(* releaseReservation and on transitionPayoutToFailed.                     *)
(***************************************************************************)
PaidIsNotReleased ==
  \A t \in Payouts : saf[t] = "paid" => posted[t]["release"] = 0

(***************************************************************************)
(* The stored result of a payout that was not escalated is applied to its  *)
(* row, whatever polls die of in between, unless database errors use up    *)
(* all the attempts there are.                                             *)
(***************************************************************************)
Verdict(t) == IF saf[t] = "paid" THEN "SETTLED" ELSE "FAILED"

ResultIsApplied ==
  \A t \in Payouts : LET result == <<"daraja_b2c_result", t>> IN
    (Queue!Stored(result) /\ status[t] = "PROCESSING")
      ~> (status[t] = Verdict(t) \/ t \in drift \/ attempts[result] = MAX_ATTEMPTS)

(***************************************************************************)
(* An escalated payout that Safaricom refused is released, by its result   *)
(* or by the operator's FAILED (runbook, section 2).                       *)
(***************************************************************************)
EscalatedRefusalIsReleased ==
  \A t \in Payouts : (t \in drift /\ saf[t] = "refused") ~> (Place(t) = "returned")

(***************************************************************************)
(* An escalated payout that Safaricom paid is settled, by its result or by *)
(* the operator's SETTLED (runbook, section 2).                            *)
(***************************************************************************)
EscalatedPaymentIsSettled ==
  \A t \in Payouts : (t \in drift /\ saf[t] = "paid") ~> (status[t] = "SETTLED")

=============================================================================
