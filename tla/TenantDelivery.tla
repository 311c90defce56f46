--------------------------- MODULE TenantDelivery ---------------------------
(***************************************************************************)
(* The `tenant_webhook_deliveries` table as a queue: the state machine     *)
(* enqueues a notification with the outcome it is about, and               *)
(* TenantWebhookPollerService posts it to the tenant's own server, with a  *)
(* backoff after each failure and at most MAX_ATTEMPTS failures.           *)
(*                                                                         *)
(* As in WebhookQueue a poller works through a copy of the rows it read;   *)
(* here the copy holds the tenant's webhook configuration too.  Time is    *)
(* only an order: `due` has the pending rows whose nextAttemptAt has come, *)
(* a row that backs off leaves it and returns at its end.                  *)
(*                                                                         *)
(* One module proves about this one and TenantLifecycle: hence the names   *)
(* DeliveryInit, DeliveryNext and so on.                                   *)
(***************************************************************************)
EXTENDS Naturals, Sequences, SequencesExt

CONSTANTS
  Deliveries,
  TenantOf,      \* delivery -> its tenant
  Pollers,       \* processes running the poller
  MAX_ATTEMPTS,  \* 5 in the code
  BATCH,         \* batch size, 20 in the code
  DeliveryFaults \* subset of DeliveryFaultKinds

\* crash: a poll dies; db_error: an update fails; removed: the columns of the
\* configuration are cleared; key_change: CREDENTIALS_ENCRYPTION_KEY is replaced
DeliveryFaultKinds == {"crash", "db_error", "removed", "key_change"}

\* the tenants there is something to tell
Addressees == {TenantOf[d] : d \in Deliveries}

ASSUME DeliveryAssumption ==
  /\ TenantOf \in [Deliveries -> Addressees]
  /\ MAX_ATTEMPTS \in Nat \ {0}
  /\ BATCH \in Nat \ {0}
  /\ DeliveryFaults \subseteq DeliveryFaultKinds

VARIABLES
  secret,    \* tenant -> "none", "readable" or "unreadable" under today's key
  deliveryStatus, \* delivery -> "none" before it is enqueued, then its status column
  attempts,  \* delivery -> attempts column
  lastError, \* delivery -> "unconfigured", another "failure", or "none"
  due,       \* pending deliveries that are due, in the order of nextAttemptAt
  posts,     \* delivery -> POSTs sent, counted up to MAX_ATTEMPTS
  acked,     \* deliveries the tenant's server answered with 2xx
  alerted,   \* delivery -> "failed after all retries" alerts sent
  batch,     \* poller -> what is left of the batch it read
  stage      \* poller -> where it is in attemptDelivery

rows == <<deliveryStatus, attempts, lastError, due>>
outside == <<posts, acked, alerted>>
deliveryVars == <<secret, rows, outside, batch, stage>>

Secrets == {"none", "readable", "unreadable"}
Stages == {"idle", "attempt", "ok", "failed", "alert"}
Snapshot == [key : Deliveries, attempts : 0 .. MAX_ATTEMPTS, secret : Secrets]

DeliveryTypeOK ==
  /\ secret \in [Addressees -> Secrets]
  /\ deliveryStatus \in [Deliveries -> {"none", "PENDING", "DELIVERED", "FAILED"}]
  /\ attempts \in [Deliveries -> 0 .. MAX_ATTEMPTS]
  /\ lastError \in [Deliveries -> {"none", "failure", "unconfigured"}]
  /\ due \in Seq(Deliveries)
  /\ posts \in [Deliveries -> 0 .. MAX_ATTEMPTS]
  /\ acked \subseteq Deliveries
  /\ alerted \in [Deliveries -> Nat]
  /\ batch \in [Pollers -> Seq(Snapshot)]
  /\ stage \in [Pollers -> Stages]

DeliveryInit ==
  /\ secret = [t \in Addressees |-> "none"]
  /\ deliveryStatus = [d \in Deliveries |-> "none"]
  /\ attempts = [d \in Deliveries |-> 0]
  /\ lastError = [d \in Deliveries |-> "none"]
  /\ due = <<>>
  /\ posts = [d \in Deliveries |-> 0]
  /\ acked = {}
  /\ alerted = [d \in Deliveries |-> 0]
  /\ batch = [p \in Pollers |-> <<>>]
  /\ stage = [p \in Pollers |-> "idle"]

-----------------------------------------------------------------------------
(* The tenant's configuration, and the rows *)

\* TenantsService.configureWebhook: a fresh secret under today's key
configureWebhook(t) ==
  /\ secret' = [secret EXCEPT ![t] = "readable"]
  /\ UNCHANGED <<rows, outside, batch, stage>>

\* no code of the repository does this; the poller is written for it
ConfigRemoved(t) ==
  /\ "removed" \in DeliveryFaults
  /\ secret' = [secret EXCEPT ![t] = "none"]
  /\ UNCHANGED <<rows, outside, batch, stage>>

\* a restart with another key
KeyChanges ==
  /\ "key_change" \in DeliveryFaults
  /\ secret' = [t \in Addressees |-> IF secret[t] = "none" THEN "none" ELSE "unreadable"]
  /\ UNCHANGED <<rows, outside, batch, stage>>

\* TransactionStateMachine.enqueueWebhookDelivery, only for a tenant with a URL
enqueueWebhookDelivery(d) ==
  /\ deliveryStatus[d] = "none"
  /\ secret[TenantOf[d]] # "none"
  /\ deliveryStatus' = [deliveryStatus EXCEPT ![d] = "PENDING"]
  /\ due' = Append(due, d)
  /\ UNCHANGED <<secret, attempts, lastError, outside, batch, stage>>

\* nextAttemptAt of a row that backed off comes
BecomesDue(d) ==
  /\ deliveryStatus[d] = "PENDING"
  /\ d \notin ToSet(due)
  /\ due' = Append(due, d)
  /\ UNCHANGED <<secret, deliveryStatus, attempts, lastError, outside, batch, stage>>

-----------------------------------------------------------------------------
(* TenantWebhookPollerService *)

current(p) == Head(batch[p])

pollPendingDeliveries(p) ==
  LET ready == SubSeq(due, 1, IF Len(due) < BATCH THEN Len(due) ELSE BATCH)
  IN  /\ stage[p] = "idle"
      /\ ready # <<>>
      /\ batch' = [batch EXCEPT ![p] =
           [i \in DOMAIN ready |-> [key |-> ready[i], attempts |-> attempts[ready[i]],
                                    secret |-> secret[TenantOf[ready[i]]]]]]
      /\ stage' = [stage EXCEPT ![p] = "attempt"]
      /\ UNCHANGED <<secret, rows, outside>>

Stage(p, to) == stage' = [stage EXCEPT ![p] = to] /\ UNCHANGED batch

Advance(p) ==
  /\ batch' = [batch EXCEPT ![p] = Tail(@)]
  /\ stage' = [stage EXCEPT ![p] = IF Len(batch[p]) = 1 THEN "idle" ELSE "attempt"]

\* whatever is thrown out of attemptDelivery ends the poll; so does a crash
Abort(p) ==
  /\ batch' = [batch EXCEPT ![p] = <<>>]
  /\ stage' = [stage EXCEPT ![p] = "idle"]

\* a row backs off or is concluded (another poller may have seen to that already)
Leaves(d) ==
  \/ d \notin ToSet(due) /\ UNCHANGED due
  \/ \E i \in DOMAIN due : due[i] = d /\ due' = RemoveAt(due, i)

giveUpUnconfigured(p) ==
  LET d == current(p).key
  IN  /\ stage[p] = "attempt"
      /\ current(p).secret = "none"
      /\ \/ /\ deliveryStatus' = [deliveryStatus EXCEPT ![d] = "FAILED"]
            /\ lastError' = [lastError EXCEPT ![d] = "unconfigured"]
            /\ Leaves(d)
            /\ Advance(p)
         \/ "db_error" \in DeliveryFaults /\ Abort(p) /\ UNCHANGED <<deliveryStatus, lastError, due>>
      /\ UNCHANGED <<secret, attempts, outside>>

\* before the try block: the error leaves the loop over the batch
decrypt(p) ==
  /\ stage[p] = "attempt"
  /\ current(p).secret = "unreadable"
  /\ Abort(p)
  /\ UNCHANGED <<secret, rows, outside>>

\* fetch: 2xx, or another answer, an error, the timeout
post(p) ==
  LET d == current(p).key
  IN  /\ stage[p] = "attempt"
      /\ current(p).secret = "readable"
      /\ posts' = [posts EXCEPT ![d] = IF @ < MAX_ATTEMPTS THEN @ + 1 ELSE @]
      /\ \/ acked' = acked \cup {d} /\ Stage(p, "ok")
         \/ UNCHANGED acked /\ Stage(p, "failed")
      /\ UNCHANGED <<secret, rows, alerted>>

\* mutant: the poller's query is not limited to PENDING rows
markDelivered_StaysDue(p) ==
  LET d == current(p).key
  IN  /\ stage[p] = "ok"
      /\ deliveryStatus' = [deliveryStatus EXCEPT ![d] = "DELIVERED"]
      /\ Advance(p)
      /\ UNCHANGED <<secret, attempts, lastError, due, outside>>

\* this update is inside the try block: its failure counts as a failed attempt
markDelivered(p) ==
  LET d == current(p).key
  IN  /\ stage[p] = "ok"
      /\ \/ deliveryStatus' = [deliveryStatus EXCEPT ![d] = "DELIVERED"] /\ Leaves(d) /\ Advance(p)
         \/ "db_error" \in DeliveryFaults /\ Stage(p, "failed") /\ UNCHANGED <<deliveryStatus, due>>
      /\ UNCHANGED <<secret, attempts, lastError, outside>>

\* mutant: one attempt too few, MAX_ATTEMPTS - 1 in the comparison
recordFailure_OneShort(p) ==
  LET d == current(p).key
      counted == current(p).attempts + 1
  IN  /\ stage[p] = "failed"
      /\ attempts' = [attempts EXCEPT ![d] = counted]
      /\ lastError' = [lastError EXCEPT ![d] = "failure"]
      /\ Leaves(d)
      /\ IF counted + 1 >= MAX_ATTEMPTS
         THEN deliveryStatus' = [deliveryStatus EXCEPT ![d] = "FAILED"] /\ Stage(p, "alert")
         ELSE UNCHANGED deliveryStatus /\ Advance(p)
      /\ UNCHANGED <<secret, outside>>

\* mutant: the last failure is alerted, its row stays PENDING
recordFailure_OnlyAlerts(p) ==
  LET d == current(p).key
      counted == current(p).attempts + 1
  IN  /\ stage[p] = "failed"
      /\ Leaves(d)
      /\ IF counted >= MAX_ATTEMPTS
         THEN UNCHANGED attempts /\ Stage(p, "alert")
         ELSE attempts' = [attempts EXCEPT ![d] = counted] /\ Advance(p)
      /\ UNCHANGED <<secret, deliveryStatus, lastError, outside>>

\* attempts counts from the batch's copy
recordFailure(p) ==
  LET d == current(p).key
      counted == current(p).attempts + 1
  IN  /\ stage[p] = "failed"
      /\ \/ /\ attempts' = [attempts EXCEPT ![d] = counted]
            /\ lastError' = [lastError EXCEPT ![d] = "failure"]
            /\ Leaves(d)
            /\ IF counted >= MAX_ATTEMPTS
               THEN deliveryStatus' = [deliveryStatus EXCEPT ![d] = "FAILED"] /\ Stage(p, "alert")
               ELSE UNCHANGED deliveryStatus /\ Advance(p)
         \/ "db_error" \in DeliveryFaults /\ Abort(p) /\ UNCHANGED rows
      /\ UNCHANGED <<secret, outside>>

sendAlert(p) ==
  /\ stage[p] = "alert"
  /\ alerted' = [alerted EXCEPT ![current(p).key] = @ + 1]
  /\ Advance(p)
  /\ UNCHANGED <<secret, rows, posts, acked>>

PollDies(p) ==
  /\ "crash" \in DeliveryFaults
  /\ stage[p] # "idle"
  /\ Abort(p)
  /\ UNCHANGED <<secret, rows, outside>>

attemptDelivery(p) ==
  \/ giveUpUnconfigured(p) \/ decrypt(p) \/ post(p)
  \/ markDelivered(p) \/ recordFailure(p) \/ sendAlert(p)

DeliveryNext ==
  \/ \E t \in Addressees : configureWebhook(t) \/ ConfigRemoved(t)
  \/ KeyChanges
  \/ \E d \in Deliveries : enqueueWebhookDelivery(d) \/ BecomesDue(d)
  \/ \E p \in Pollers : pollPendingDeliveries(p) \/ attemptDelivery(p) \/ PollDies(p)

DeliverySpec == DeliveryInit /\ [][DeliveryNext]_deliveryVars

\* Time passes, the scheduler keeps calling the poller, a POST ends (its timeout
\* is 10 s), and neither a crash nor a database error strikes one step for ever.
DeliveryFairSpec ==
  /\ DeliverySpec
  /\ \A d \in Deliveries : WF_deliveryVars(BecomesDue(d))
  /\ \A p \in Pollers :
       /\ WF_deliveryVars(pollPendingDeliveries(p))
       /\ WF_deliveryVars(decrypt(p))
       /\ SF_deliveryVars(giveUpUnconfigured(p) /\ deliveryStatus' # deliveryStatus)
       /\ SF_deliveryVars(post(p))
       /\ SF_deliveryVars(markDelivered(p) /\ deliveryStatus' # deliveryStatus)
       /\ SF_deliveryVars(recordFailure(p) /\ attempts' # attempts)
       /\ SF_deliveryVars(sendAlert(p))

-----------------------------------------------------------------------------
(* Properties *)

Concluded(d) == deliveryStatus[d] \in {"DELIVERED", "FAILED"}

(***************************************************************************)
(* With one process polling, the column tells the truth: DELIVERED is for  *)
(* a notification the tenant's server acknowledged, and FAILED is not      *)
(* written before MAX_ATTEMPTS POSTs were sent, unless it is written down  *)
(* that the tenant has no webhook any more.                                *)
(***************************************************************************)
StatusIsEarned ==
  \A d \in Deliveries :
    /\ deliveryStatus[d] = "DELIVERED" => d \in acked
    /\ deliveryStatus[d] = "FAILED" => posts[d] = MAX_ATTEMPTS \/ lastError[d] = "unconfigured"

(***************************************************************************)
(* However many processes poll and overwrite each other's columns: when    *)
(* DELIVERED or FAILED is written, it is earned.                           *)
(***************************************************************************)
ConclusionIsEarned ==
  [][\A d \in Deliveries : deliveryStatus'[d] # deliveryStatus[d] =>
       /\ deliveryStatus'[d] = "DELIVERED" => d \in acked
       /\ deliveryStatus'[d] = "FAILED" =>
            posts[d] = MAX_ATTEMPTS \/ lastError'[d] = "unconfigured"]_deliveryVars

(***************************************************************************)
(* With one process polling, the team is told once that a notification was *)
(* given up, and its row says so by then.                                  *)
(***************************************************************************)
GivenUpAlertedOnce ==
  \A d \in Deliveries : alerted[d] > 0 => alerted[d] = 1 /\ deliveryStatus[d] = "FAILED"

(***************************************************************************)
(* With one process polling, a notification that is concluded is not sent  *)
(* again: the copy the poller works from does not fall behind the rows.    *)
(***************************************************************************)
ConcludedIsNotSentAgain ==
  \A p \in Pollers : stage[p] = "attempt" => ~ Concluded(current(p).key)

(***************************************************************************)
(* Once the configurations are, and stay, readable (or removed), every     *)
(* notification is acknowledged or given up in the end, whatever happened  *)
(* before, and whatever happens to the others in the queue.                *)
(***************************************************************************)
EveryDeliveryConcluded ==
  (<>[] \A t \in Addressees : secret[t] # "unreadable")
    => \A d \in Deliveries : (deliveryStatus[d] = "PENDING") ~> Concluded(d)

=============================================================================
