---------------------------- MODULE WebhookQueue ----------------------------
(***************************************************************************)
(* The `webhook_events` table as a queue: WebhookIngestService inserts a   *)
(* callback once per (source, naturalKey), WebhookPollerService drains it. *)
(*                                                                         *)
(* A poller is one process that runs pollUnprocessedEvents; its isPolling  *)
(* flag is stage[p] # "idle".  It reads a batch once, with the attempts    *)
(* the rows had then, and works through that copy.  What a handler does to *)
(* the rest of the database is not said here: handlerReturns and           *)
(* handlerThrows are conjoined with it where the handlers are modelled.    *)
(***************************************************************************)
EXTENDS Naturals, Sequences, SequencesExt, FiniteSets

CONSTANTS
  Events,        \* (source, naturalKey) pairs
  Pollers,       \* processes running the poller
  MAX_ATTEMPTS,  \* 5 in the code
  BATCH           \* batch size, 20 in the code

ASSUME QueueAssumption ==
  /\ MAX_ATTEMPTS \in Nat \ {0}
  /\ BATCH \in Nat \ {0}

VARIABLES
  received,   \* stored events in the order of receivedAt
  processed,  \* events with a processedAt
  attempts,   \* event -> attempts column
  alerted,    \* event -> "failed after all retries" alerts sent
  batch,      \* poller -> what is left of the batch it read: key and attempts
  stage       \* poller -> where it is in processEvent

queueVars == <<received, processed, attempts, alerted, batch, stage>>

Stages == {"idle", "handle", "mark", "count", "alert"}

Snapshot == [key : Events, attempts : 0 .. MAX_ATTEMPTS]

TypeOK ==
  /\ received \in Seq(Events)
  /\ processed \subseteq Events
  /\ attempts \in [Events -> 0 .. MAX_ATTEMPTS]
  /\ alerted \in [Events -> Nat]
  /\ batch \in [Pollers -> Seq(Snapshot)]
  /\ stage \in [Pollers -> Stages]

Init ==
  /\ received = <<>>
  /\ processed = {}
  /\ attempts = [e \in Events |-> 0]
  /\ alerted = [e \in Events |-> 0]
  /\ batch = [p \in Pollers |-> <<>>]
  /\ stage = [p \in Pollers |-> "idle"]

-----------------------------------------------------------------------------

Stored(e) == e \in ToSet(received)

current(p) == Head(batch[p]).key

\* WebhookIngestService.ingest: the unique constraint makes a redelivery of a
\* stored callback a no-op.  An insert that fails for another reason loses the
\* delivery (the controller answers 200 all the same): no step here.
ingest(e) ==
  /\ ~ Stored(e)
  /\ received' = Append(received, e)
  /\ UNCHANGED <<processed, attempts, alerted, batch, stage>>

\* mutant: dead letters are still selected
Pending_NoLimit(e) == e \notin processed

Pending(e) == e \notin processed /\ attempts[e] < MAX_ATTEMPTS

\* positions of the pending events, and of the oldest BATCH of them
Waiting == {i \in DOMAIN received : Pending(received[i])}

Due == {i \in Waiting : Cardinality({j \in Waiting : j < i}) < BATCH}

\* the one ascending enumeration of a set of positions
InOrder(S) ==
  {s \in [1 .. Cardinality(S) -> S] : \A i, j \in DOMAIN s : i < j => s[i] < s[j]}

Snap(e) == [key |-> e, attempts |-> attempts[e]]

\* an empty batch ends the run at once
pollUnprocessedEvents(p) ==
  /\ stage[p] = "idle"
  /\ \E due \in InOrder(Due) :
       batch' = [batch EXCEPT ![p] = [i \in DOMAIN due |-> Snap(received[due[i]])]]
  /\ stage' = [stage EXCEPT ![p] = IF Due = {} THEN "idle" ELSE "handle"]
  /\ UNCHANGED <<received, processed, attempts, alerted>>

\* processEvent: the handler of current(p) came back, or threw
handlerReturns(p) ==
  /\ stage[p] = "handle"
  /\ stage' = [stage EXCEPT ![p] = "mark"]
  /\ UNCHANGED <<received, processed, attempts, alerted, batch>>

handlerThrows(p) ==
  /\ stage[p] = "handle"
  /\ stage' = [stage EXCEPT ![p] = "count"]
  /\ UNCHANGED <<received, processed, attempts, alerted, batch>>

\* on to the next event of the batch, or out of the loop (isPolling = false)
Advance(p) ==
  /\ batch' = [batch EXCEPT ![p] = Tail(@)]
  /\ stage' = [stage EXCEPT ![p] = IF Len(batch[p]) = 1 THEN "idle" ELSE "handle"]

markProcessed(p) ==
  /\ stage[p] = "mark"
  /\ processed' = processed \cup {current(p)}
  /\ Advance(p)
  /\ UNCHANGED <<received, attempts, alerted>>

\* mutant: the failure is logged, not stored
countAttempt_NotStored(p) ==
  /\ stage[p] = "count"
  /\ Advance(p)
  /\ UNCHANGED <<received, processed, attempts, alerted>>

\* mutant: the alert compares the attempts before this one
countAttempt_AlertsEarly(p) ==
  /\ stage[p] = "count"
  /\ attempts' = [attempts EXCEPT ![current(p)] = Head(batch[p]).attempts + 1]
  /\ IF attempts[current(p)] + 2 >= MAX_ATTEMPTS
     THEN stage' = [stage EXCEPT ![p] = "alert"] /\ UNCHANGED batch
     ELSE Advance(p)
  /\ UNCHANGED <<received, processed, alerted>>

\* newAttempts comes from the batch's copy of the row, not from the row
countAttempt(p) ==
  LET newAttempts == Head(batch[p]).attempts + 1
  IN  /\ stage[p] = "count"
      /\ attempts' = [attempts EXCEPT ![current(p)] = newAttempts]
      /\ IF newAttempts >= MAX_ATTEMPTS
         THEN stage' = [stage EXCEPT ![p] = "alert"] /\ UNCHANGED batch
         ELSE Advance(p)
      /\ UNCHANGED <<received, processed, alerted>>

\* after the attempts are stored: a crash in between loses the alert
sendAlert(p) ==
  /\ stage[p] = "alert"
  /\ alerted' = [alerted EXCEPT ![current(p)] = @ + 1]
  /\ Advance(p)
  /\ UNCHANGED <<received, processed, attempts>>

\* The process dies, or a statement outside the handler's try fails: the rest
\* of the batch is dropped and the finally clause (or the restart) clears the flag.
abortPoll(p) ==
  /\ stage[p] # "idle"
  /\ batch' = [batch EXCEPT ![p] = <<>>]
  /\ stage' = [stage EXCEPT ![p] = "idle"]
  /\ UNCHANGED <<received, processed, attempts, alerted>>

Bookkeeping(p) == pollUnprocessedEvents(p) \/ markProcessed(p) \/ countAttempt(p) \/ sendAlert(p)

Next ==
  \/ \E e \in Events : ingest(e)
  \/ \E p \in Pollers : Bookkeeping(p) \/ handlerReturns(p) \/ handlerThrows(p) \/ abortPoll(p)

Spec == Init /\ [][Next]_queueVars

\* The scheduler keeps calling the poller (every 10 s in process, every minute
\* from outside), handlers come back (their HTTP-free database work ends), and
\* a process does not die at the same point for ever.
FairSpec ==
  /\ Spec
  /\ \A p \in Pollers :
       /\ WF_queueVars(pollUnprocessedEvents(p))
       /\ SF_queueVars(handlerReturns(p) \/ handlerThrows(p))
       /\ SF_queueVars(markProcessed(p))
       /\ SF_queueVars(countAttempt(p))
       /\ SF_queueVars(sendAlert(p))

-----------------------------------------------------------------------------
(* Properties *)

(***************************************************************************)
(* No callback is left behind: a stored event is in the end processed or   *)
(* dead-lettered, even when older events keep failing and a batch holds    *)
(* fewer events than are waiting, and even when polls are cut short.       *)
(***************************************************************************)
Concluded(e) == e \in processed \/ attempts[e] = MAX_ATTEMPTS

EveryCallbackConcluded == \A e \in Events : Stored(e) ~> Concluded(e)

(***************************************************************************)
(* A concluded event is left alone: no handler is started for an event that*)
(* has been processed or given up on, although the batch is a stale copy.  *)
(***************************************************************************)
ConcludedLeftAlone ==
  \A p \in Pollers : stage[p] = "handle" => ~ Concluded(current(p))

(***************************************************************************)
(* The critical alert tells the truth, once: it is sent only for an event  *)
(* that was given up on and is not processed, never twice.                 *)
(***************************************************************************)
DeadLetterAlertedOnce ==
  \A e \in Events : alerted[e] > 0 =>
    /\ alerted[e] = 1
    /\ attempts[e] = MAX_ATTEMPTS
    /\ e \notin processed

=============================================================================
