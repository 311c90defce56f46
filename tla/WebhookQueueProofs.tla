------------------------- MODULE WebhookQueueProofs -------------------------
(***************************************************************************)
(* What WebhookQueue promises, for any set of callbacks, any batch size    *)
(* and any number of attempts.                                             *)
(*                                                                         *)
(* Type correctness holds of any number of pollers.  It needs Batched:     *)
(* the copy a poller works from is empty only between two polls, and holds *)
(* stored events that had an attempt left.  The two safety properties are  *)
(* about one poller, as the run is: two of them read the same rows.  Their *)
(* invariant is Fresh: nothing else writes the rows of a batch, so the     *)
(* copy still agrees with them.                                            *)
(***************************************************************************)
EXTENDS WebhookQueue, TLAPS, SequenceTheorems, FiniteSetTheorems

Batched ==
  \A p \in Pollers :
    /\ stage[p] # "idle" => batch[p] # <<>>
    /\ \A i \in DOMAIN batch[p] :
         batch[p][i].attempts < MAX_ATTEMPTS /\ Stored(batch[p][i].key)

QInv == TypeOK /\ Batched

-----------------------------------------------------------------------------
(* Sequences *)

LEMMA TailShifts ==
  ASSUME NEW S, NEW s \in Seq(S), s # <<>>
  PROVE  /\ Tail(s) \in Seq(S)
         /\ Len(s) \in Nat \ {0}
         /\ DOMAIN s = 1 .. Len(s)
         /\ DOMAIN Tail(s) = 1 .. (Len(s) - 1)
         /\ \A i \in DOMAIN Tail(s) : i + 1 \in DOMAIN s /\ Tail(s)[i] = s[i + 1]
         /\ Head(s) = s[1] /\ 1 \in DOMAIN s
         /\ Tail(s) = <<>> <=> Len(s) = 1
<1>1. /\ Head(s) \in S /\ Tail(s) \in Seq(S)
      /\ Len(Tail(s)) = Len(s) - 1
      /\ \A i \in 1 .. Len(Tail(s)) : Tail(s)[i] = s[i + 1]
  BY HeadTailProperties
<1>2. Len(s) \in Nat /\ DOMAIN s = 1 .. Len(s) /\ Len(s) # 0
  BY LenProperties, EmptySeq
<1>3. DOMAIN Tail(s) = 1 .. (Len(s) - 1)
  BY <1>1, LenProperties
<1>4. Head(s) = s[1]
  OBVIOUS
<1>5. Tail(s) = <<>> <=> Len(Tail(s)) = 0
  BY <1>1, EmptySeq
<1> QED BY <1>1, <1>2, <1>3, <1>4, <1>5

\* an insert keeps every position, and what was stored stays stored
LEMMA IngestAppends ==
  ASSUME received \in Seq(Events), NEW e \in Events, ingest(e)
  PROVE  /\ received' \in Seq(Events)
         /\ DOMAIN received' = DOMAIN received \cup {Len(received) + 1}
         /\ Len(received) + 1 \notin DOMAIN received
         /\ \A i \in DOMAIN received : received'[i] = received[i]
         /\ received'[Len(received) + 1] = e
         /\ \A f : Stored(f) => Stored(f)'
<1>1. received' = Append(received, e) /\ Len(received) \in Nat
  BY LenProperties DEF ingest
<1>2. /\ received' \in Seq(Events)
      /\ Len(received') = Len(received) + 1
      /\ \A i \in 1 .. Len(received) : received'[i] = received[i]
      /\ received'[Len(received) + 1] = e
  BY <1>1, AppendProperties
<1>3. DOMAIN received = 1 .. Len(received) /\ DOMAIN received' = 1 .. Len(received')
  BY <1>2, LenProperties
<1> QED BY <1>1, <1>2, <1>3 DEF Stored, ToSet

\* What a poll reads: stored events that are pending, each at most once.
LEMMA PollReads ==
  ASSUME received \in Seq(Events), NEW due \in InOrder(Due)
  PROVE  /\ \E n \in Nat : DOMAIN due = 1 .. n
         /\ DOMAIN due = {} <=> Due = {}
         /\ \A i \in DOMAIN due : due[i] \in DOMAIN received /\ Pending(received[due[i]])
         /\ \A i, j \in DOMAIN due : due[i] = due[j] => i = j
<1>1. Due \subseteq DOMAIN received /\ \A i \in Due : Pending(received[i])
  BY DEF Due, Waiting
<1>2. DOMAIN received = 1 .. Len(received) /\ Len(received) \in Nat
  BY LenProperties
<1>3. IsFiniteSet(Due)
  <2>1. IsFiniteSet(1 .. Len(received))
    BY <1>2, FS_Interval
  <2> QED BY <1>1, <1>2, <2>1, FS_Subset
<1>4. Cardinality(Due) \in Nat /\ (Cardinality(Due) = 0 <=> Due = {})
  BY <1>3, FS_CardinalityType, FS_EmptySet
<1>5. due \in [1 .. Cardinality(Due) -> Due] /\ \A i, j \in DOMAIN due : i < j => due[i] < due[j]
  BY DEF InOrder
<1>6. \A i \in DOMAIN due : due[i] \in Due /\ due[i] \in Nat
  BY <1>1, <1>2, <1>5
<1>7. DOMAIN due = 1 .. Cardinality(Due)
  BY <1>5
<1>8. ASSUME NEW i \in DOMAIN due, NEW j \in DOMAIN due, due[i] = due[j] PROVE i = j
  <2>1. ~ i < j /\ ~ j < i
    BY <1>5, <1>6, <1>8
  <2> QED BY <1>4, <1>7, <2>1
<1>9. DOMAIN due = {} <=> Due = {}
  BY <1>4, <1>7
<1> QED BY <1>1, <1>4, <1>6, <1>7, <1>8, <1>9

-----------------------------------------------------------------------------
(* Type correctness, step by step *)

LEMMA InitQInv == Init => QInv
  BY QueueAssumption DEF Init, QInv, TypeOK, Batched, Stages

LEMMA IngestQInv ==
  ASSUME QInv, NEW e \in Events, ingest(e)
  PROVE  QInv'
  BY IngestAppends DEF QInv, TypeOK, Batched, ingest

LEMMA PollQInv ==
  ASSUME QInv, NEW p \in Pollers, pollUnprocessedEvents(p)
  PROVE  QInv'
<1> PICK due \in InOrder(Due) :
       batch' = [batch EXCEPT ![p] = [i \in DOMAIN due |-> Snap(received[due[i]])]]
  BY DEF pollUnprocessedEvents
<1> DEFINE read == [i \in DOMAIN due |-> Snap(received[due[i]])]
<1>1. /\ \A i \in DOMAIN due : due[i] \in DOMAIN received /\ Pending(received[due[i]])
      /\ DOMAIN due = {} <=> Due = {}
  BY PollReads DEF QInv, TypeOK
<1>2. PICK n \in Nat : DOMAIN due = 1 .. n
  BY PollReads DEF QInv, TypeOK
<1>3. \A i \in DOMAIN due : received[due[i]] \in Events /\ Stored(received[due[i]])
  BY <1>1, ElementOfSeq, LenProperties DEF QInv, TypeOK, Stored, ToSet
<1>4. \A i \in DOMAIN due :
         read[i] \in Snapshot /\ read[i].attempts < MAX_ATTEMPTS /\ Stored(read[i].key)
  BY <1>1, <1>3 DEF Snap, Snapshot, Pending, QInv, TypeOK
<1>5. read \in Seq(Snapshot) /\ DOMAIN read = DOMAIN due
  BY <1>2, <1>4, IsASeq
<1>6. stage' = [stage EXCEPT ![p] = IF Due = {} THEN "idle" ELSE "handle"]
  BY DEF pollUnprocessedEvents
<1>7. TypeOK'
  BY <1>5, <1>6 DEF QInv, TypeOK, pollUnprocessedEvents, Stages
<1>8. stage'[p] # "idle" => batch'[p] # <<>>
  <2> SUFFICES ASSUME Due # {} PROVE read # <<>>
    BY <1>6 DEF QInv, TypeOK
  <2> QED BY <1>1, <1>5
<1>9. \A q \in Pollers \ {p} : batch'[q] = batch[q] /\ stage'[q] = stage[q]
  BY <1>6 DEF QInv, TypeOK
<1>10. batch'[p] = read /\ UNCHANGED received
  BY DEF QInv, TypeOK, pollUnprocessedEvents
<1>11. Batched'
  BY <1>4, <1>5, <1>8, <1>9, <1>10 DEF QInv, Batched, Stored
<1> QED BY <1>7, <1>11 DEF QInv

LEMMA AdvanceQInv ==
  ASSUME QInv, NEW p \in Pollers, stage[p] # "idle", Advance(p), UNCHANGED received
  PROVE  /\ batch' \in [Pollers -> Seq(Snapshot)]
         /\ stage' \in [Pollers -> Stages]
         /\ Batched'
<1>1. batch[p] \in Seq(Snapshot) /\ batch[p] # <<>>
  BY DEF QInv, TypeOK, Batched
<1>2. /\ Tail(batch[p]) \in Seq(Snapshot)
      /\ \A i \in DOMAIN Tail(batch[p]) :
           i + 1 \in DOMAIN batch[p] /\ Tail(batch[p])[i] = batch[p][i + 1]
      /\ Tail(batch[p]) = <<>> <=> Len(batch[p]) = 1
  BY <1>1, TailShifts
<1>3. /\ batch' = [batch EXCEPT ![p] = Tail(batch[p])]
      /\ stage' = [stage EXCEPT ![p] = IF Len(batch[p]) = 1 THEN "idle" ELSE "handle"]
  BY DEF Advance
<1> QED BY <1>2, <1>3 DEF QInv, TypeOK, Batched, Stages, Stored

LEMMA CurrentIsFirst ==
  ASSUME QInv, NEW p \in Pollers, stage[p] # "idle"
  PROVE  /\ batch[p] \in Seq(Snapshot) /\ 1 \in DOMAIN batch[p]
         /\ Head(batch[p]) = batch[p][1] /\ batch[p][1] \in Snapshot
         /\ batch[p][1].attempts < MAX_ATTEMPTS
         /\ current(p) \in Events /\ Stored(current(p))
<1>1. batch[p] \in Seq(Snapshot) /\ batch[p] # <<>>
  BY DEF QInv, TypeOK, Batched
<1>2. Head(batch[p]) = batch[p][1] /\ 1 \in DOMAIN batch[p]
  BY <1>1, TailShifts
<1>3. batch[p][1] \in Snapshot
  BY <1>1, <1>2, ElementOfSeq, LenProperties
<1> QED BY <1>1, <1>2, <1>3 DEF QInv, Batched, current, Snapshot

LEMMA EntryType ==
  ASSUME QInv, NEW p \in Pollers, NEW i \in DOMAIN batch[p]
  PROVE  batch[p][i] \in Snapshot /\ batch[p][i].key \in Events
<1>1. batch[p] \in Seq(Snapshot)
  BY DEF QInv, TypeOK
<1>2. batch[p][i] \in Snapshot
  BY <1>1, ElementOfSeq, LenProperties
<1> QED BY <1>2 DEF Snapshot

LEMMA PollerQInv ==
  ASSUME QInv, NEW p \in Pollers,
         Bookkeeping(p) \/ handlerReturns(p) \/ handlerThrows(p) \/ abortPoll(p)
  PROVE  QInv'
<1>1. CASE pollUnprocessedEvents(p)
  BY <1>1, PollQInv
<1>2. CASE markProcessed(p)
  BY <1>2, AdvanceQInv, CurrentIsFirst DEF markProcessed, QInv, TypeOK
<1>3. CASE countAttempt(p)
  <2>1. Head(batch[p]).attempts + 1 \in 0 .. MAX_ATTEMPTS
    BY <1>3, CurrentIsFirst, QueueAssumption DEF countAttempt, Snapshot
  <2>2. attempts' \in [Events -> 0 .. MAX_ATTEMPTS]
    BY <1>3, <2>1 DEF countAttempt, QInv, TypeOK
  <2>3. CASE Advance(p)
    BY <1>3, <2>2, <2>3, AdvanceQInv DEF countAttempt, QInv, TypeOK
  <2>4. CASE stage' = [stage EXCEPT ![p] = "alert"] /\ UNCHANGED batch
    BY <1>3, <2>2, <2>4 DEF countAttempt, QInv, TypeOK, Batched, Stages, Stored
  <2> QED BY <1>3, <2>3, <2>4 DEF countAttempt
<1>4. CASE sendAlert(p)
  <2>1. alerted' \in [Events -> Nat]
    BY <1>4, CurrentIsFirst DEF sendAlert, QInv, TypeOK
  <2> QED BY <1>4, <2>1, AdvanceQInv DEF sendAlert, QInv, TypeOK
<1>5. CASE handlerReturns(p) \/ handlerThrows(p)
  BY <1>5 DEF handlerReturns, handlerThrows, QInv, TypeOK, Batched, Stages, Stored
<1>6. CASE abortPoll(p)
  BY <1>6, EmptySeq DEF abortPoll, QInv, TypeOK, Batched, Stages, Stored
<1> QED BY <1>1, <1>2, <1>3, <1>4, <1>5, <1>6 DEF Bookkeeping

LEMMA NextQInv == QInv /\ [Next]_queueVars => QInv'
<1> SUFFICES ASSUME QInv, [Next]_queueVars PROVE QInv'
  OBVIOUS
<1>1. CASE UNCHANGED queueVars
  BY <1>1 DEF queueVars, QInv, TypeOK, Batched, Stored
<1>2. CASE Next
  BY <1>2, IngestQInv, PollerQInv DEF Next
<1> QED BY <1>1, <1>2

\* Every column stays in its range, and no attempt is counted beyond
\* MAX_ATTEMPTS, though newAttempts is computed from a stale copy.
THEOREM TypeCorrect == Spec => []TypeOK
<1>1. QInv => TypeOK
  BY DEF QInv
<1> QED BY <1>1, InitQInv, NextQInv, PTL DEF Spec

-----------------------------------------------------------------------------
(* One poller: its copy agrees with the rows *)

Distinct == \A i, j \in DOMAIN received : received[i] = received[j] => i = j

\* the one entry of a batch that its row may be ahead of: the failure of the
\* current event is stored, and the alert about it is not sent yet
Ahead(p, i) == i = 1 /\ stage[p] = "alert"

Fresh(p) ==
  /\ \A i, j \in DOMAIN batch[p] : batch[p][i].key = batch[p][j].key => i = j
  /\ \A i \in DOMAIN batch[p] :
       /\ batch[p][i].key \notin processed
       /\ ~ Ahead(p, i) => attempts[batch[p][i].key] = batch[p][i].attempts
  /\ stage[p] = "alert" =>
       attempts[current(p)] = MAX_ATTEMPTS /\ alerted[current(p)] = 0

SInv ==
  /\ QInv
  /\ Distinct
  /\ \A p \in Pollers : Fresh(p)
  /\ DeadLetterAlertedOnce

LEMMA FreshLeavesAlone == SInv => ConcludedLeftAlone
  BY CurrentIsFirst
     DEF SInv, Fresh, Ahead, ConcludedLeftAlone, Concluded, current, Snapshot

\* An insert touches no batch.
LEMMA IngestSInv ==
  ASSUME SInv, NEW e \in Events, ingest(e)
  PROVE  SInv'
<1>1. QInv'
  BY IngestQInv DEF SInv
<1>2. Distinct'
  <2>1. \A i \in DOMAIN received : received[i] # e
    BY DEF ingest, Stored, ToSet
  <2>2. /\ DOMAIN received' = DOMAIN received \cup {Len(received) + 1}
        /\ \A i \in DOMAIN received : received'[i] = received[i]
        /\ received'[Len(received) + 1] = e
    BY IngestAppends DEF SInv, QInv, TypeOK
  <2> QED BY <2>1, <2>2 DEF SInv, Distinct
<1> QED BY <1>1, <1>2 DEF SInv, ingest, Fresh, Ahead, current, DeadLetterAlertedOnce

LEMMA PollSInv ==
  ASSUME SInv, NEW p \in Pollers, \A q \in Pollers : q = p, pollUnprocessedEvents(p)
  PROVE  SInv'
<1> PICK due \in InOrder(Due) :
       batch' = [batch EXCEPT ![p] = [i \in DOMAIN due |-> Snap(received[due[i]])]]
  BY DEF pollUnprocessedEvents
<1>1. QInv'
  BY PollQInv DEF SInv
<1>2. /\ DOMAIN batch'[p] = DOMAIN due
      /\ \A i \in DOMAIN due : batch'[p][i] = Snap(received[due[i]])
  BY DEF SInv, QInv, TypeOK
<1>3. /\ \A i \in DOMAIN due : due[i] \in DOMAIN received /\ Pending(received[due[i]])
      /\ \A i, j \in DOMAIN due : due[i] = due[j] => i = j
  BY PollReads DEF SInv, QInv, TypeOK
<1>4. stage'[p] # "alert"
  BY DEF pollUnprocessedEvents, SInv, QInv, TypeOK
<1>5. Fresh(p)'
  BY <1>2, <1>3, <1>4
     DEF pollUnprocessedEvents, Fresh, Ahead, SInv, Distinct, Snap, Pending
<1> QED BY <1>1, <1>5 DEF SInv, pollUnprocessedEvents, Distinct, DeadLetterAlertedOnce

\* The rows of the current event alone are written before the batch moves on.
LEMMA AdvanceFresh ==
  ASSUME SInv, NEW p \in Pollers, stage[p] # "idle", Advance(p),
         processed' \subseteq processed \cup {current(p)},
         \A e \in Events \ {current(p)} : attempts'[e] = attempts[e]
  PROVE  Fresh(p)'
<1>1. /\ batch[p] \in Seq(Snapshot) /\ batch[p] # <<>>
      /\ 1 \in DOMAIN batch[p] /\ current(p) = batch[p][1].key
  BY CurrentIsFirst DEF SInv, QInv, TypeOK, Batched, current
<1>2. /\ DOMAIN Tail(batch[p]) = 1 .. (Len(batch[p]) - 1)
      /\ Len(batch[p]) \in Nat \ {0}
      /\ \A i \in DOMAIN Tail(batch[p]) :
           i + 1 \in DOMAIN batch[p] /\ Tail(batch[p])[i] = batch[p][i + 1]
  BY <1>1, TailShifts
<1>3. batch'[p] = Tail(batch[p]) /\ stage'[p] # "alert"
  BY DEF Advance, SInv, QInv, TypeOK
<1>4. \A i \in DOMAIN batch[p] : batch[p][i].key \in Events
  BY EntryType DEF SInv
<1>5. \A i \in DOMAIN batch[p] : i # 1 => batch[p][i].key # current(p)
  BY <1>1 DEF SInv, Fresh
<1>6. ASSUME NEW i \in DOMAIN Tail(batch[p]), NEW j \in DOMAIN Tail(batch[p]),
             Tail(batch[p])[i].key = Tail(batch[p])[j].key
      PROVE  i = j
  <2>1. i + 1 = j + 1
    BY <1>2, <1>6 DEF SInv, Fresh
  <2> QED BY <1>2, <2>1
<1>7. ASSUME NEW i \in DOMAIN Tail(batch[p])
      PROVE  /\ Tail(batch[p])[i].key \notin processed'
             /\ attempts'[Tail(batch[p])[i].key] = Tail(batch[p])[i].attempts
  <2>1. i + 1 # 1 /\ i + 1 \in DOMAIN batch[p] /\ Tail(batch[p])[i] = batch[p][i + 1]
    BY <1>2
  <2> QED BY <2>1, <1>4, <1>5 DEF SInv, Fresh, Ahead
<1> QED BY <1>3, <1>6, <1>7 DEF Fresh, Ahead

LEMMA PollerSInv ==
  ASSUME SInv, NEW p \in Pollers, \A q \in Pollers : q = p,
         Bookkeeping(p) \/ handlerReturns(p) \/ handlerThrows(p) \/ abortPoll(p)
  PROVE  SInv'
<1>1. QInv'
  BY PollerQInv DEF SInv
<1>2. CASE pollUnprocessedEvents(p)
  BY <1>2, PollSInv
<1>3. ASSUME stage[p] \in {"mark", "count", "handle"}
      PROVE  /\ current(p) \notin processed /\ attempts[current(p)] < MAX_ATTEMPTS
             /\ attempts[current(p)] = Head(batch[p]).attempts /\ alerted[current(p)] = 0
  <2>1. current(p) \notin processed /\ attempts[current(p)] = Head(batch[p]).attempts
    BY <1>3, CurrentIsFirst DEF SInv, Fresh, Ahead, current
  <2>2. attempts[current(p)] < MAX_ATTEMPTS /\ current(p) \in Events
    BY <1>3, <2>1, CurrentIsFirst DEF SInv, current
  <2>3. ~ alerted[current(p)] > 0
    BY <2>2, QueueAssumption DEF SInv, DeadLetterAlertedOnce
  <2> QED BY <2>1, <2>2, <2>3 DEF SInv, QInv, TypeOK
<1>4. CASE markProcessed(p)
  <2>1. Fresh(p)'
    BY <1>4, AdvanceFresh DEF markProcessed
  <2>2. DeadLetterAlertedOnce'
    BY <1>3, <1>4 DEF markProcessed, SInv, DeadLetterAlertedOnce
  <2> QED BY <1>1, <1>4, <2>1, <2>2 DEF SInv, markProcessed, Distinct
<1>5. CASE countAttempt(p)
  <2> DEFINE newAttempts == Head(batch[p]).attempts + 1
  <2>1. /\ attempts' = [attempts EXCEPT ![current(p)] = newAttempts]
        /\ UNCHANGED <<received, processed, alerted>> /\ stage[p] = "count"
    BY <1>5 DEF countAttempt
  <2>2. /\ current(p) \notin processed /\ newAttempts \in 1 .. MAX_ATTEMPTS
        /\ alerted[current(p)] = 0
    BY <1>3, <2>1, CurrentIsFirst, QueueAssumption DEF SInv, Snapshot
  <2>3. \A e \in Events \ {current(p)} : attempts'[e] = attempts[e]
    BY <2>1 DEF SInv, QInv, TypeOK
  <2>4. DeadLetterAlertedOnce'
    BY <2>1, <2>2, <2>3 DEF SInv, DeadLetterAlertedOnce
  <2>5. CASE Advance(p)
    <3>1. Fresh(p)'
      BY <2>1, <2>3, <2>5, AdvanceFresh
    <3> QED BY <1>1, <2>1, <2>4, <3>1 DEF SInv, Distinct
  <2>6. CASE /\ newAttempts >= MAX_ATTEMPTS
             /\ stage' = [stage EXCEPT ![p] = "alert"] /\ UNCHANGED batch
    <3>1. current(p)' = current(p) /\ stage'[p] = "alert"
      BY <2>6 DEF current, SInv, QInv, TypeOK
    <3>2. attempts'[current(p)] = MAX_ATTEMPTS
      BY <2>1, <2>2, <2>6, CurrentIsFirst, QueueAssumption DEF SInv, QInv, TypeOK
    <3>3. \A i \in DOMAIN batch[p] : i # 1 =>
            batch[p][i].key # current(p) /\ batch[p][i].key \in Events
      BY <2>1, CurrentIsFirst, EntryType DEF SInv, Fresh, current
    <3>4. Fresh(p)'
      BY <2>1, <2>2, <2>3, <2>6, <3>1, <3>2, <3>3 DEF SInv, Fresh, Ahead
    <3> QED BY <1>1, <2>1, <2>4, <3>4 DEF SInv, Distinct
  <2> QED BY <1>5, <2>5, <2>6 DEF countAttempt
<1>6. CASE sendAlert(p)
  <2>1. Fresh(p)'
    BY <1>6, AdvanceFresh DEF sendAlert
  <2>2. current(p) \in Events /\ current(p) \notin processed
    BY <1>6, CurrentIsFirst DEF sendAlert, SInv, Fresh, current
  <2>3. DeadLetterAlertedOnce'
    BY <1>6, <2>2 DEF sendAlert, SInv, QInv, TypeOK, Fresh, DeadLetterAlertedOnce
  <2> QED BY <1>1, <1>6, <2>1, <2>3 DEF SInv, sendAlert, Distinct
<1>7. CASE handlerReturns(p) \/ handlerThrows(p)
  BY <1>1, <1>7 DEF handlerReturns, handlerThrows, SInv, QInv, TypeOK, Distinct, Fresh, Ahead,
                    current, DeadLetterAlertedOnce
<1>8. CASE abortPoll(p)
  BY <1>1, <1>8 DEF abortPoll, SInv, QInv, TypeOK, Distinct, Fresh, Ahead,
                    current, DeadLetterAlertedOnce
<1> QED BY <1>2, <1>4, <1>5, <1>6, <1>7, <1>8 DEF Bookkeeping

LEMMA NextSInv == ASSUME \A p, q \in Pollers : p = q PROVE SInv /\ [Next]_queueVars => SInv'
<1> SUFFICES ASSUME SInv, [Next]_queueVars PROVE SInv'
  OBVIOUS
<1>1. CASE UNCHANGED queueVars
  BY <1>1, NextQInv
     DEF queueVars, SInv, Distinct, Fresh, Ahead, current, DeadLetterAlertedOnce
<1>2. CASE Next
  BY <1>2, IngestSInv, PollerSInv DEF Next
<1> QED BY <1>1, <1>2

LEMMA InitSInv == Init => SInv
  BY InitQInv DEF Init, SInv, Distinct, Fresh, Ahead, DeadLetterAlertedOnce

\* With one poller, no handler is started for an event that was processed or
\* given up on, although it is picked from a copy of the rows.
THEOREM ConcludedIsLeftAlone ==
  ASSUME \A p, q \in Pollers : p = q
  PROVE  Spec => []ConcludedLeftAlone
<1>1. SInv /\ [Next]_queueVars => SInv'
  BY NextSInv
<1> QED BY <1>1, InitSInv, FreshLeavesAlone, PTL DEF Spec

\* With one poller, the critical alert is sent at most once, and only for an
\* event that used up its attempts and stays unprocessed.
THEOREM DeadLetterIsAlertedOnce ==
  ASSUME \A p, q \in Pollers : p = q
  PROVE  Spec => []DeadLetterAlertedOnce
<1>1. SInv /\ [Next]_queueVars => SInv'
  BY NextSInv
<1>2. SInv => DeadLetterAlertedOnce
  BY DEF SInv
<1> QED BY <1>1, <1>2, InitSInv, PTL DEF Spec

=============================================================================
