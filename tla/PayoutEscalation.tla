-------------------------- MODULE PayoutEscalation --------------------------
(***************************************************************************)
(* DriftDetectorService.detectStuckPayouts, await by await: for each stuck *)
(* payout, look at the drift flag, ask Safaricom for its status, set the   *)
(* flag, alert a human.  The answer to the question comes back as a        *)
(* callback of its own, whenever it likes.                                 *)
(*                                                                         *)
(* Nothing guards the detector against a second run, unlike the pollers:   *)
(* runs overlap when one takes longer than the schedule's period.          *)
(*                                                                         *)
(* The detector's other half, which asks about stuck collections, is part  *)
(* of CollectionLifecycle.  One module proves about both: hence the names  *)
(* DetectorInit, DetectorNext and so on.                                   *)
(***************************************************************************)
EXTENDS Naturals

CONSTANTS
  Payouts,
  Runs,           \* overlapping runs of the detector
  MaxQueries,     \* bound on the status queries sent for one payout
  DetectorFaults  \* subset of {"error", "crash"}: a call fails; a run dies

ASSUME EscalationAssumption ==
  /\ MaxQueries \in Nat
  /\ DetectorFaults \subseteq {"error", "crash"}

VARIABLES
  stuck,     \* payouts that are PROCESSING past the threshold
  flagged,   \* payouts whose ReconciliationRecord says driftDetected
  alerts,    \* payout -> critical alerts sent
  lost,      \* observed: payouts whose alert died with the run about to send it
  asked,     \* status queries Safaricom accepted: <<payout, number>>
  stored,    \* those with a PayoutStatusQuery row
  resolved,  \* those whose row has a resolvedAt
  answered,  \* those whose result or timeout callback was handled
  todo,      \* run -> payouts it read and has not come to
  at         \* run -> where it is, and with which payout or query

notices == <<alerts, lost>>
detectorVars == <<stuck, flagged, notices, asked, stored, resolved, answered, todo, at>>

Queries == Payouts \X (1 .. MaxQueries)

Idle == <<"idle">>
Loop == <<"loop">>
Steps == {"query", "ask", "flag", "alert"}

Places == {Idle, Loop} \cup (Steps \X Payouts) \cup ({"store"} \X Queries)

DetectorTypeOK ==
  /\ stuck \subseteq Payouts
  /\ flagged \subseteq Payouts
  /\ alerts \in [Payouts -> Nat]
  /\ lost \subseteq Payouts
  /\ asked \subseteq Queries
  /\ stored \subseteq asked
  /\ resolved \subseteq stored
  /\ answered \subseteq asked
  /\ todo \in [Runs -> SUBSET Payouts]
  /\ at \in [Runs -> Places]

DetectorInit ==
  /\ stuck = {}
  /\ flagged = {}
  /\ alerts = [t \in Payouts |-> 0]
  /\ lost = {}
  /\ asked = {}
  /\ stored = {}
  /\ resolved = {}
  /\ answered = {}
  /\ todo = [d \in Runs |-> {}]
  /\ at = [d \in Runs |-> Idle]

-----------------------------------------------------------------------------

Goto(d, place) == at' = [at EXCEPT ![d] = place]

queries == <<asked, stored, resolved, answered>>

\* updatedAt falls behind the cutoff; an outcome takes the payout out again
GetsStuck(t) ==
  /\ t \notin stuck
  /\ stuck' = stuck \cup {t}
  /\ UNCHANGED <<flagged, notices, queries, todo, at>>

GetsOutcome(t) ==
  /\ t \in stuck
  /\ stuck' = stuck \ {t}
  /\ UNCHANGED <<flagged, notices, queries, todo, at>>

\* the query for stuck rows
detectStuckPayouts(d) ==
  /\ at[d] = Idle
  /\ stuck # {}
  /\ todo' = [todo EXCEPT ![d] = stuck]
  /\ Goto(d, Loop)
  /\ UNCHANGED <<stuck, flagged, notices, queries>>

\* mutant: no look at the flag
checkFlag_Off(d, t) ==
  /\ at[d] = Loop
  /\ t \in todo[d]
  /\ todo' = [todo EXCEPT ![d] = @ \ {t}]
  /\ Goto(d, <<"query", t>>)
  /\ UNCHANGED <<stuck, flagged, notices, queries>>

\* the next payout: one that is flagged was escalated on an earlier run
checkFlag(d, t) ==
  /\ at[d] = Loop
  /\ t \in todo[d]
  /\ todo' = [todo EXCEPT ![d] = @ \ {t}]
  /\ IF t \in flagged THEN UNCHANGED at ELSE Goto(d, <<"query", t>>)
  /\ UNCHANGED <<stuck, flagged, notices, queries>>

endOfLoop(d) ==
  /\ at[d] = Loop
  /\ todo[d] = {}
  /\ Goto(d, Idle)
  /\ UNCHANGED <<stuck, flagged, notices, queries, todo>>

InFlight(t) == {k \in stored \ resolved : k[1] = t}

\* mutant: the guard against a second query is missing
attemptStatusQuery_Unguarded(d, t) ==
  /\ at[d] = <<"query", t>>
  /\ Goto(d, <<"ask", t>>)
  /\ UNCHANGED <<stuck, flagged, notices, queries, todo>>

\* attemptStatusQuery: a query in flight, no default B2C shortcode, or an error
\* on the way leave it without asking
attemptStatusQuery(d, t) ==
  /\ at[d] = <<"query", t>>
  /\ \/ InFlight(t) = {} /\ Goto(d, <<"ask", t>>)
     \/ Goto(d, <<"flag", t>>)
  /\ UNCHANGED <<stuck, flagged, notices, queries, todo>>

\* daraja.queryPayoutStatus: Safaricom accepts, or the call fails
queryPayoutStatus(d, t) ==
  /\ at[d] = <<"ask", t>>
  /\ \/ \E n \in 1 .. MaxQueries :
          /\ <<t, n>> \notin asked
          /\ asked' = asked \cup {<<t, n>>}
          /\ Goto(d, <<"store", <<t, n>>>>)
     \/ Goto(d, <<"flag", t>>) /\ UNCHANGED asked
  /\ UNCHANGED <<stuck, flagged, notices, stored, resolved, answered, todo>>

\* payoutStatusQuery.create; its failure is logged
storeQuery(d, k) ==
  /\ at[d] = <<"store", k>>
  /\ Goto(d, <<"flag", k[1]>>)
  /\ \/ stored' = stored \cup {k}
     \/ "error" \in DetectorFaults /\ UNCHANGED stored
  /\ UNCHANGED <<stuck, flagged, notices, asked, resolved, answered, todo>>

\* mutant: nobody is alerted after the flag is set
flagDrift_Silent(d, t) ==
  /\ at[d] = <<"flag", t>>
  /\ flagged' = flagged \cup {t}
  /\ Goto(d, Loop)
  /\ UNCHANGED <<stuck, notices, queries, todo>>

\* the upsert; its failure ends this payout's turn
flagDrift(d, t) ==
  /\ at[d] = <<"flag", t>>
  /\ \/ flagged' = flagged \cup {t} /\ Goto(d, <<"alert", t>>)
     \/ "error" \in DetectorFaults /\ Goto(d, Loop) /\ UNCHANGED flagged
  /\ UNCHANGED <<stuck, notices, queries, todo>>

sendAlert(d, t) ==
  /\ at[d] = <<"alert", t>>
  /\ alerts' = [alerts EXCEPT ![t] = @ + 1]
  /\ Goto(d, Loop)
  /\ UNCHANGED <<stuck, flagged, lost, queries, todo>>

\* dying at the end of the loop is no different from ending
RunDies(d) ==
  /\ "crash" \in DetectorFaults
  /\ at[d] # Idle
  /\ at[d] = Loop => todo[d] # {}
  /\ Goto(d, Idle)
  /\ todo' = [todo EXCEPT ![d] = {}]
  /\ lost' = lost \cup {t \in Payouts : at[d] = <<"alert", t>>}
  /\ UNCHANGED <<stuck, flagged, alerts, queries>>

\* processTransactionStatusResult and processTransactionStatusTimeout: both
\* look the query up, and ignore one they do not find.  Neither touches the payout.
processTransactionStatus(k) ==
  /\ k \in asked \ answered
  /\ answered' = answered \cup {k}
  /\ resolved' = IF k \in stored THEN resolved \cup {k} ELSE resolved
  /\ UNCHANGED <<stuck, flagged, notices, asked, stored, todo, at>>

-----------------------------------------------------------------------------

Escalate(d, t) ==
  \/ checkFlag(d, t) \/ attemptStatusQuery(d, t) \/ queryPayoutStatus(d, t)
  \/ flagDrift(d, t) \/ sendAlert(d, t)

DetectorStep(d) ==
  \/ detectStuckPayouts(d) \/ endOfLoop(d)
  \/ \E t \in Payouts : Escalate(d, t)
  \/ \E k \in Queries : storeQuery(d, k)

DetectorNext ==
  \/ \E t \in Payouts : GetsStuck(t) \/ GetsOutcome(t)
  \/ \E d \in Runs : DetectorStep(d) \/ RunDies(d)
  \/ \E k \in Queries : processTransactionStatus(k)

DetectorSpec == DetectorInit /\ [][DetectorNext]_detectorVars

\* The schedule starts a run again and again, its statements return, the upsert
\* does not fail for ever, and the process does not crash for ever.
DetectorFairSpec ==
  /\ DetectorSpec
  /\ <>[][\A d \in Runs : ~ RunDies(d)]_detectorVars
  /\ \A d \in Runs :
       /\ WF_detectorVars(DetectorStep(d))
       /\ \A t \in Payouts : SF_detectorVars(flagDrift(d, t) /\ t \in flagged')

-----------------------------------------------------------------------------
(* Properties *)

(***************************************************************************)
(* At most one alert per stuck payout ("exactly once", detectStuckPayouts),*)
(* across any number of passes over a payout that stays stuck.             *)
(***************************************************************************)
AlertedAtMostOnce == \A t \in Payouts : alerts[t] <= 1

(***************************************************************************)
(* And at least one: a payout that is flagged, so that no later run looks  *)
(* at it again, has been alerted or is about to be.  A run that dies       *)
(* between the two is the one way to lose the alert.                       *)
(***************************************************************************)
FlaggedIsAlerted ==
  \A t \in flagged \ lost : alerts[t] > 0 \/ \E d \in Runs : at[d] = <<"alert", t>>

(***************************************************************************)
(* A payout that stays stuck is brought to a human, though any call on the *)
(* way may fail and runs may die anywhere else.                            *)
(***************************************************************************)
StuckIsAlerted ==
  \A t \in Payouts : []<>(t \notin stuck) \/ <>(alerts[t] > 0 \/ t \in lost)

(***************************************************************************)
(* No second query is stored for a payout while one is in flight.          *)
(***************************************************************************)
OneQueryInFlight ==
  \A t \in Payouts : \A j, k \in InFlight(t) : j = k

=============================================================================
