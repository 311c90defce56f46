------------------------- MODULE TransactionLocking -------------------------
(***************************************************************************)
(* The methods of TransactionStateMachine taken apart: each opens a        *)
(* database transaction under READ COMMITTED, locks its row (SELECT ...    *)
(* FOR UPDATE), reads it, decides from what it has read, and writes.       *)
(* TransactionStateMachine has each method as one action; this module      *)
(* shows that the lock makes them so (ImplementsContract).                 *)
(*                                                                         *)
(* The writes of a transaction are seen by others when it commits, so they *)
(* are one action.  The unique indexes are consulted there too.            *)
(***************************************************************************)
EXTENDS TransactionStateMachine

CONSTANTS
  Calls,   \* calls of the state machine in progress: of a poller, of the
           \* detector, of an operator, in one process or in several
  NoCall   \* nobody holds the lock

ASSUME CallsAssumption == NoCall \notin Calls

VARIABLES
  holder,  \* transaction -> the call whose database transaction has its row
  call     \* call -> where it is, what it was asked for and what it has read

lockVars == <<rowVars, holder, call>>

Call == [at : {"begun", "locked", "read"},
         to : {"SETTLED", "FAILED"},
         t : Transactions,
         r : Receipts \cup {NoReceipt},
         status : Statuses,                         \* the row as it was read
         receipt : Receipts \cup {NoReceipt}]

Idle == [at |-> "idle"]

LockTypeOK ==
  /\ TypeOK
  /\ holder \in [Transactions -> Calls \cup {NoCall}]
  /\ call \in [Calls -> Call \cup {Idle}]

LockInit ==
  /\ Init
  /\ holder = [t \in Transactions |-> NoCall]
  /\ call = [q \in Calls |-> Idle]

-----------------------------------------------------------------------------
(* One call *)

\* a caller has the id of a row
Begin(q, to, t, r) ==
  /\ call[q].at = "idle"
  /\ status[t] # "NONE"
  /\ r = NoReceipt \/ to = "SETTLED"
  /\ call' = [call EXCEPT ![q] = [at |-> "begun", to |-> to, t |-> t, r |-> r,
                                  status |-> "NONE", receipt |-> NoReceipt]]
  /\ UNCHANGED <<rowVars, holder>>

\* mutant: the row is not locked
lockTransaction_NoLock(q) ==
  /\ call[q].at = "begun"
  /\ call' = [call EXCEPT ![q].at = "locked"]
  /\ UNCHANGED <<rowVars, holder>>

\* waits for as long as another transaction has the row
lockTransaction(q) ==
  /\ call[q].at = "begun"
  /\ holder[call[q].t] = NoCall
  /\ holder' = [holder EXCEPT ![call[q].t] = q]
  /\ call' = [call EXCEPT ![q].at = "locked"]
  /\ UNCHANGED rowVars

\* findUniqueOrThrow
Reads(q) ==
  /\ call[q].at = "locked"
  /\ call' = [call EXCEPT ![q].at = "read",
                          ![q].status = status[call[q].t],
                          ![q].receipt = receipt[call[q].t]]
  /\ UNCHANGED <<rowVars, holder>>

\* commit or rollback: the lock goes with the database transaction
Ends(q) ==
  /\ holder' = [t \in Transactions |-> IF holder[t] = q THEN NoCall ELSE holder[t]]
  /\ call' = [call EXCEPT ![q] = Idle]

SettlementKind(t) == IF t \in Payouts THEN "settlement" ELSE "collection"

Settles(q) ==
  LET c == call[q] IN
  /\ c.at = "read" /\ c.to = "SETTLED"
  /\ "SETTLED" \in ALLOWED_TRANSITIONS[c.status]
  /\ ReceiptFree(c.t, c.r)
  /\ SetStatus(c.t, "SETTLED")
  /\ SetReceipt(c.t, c.r)
  /\ Post(c.t, SettlementKind(c.t))
  /\ CreateReconciled(c.t)
  /\ enqueueWebhookDelivery(c.t)
  /\ Ends(q)

\* mutant: the back-fill does not look whether there was a receipt
Backfills_Overwrites(q) ==
  LET c == call[q] IN
  /\ c.at = "read" /\ c.to = "SETTLED"
  /\ c.status = "SETTLED"
  /\ c.r # NoReceipt
  /\ ReceiptFree(c.t, c.r)
  /\ SetReceipt(c.t, c.r)
  /\ Ends(q)
  /\ UNCHANGED <<status, posted, recon, drift, reconciled, deliveries>>

\* mutant: the tenant hears of the back-fill too
Backfills_Notifies(q) ==
  LET c == call[q] IN
  /\ c.at = "read" /\ c.to = "SETTLED"
  /\ c.status = "SETTLED"
  /\ c.receipt = NoReceipt /\ c.r # NoReceipt
  /\ ReceiptFree(c.t, c.r)
  /\ SetReceipt(c.t, c.r)
  /\ enqueueWebhookDelivery(c.t)
  /\ Ends(q)
  /\ UNCHANGED <<status, posted, recon, drift, reconciled>>

Backfills(q) ==
  LET c == call[q] IN
  /\ c.at = "read" /\ c.to = "SETTLED"
  /\ c.status = "SETTLED"
  /\ c.receipt = NoReceipt /\ c.r # NoReceipt
  /\ ReceiptFree(c.t, c.r)
  /\ SetReceipt(c.t, c.r)
  /\ Ends(q)
  /\ UNCHANGED <<status, posted, recon, drift, reconciled, deliveries>>

\* mutant: a payout fails without the pair that releases its reservation
Fails_KeepsReservation(q) ==
  LET c == call[q] IN
  /\ c.at = "read" /\ c.to = "FAILED"
  /\ "FAILED" \in ALLOWED_TRANSITIONS[c.status]
  /\ SetStatus(c.t, "FAILED")
  /\ enqueueWebhookDelivery(c.t)
  /\ Ends(q)
  /\ UNCHANGED <<receipt, posted, recon, drift, reconciled>>

Fails(q) ==
  LET c == call[q] IN
  /\ c.at = "read" /\ c.to = "FAILED"
  /\ "FAILED" \in ALLOWED_TRANSITIONS[c.status]
  /\ SetStatus(c.t, "FAILED")
  /\ IF c.t \in Payouts THEN Post(c.t, "release") ELSE UNCHANGED posted
  /\ enqueueWebhookDelivery(c.t)
  /\ Ends(q)
  /\ UNCHANGED <<receipt, recon, drift, reconciled>>

\* The call was a duplicate, it threw (the row belongs to the other
\* direction, the transition is illegal, an index objects), its transaction
\* timed out, or its process died.
LeavesAlone(q) ==
  /\ call[q].at # "idle"
  /\ Ends(q)
  /\ UNCHANGED rowVars

-----------------------------------------------------------------------------
(* The writers that take no lock of their own *)

\* The initiating services.  An UPDATE waits for whoever has the row; the
\* contract that it meets a PENDING row is theirs (see Initiation).
Initiates(t) ==
  /\ holder[t] = NoCall
  /\ Initiation(t)
  /\ UNCHANGED <<holder, call>>

\* a C2B confirmation inserts its row
Records(t) ==
  /\ \E r \in Receipts : recordInboundSettlement(t, r)
  /\ UNCHANGED <<holder, call>>

\* reconciliation_records is another table: whoever has the row of
\* `transactions` is not waited for
Reconciles(t) ==
  /\ Reconciliation(t)
  /\ UNCHANGED <<holder, call>>

-----------------------------------------------------------------------------

CallStep(q) ==
  \/ \E to \in {"SETTLED", "FAILED"}, t \in Transactions, r \in Receipts \cup {NoReceipt} :
       Begin(q, to, t, r)
  \/ lockTransaction(q)
  \/ Reads(q)
  \/ Settles(q)
  \/ Backfills(q)
  \/ Fails(q)
  \/ LeavesAlone(q)

LockNext ==
  \/ \E q \in Calls : CallStep(q)
  \/ \E t \in Transactions : Initiates(t) \/ Records(t) \/ Reconciles(t)

LockSpec == LockInit /\ [][LockNext]_lockVars

-----------------------------------------------------------------------------
(* Properties *)

(***************************************************************************)
(* "This makes it a property of the code" (the comment of lockTransaction):*)
(* however many calls work on a row at once, each has the effect of one    *)
(* step of the contract, on the row as it is when the call commits.        *)
(***************************************************************************)
ImplementsContract == Spec

(***************************************************************************)
(* What a call decides from is the row it writes to: nobody else has it,   *)
(* and it has not changed since it was read.                               *)
(***************************************************************************)
DecidesOnCurrentRow ==
  \A q \in Calls : call[q].at = "read" =>
    /\ holder[call[q].t] = q
    /\ call[q].status = status[call[q].t]
    /\ call[q].receipt = receipt[call[q].t]

=============================================================================
