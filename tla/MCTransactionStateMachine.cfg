SPECIFICATION LockSpec
CONSTANTS
  p1 = p1
  c1 = c1
  r1 = r1
  r2 = r2
  q1 = q1
  q2 = q2
  Payouts = {p1}
  Collections = {c1}
  Receipts = {r1, r2}
  NoReceipt = NoReceipt
  Subscribed <- MCSubscribed
  Calls = {q1, q2}
  NoCall = NoCall
SYMMETRY RowSymmetry
INVARIANTS
  LedgerAgreesWithStatus
  ReceiptIsEvidence
  NotifiedOnce
PROPERTIES
  OutcomeIsFinal
  ImplementsContract
