SPECIFICATION FairSpec
CONSTANTS
  p1 = p1
  p2 = p2
  w1 = w1
  w2 = w2
  r1 = r1
  r2 = r2
  Payouts = {p1}
  Receipts = {r1, r2}
  NoReceipt = NoReceipt
  Subscribed = {p1}
  Pollers = {w1}
  MAX_ATTEMPTS = 2
  BATCH = 2
  ReceiptOf <- MCReceiptOf
  Reported <- MCReported
  Faults = {"crash", "db_error", "stuck"}
PROPERTIES
  ImplementsEscrow
  KeepsTheContract
  ResultIsApplied
  EscalatedRefusalIsReleased
