SPECIFICATION FairSpec
CONSTANTS
  s1 = s1
  s2 = s2
  c1 = c1
  w1 = w1
  w2 = w2
  r1 = r1
  r2 = r2
  r3 = r3
  Pushes = {s1}
  Payments = {c1}
  TillPushes = {}
  Receipts = {r1, r2, r3}
  NoReceipt = NoReceipt
  Subscribed = {s1}
  Pollers = {w1}
  MAX_ATTEMPTS = 2
  BATCH = 2
  ReceiptOf <- MCReceiptOf
  Faults = {"crash", "early_callback", "ambiguous_accept"}
INVARIANTS
  CreditedOnceIfPaid
  PaidIsNotFailed

  
  
