SPECIFICATION DeliveryFairSpec
CONSTANTS
  t1 = t1
  t2 = t2
  d1 = d1
  d2 = d2
  w1 = w1
  w2 = w2
  Deliveries = {d1, d2}
  TenantOf <- MCTenantOf
  Pollers = {w1}
  MAX_ATTEMPTS = 2
  BATCH = 1
  DeliveryFaults = {"crash", "db_error", "removed", "key_change"}
INVARIANTS
  StatusIsEarned
  GivenUpAlertedOnce
  ConcludedIsNotSentAgain
PROPERTIES
  EveryDeliveryConcluded
