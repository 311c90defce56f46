SPECIFICATION FairSpec
CONSTANTS
  t1 = t1
  t2 = t2
  q1 = q1
  q2 = q2
  q3 = q3
  q4 = q4
  k1 = k1
  Tenants = {t1, t2}
  Requests = {q1, q2, q3, q4}
  TenantOf <- MCTenantOf
  KeyOf <- MCKeyOf
  NoKey = NoKey
  AmountOf <- MCAmountOf
  Collected = {1, 2}
  MaxCredit = 2
  None = None
INVARIANTS
  NoOverdraft
  Conservation
  OneKeyOnePayout
PROPERTIES
  ImplementsAccount
  EveryRequestEnds
CHECK_DEADLOCK FALSE
