SPECIFICATION Spec
CONSTANTS
  t1 = t1
  t2 = t2
  u1 = u1
  r1 = r1
  r2 = r2
  k1 = k1
  k2 = k2
  n1 = n1
  n2 = n2
  Tenants = {t1, t2}
  Users = {u1}
  Requests = {r1, r2}
  Rows = {k1, k2}
  Numbers = {n1, n2}
  Types = {"PAYBILL", "TILL"}
  Targets = {"active", "suspended"}
  NoTenant = NoTenant
  NoUser = NoUser
  NoRow = NoRow
  Faults = {"crash"}
SYMMETRY LifecycleSymmetry
INVARIANTS
  
  
  FounderKeepsTenant
  ActiveTenantGotKey
  StaffDecidesFirst
