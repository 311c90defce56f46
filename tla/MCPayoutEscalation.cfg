SPECIFICATION DetectorFairSpec
CONSTANTS
  p1 = p1
  p2 = p2
  d1 = d1
  d2 = d2
  Payouts = {p1, p2}
  Runs = {d1}
  MaxQueries = 2
  DetectorFaults = {"error", "crash"}
INVARIANTS
  AlertedAtMostOnce
  FlaggedIsAlerted
  OneQueryInFlight

  
