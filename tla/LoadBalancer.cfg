SPECIFICATION FairBalancerSpec
CONSTANTS
  N = 2
  Algorithms = {"round-robin", "weighted", "least-conn", "split"}
  SplitWeight <- MCSplitWeight
  Requests = {r1, r2}
  None = None
INVARIANTS BalancerTypeOK ConnsExact ProportionalShare
PROPERTIES HealthyIfUndisturbed IdleFirst Detects Readmits
