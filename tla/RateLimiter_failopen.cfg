SPECIFICATION LimiterSpec
CONSTANTS
  Skew = 1
  Capacity = 3
  Cost = 2
  TTL = 4
  Win = 3
  Limit = 2
  Grace = 1
  Checks = {r1, r2}
  MaxTime = 4
PROPERTIES FailsOpen
